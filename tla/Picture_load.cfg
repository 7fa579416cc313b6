\* A picture is loaded while create_bmp writes, fails, is killed, starts anew.
CONSTANTS
  red = red
  blue = blue
  Colour = {red, blue}
  Size <- Sizes
  Foreign <- Files
  Chunk = 6
  MaxRuns = 2
  Screen <- Screens
SPECIFICATION Spec
INVARIANTS LoadedIsPicture ShownIsPicture CompleteIsLoaded
