------------------------------ MODULE KeyHolds ------------------------------
(***************************************************************************)
(* KeyListener with a history of the keys themselves, which the daemon     *)
(* cannot see: it times a press when it reads it (keylistener.c:242), not  *)
(* when the key goes down.  Every step of KeyListener is a step here.      *)
(***************************************************************************)
EXTENDS KeyListener

VARIABLES
  since,   \* when each key that is down went down
  ended    \* when the holds began that have ended at this instant

holdVars == <<since, ended>>

HoldsTypeOK == /\ since \in [Path -> [Key -> Nat]]
               /\ ended \in [Path -> [Key -> SUBSET Nat]]

HoldsInit == /\ Init
             /\ since = [p \in Path |-> [k \in Key |-> 0]]
             /\ ended = [p \in Path |-> [k \in Key |-> {}]]

\* The history is kept of the keys and in the worlds that a property asks for.
Watched(p, k) == /\ world.prompt
                 /\ \E r \in Rule : IsLong(r) /\ Dev(r) = p /\ Code(r) = k

NoteHolds ==
  /\ since' = [p \in Path |-> [k \in Key |->
       IF ~Watched(p, k) \/ k \notin down'[p] THEN 0
       ELSE IF k \in down[p] THEN since[p][k] ELSE clock]]
  /\ ended' = [p \in Path |-> [k \in Key |->
       IF ~Watched(p, k) \/ clock' # clock THEN {}
       ELSE IF k \in down[p] \ down'[p] THEN ended[p][k] \cup {since[p][k]}
       ELSE ended[p][k]]]

HoldsNext == Next /\ NoteHolds

HoldsSpec == HoldsInit /\ [][HoldsNext]_<<vars, holdVars>>

-----------------------------------------------------------------------------
\* When the holds of key k began that still go on or end at this instant.
HeldFrom(p, k) ==
  ended[p][k] \cup (IF k \in down[p] THEN {since[p][k]} ELSE {})

\* When the daemon is never kept from running and no event of the device was
\* lost, a long_press script runs only if its key has been down, without a
\* break and until this very instant, for the time of the rule: no hold is
\* made up of two, and none outlasts its release.  A daemon that is kept from
\* running measures its own delay instead.
NoEarlyLongPress ==
  [][\A r \in Rule : /\ IsLong(r) /\ launches'[r] > launches[r]
                     /\ world.prompt /\ Dev(r) \notin lost
       => \E t \in HeldFrom(Dev(r), Code(r)) : TimeOver(r, t)]_vars

\* The key has been down since t, or was until its release, which has just
\* come and waits in the buffer after place j.
BeganAt(p, k, j, t) ==
  \/ k \in down[p] /\ since[p][k] = t
  \/ t \in ended[p][k] /\ ReleasePending(p, k, j)

\* The invariant this rests on: in that world an unread press was made at this
\* instant, and an armed rule has the time at which its key went down.
PressTimesReal ==
  \A r \in Rule :
    IsLong(r) /\ world.prompt /\ Opened(Dev(r)) /\ Dev(r) \notin lost =>
      /\ \A j \in DOMAIN queue[Dev(r)] :
           queue[Dev(r)][j] = PressOf(Code(r))
             => BeganAt(Dev(r), Code(r), j, clock)
      /\ states[r].active
           => BeganAt(Dev(r), Code(r), 0, states[r].press_time)

=============================================================================
