---------------------------- MODULE MCKeyListener ----------------------------
(***************************************************************************)
(* Small rule files for KeyHolds.  Device paths are model values, the key  *)
(* codes those of the volume keys; a second has 2 milliseconds and a       *)
(* millisecond 2 ticks, so that both fields of a timespec wrap within the  *)
(* modelled time.                                                          *)
(***************************************************************************)
EXTENDS KeyHolds

CONSTANTS d1, d2

VolDown == 114
VolUp == 115

Line(d, k, t, ms) == [device_path |-> d, keycode |-> k, trigger |-> t,
                      long_press_ms |-> ms]
Long(d, k, ms) == Line(d, k, "TRIGGER_LONG_PRESS", ms)
Press(d, k) == Line(d, k, "TRIGGER_PRESS", 0)
Release(d, k) == Line(d, k, "TRIGGER_RELEASE", 0)

\* Two rules on one key: a long press next to a press, two thresholds; then
\* rules on two devices with the same key code.
Rules == {<<Long(d1, VolDown, 2), Press(d1, VolDown)>>,
          <<Long(d1, VolDown, 1), Long(d1, VolDown, 2)>>,
          <<Release(d1, VolDown), Long(d1, VolDown, 0)>>,
          <<Long(d1, VolDown, 1), Press(d2, VolDown)>>,
          <<Press(d1, VolDown), Long(d2, VolDown, 2)>>}

\* A single long press rule.
OneLong == {<<Long(d1, VolDown, 1)>>}

\* A slow world, in which forks succeed, and a prompt one, in which they may
\* fail; the slow world alone.
SlowOrPrompt == {w \in World : w.prompt = w.forkFails}
SlowWorld == {w \in SlowOrPrompt : ~w.prompt}

=============================================================================
