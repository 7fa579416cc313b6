------------------------------ MODULE LongPress ------------------------------
(***************************************************************************)
(* What the long_press rules of keylistener.c promise, without devices,    *)
(* queues or clocks: a press arms a rule; while it is armed its script can *)
(* be launched, once, either during the hold or at the release; nothing is *)
(* launched before the next press.  One event or one timeout check may     *)
(* concern several rules, so they move together or one by one.             *)
(***************************************************************************)
EXTENDS Naturals

CONSTANT Rules

VARIABLES
  phase,     \* "idle", "held" (armed) or "fired" (launched, key still held)
  launched   \* number of scripts launched

Phases == {"idle", "held", "fired"}

Init == /\ phase = [r \in Rules |-> "idle"]
        /\ launched = [r \in Rules |-> 0]

\* A fork that fails uses up the launch.
Launch(r) == launched'[r] \in {launched[r], launched[r] + 1}
NoLaunch(r) == launched'[r] = launched[r]

Press(r) == phase'[r] = "held" /\ NoLaunch(r)

Hold(r) == phase[r] = "held" /\ phase'[r] = "fired" /\ Launch(r)

Release(r) == /\ phase'[r] = "idle"
              /\ \/ phase[r] = "held" /\ Launch(r)
                 \/ phase[r] = "fired" /\ NoLaunch(r)

Stay(r) == phase'[r] = phase[r] /\ NoLaunch(r)

Next == /\ phase' \in [Rules -> Phases]
        /\ launched' \in [Rules -> Nat]
        /\ \A r \in Rules : Press(r) \/ Hold(r) \/ Release(r) \/ Stay(r)

Spec == Init /\ [][Next]_<<phase, launched>>

=============================================================================
