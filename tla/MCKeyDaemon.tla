---------------------------- MODULE MCKeyDaemon ----------------------------
(***************************************************************************)
(* Small rule files for KeyDaemon, with lines of every kind.               *)
(***************************************************************************)
EXTENDS KeyDaemon

CONSTANTS d1, d2, d3

VolDown == 114

Of(n, d, k, t, ms) ==
  [words |-> n, device |-> d, code |-> k, trigger |-> t, ms |-> ms]
Long(d, k, ms) == Of(5, d, k, "long_press", ms)
Press(d, k) == Of(4, d, k, "press", 0)
Comment == Of(0, d1, NoDigits, "junk", 0)

\* A long press, another device to compete for the loop and the first device
\* again; junk and a code of nought before good lines, one rule too many if
\* all are taken; lines that lack something; no rule; one device too many.
RuleFiles ==
  {<<Long(d1, VolDown, 1), Press(d2, VolDown), Press(d1, VolDown)>>,
   <<Press(d1, NoDigits), Press(d1, 0), Press(d1, VolDown),
     Press(d1, VolDown)>>,
   <<Of(4, d1, VolDown, "long_press", 0), Of(4, d1, VolDown, "junk", 0),
     Of(5, d1, VolDown, "release", 7), Of(3, d1, VolDown, "press", 0)>>,
   <<Comment, Of(4, d1, NoDigits, "junk", 0)>>,
   <<Press(d1, 0), Press(d2, 0), Press(d3, VolDown)>>}

\* Time passes only while the daemon sleeps in poll, and forks succeed.
PromptWorld == {w \in World : w.prompt /\ ~w.forkFails}

=============================================================================
