------------------------------- MODULE Creds -------------------------------
(***************************************************************************)
(* The part of the kernel that switcher.c talks to: the credentials of one *)
(* process and the calls that change them.  It is not code of this         *)
(* repository; it is modelled from the calls switcher.c makes and Linux's  *)
(* rules for them (capabilities(7), with no securebits set).  Each call is *)
(* a pair of operators on a credentials record: whether it is allowed, and *)
(* what it makes of the record.                                            *)
(***************************************************************************)
EXTENDS Integers, FiniteSets

CONSTANTS
  Cap,         \* the capabilities of interest, with the three named below
  ID_MODULUS   \* user and group ids are taken modulo this, 2^32 in the code

ASSUME CredsAssumption ==
  /\ {"setuid", "setgid", "setpcap"} \subseteq Cap
  /\ ID_MODULUS \in Nat \ {0, 1}

Id == 0..ID_MODULUS - 1
Root == 0
NoId == ID_MODULUS - 1   \* (uid_t)-1, refused by the calls

Ids == [real : Id, effective : Id, saved : Id]
AllIds(i) == [real |-> i, effective |-> i, saved |-> i]
Range3(ids) == {ids.real, ids.effective, ids.saved}

Cred == [uid : Ids, gid : Ids, groups : SUBSET Id,
         P : SUBSET Cap, E : SUBSET Cap, I : SUBSET Cap, A : SUBSET Cap,
         Bnd : SUBSET Cap, keepcaps : BOOLEAN]

\* What the kernel guarantees of every process.
Sane(c) == c.E \subseteq c.P /\ c.A \subseteq c.P \cap c.I

-----------------------------------------------------------------------------
setgroupsAllowed(c, gs) == "setgid" \in c.E /\ NoId \notin gs
setgroups(c, gs) == [c EXCEPT !.groups = gs]

setgidAllowed(c, g) ==
  /\ g # NoId
  /\ "setgid" \in c.E \/ g \in {c.gid.real, c.gid.saved}
setgid(c, g) ==
  [c EXCEPT !.gid = IF "setgid" \in c.E THEN AllIds(g)
                    ELSE [@ EXCEPT !.effective = g]]

setuidAllowed(c, u) ==
  /\ u # NoId
  /\ "setuid" \in c.E \/ u \in {c.uid.real, c.uid.saved}

\* Giving up the last root id costs the capabilities; PR_SET_KEEPCAPS saves
\* the permitted ones, never the effective and the ambient ones.
setuid(c, u) ==
  LET new == IF "setuid" \in c.E THEN AllIds(u)
             ELSE [c.uid EXCEPT !.effective = u]
      gone == Root \in Range3(c.uid) /\ Root \notin Range3(new)
      dropped == c.uid.effective = Root /\ new.effective # Root
      gained == c.uid.effective # Root /\ new.effective = Root
      P == IF gone /\ ~c.keepcaps THEN {} ELSE c.P
  IN [c EXCEPT !.uid = new,
               !.P = P,
               !.E = IF dropped \/ (gone /\ ~c.keepcaps) THEN {}
                     ELSE IF gained THEN P ELSE @,
               !.A = IF gone THEN {} ELSE @]

capsetAllowed(c, p, e, i) ==
  /\ "setpcap" \in c.E \/ i \subseteq c.I \cup c.P
  /\ i \subseteq c.I \cup c.Bnd
  /\ p \subseteq c.P
  /\ e \subseteq p
capset(c, p, e, i) ==
  [c EXCEPT !.P = p, !.E = e, !.I = i, !.A = @ \cap p \cap i]

ambientAllowed(c, x) == x \in c.P \cap c.I
raiseAmbient(c, x) == [c EXCEPT !.A = @ \cup {x}]

\* execve of a program without file capabilities and set-id bits: a root
\* process gets everything in bounds back, any other keeps the ambient ones.
execve(c) ==
  LET P == IF Root \in {c.uid.real, c.uid.effective} THEN c.I \cup c.Bnd
           ELSE c.A
      E == IF c.uid.effective = Root THEN P ELSE c.A
  IN [c EXCEPT !.P = P, !.E = E, !.uid.saved = c.uid.effective,
               !.gid.saved = c.gid.effective, !.keepcaps = FALSE,
               !.A = IF Root \in {c.uid.real, c.uid.effective} THEN @ \cap P
                     ELSE @]

=============================================================================
