--------------------------- MODULE SwitcherProofs ---------------------------
(***************************************************************************)
(* For every caller, every command line, every width of unsigned long and  *)
(* every set of calls that may fail: what the target is, is what the words *)
(* of the command line spell, the order of the steps takes nothing away    *)
(* that a later step needs, and the target has no capability that it       *)
(* should not have.                                                        *)
(***************************************************************************)
EXTENDS Switcher, SequenceTheorems, FiniteSetTheorems, TLAPS

ToGroups == {"setcon", "keepcaps", "groups"}
ToGid == ToGroups \cup {"gid"}
ToUid == ToGid \cup {"uid"}

\* The permissions of the caller last until setuid, which may take away the
\* permitted set, and then the effective one with it.
Permissions ==
  /\ pc \in ToUid => /\ cred.uid = start.uid
                            /\ cred.E = start.E
  /\ pc \in ToUid \cup {"check", "capset"} =>
       /\ cred.I = start.I
       /\ cred.P = start.P \/ (cred.P = {} /\ cred.E = {})

\* The call for an option is made and allowed.
Done(o, call) == IsNumber(o) /\ IdOf(o) # NoId /\ call \notin failed

\* So is setgroups.
GroupsDone == /\ GroupsOf(args.groups) # {}
              /\ NoId \notin GroupsOf(args.groups)
              /\ "setgroups" \notin failed

\* Once its step is over, an id is the one the word was converted to if the
\* call was allowed and did not fail, and the caller's if not; and so are the
\* groups.
SetTo(ids, before, over, o, call) ==
  ids = IF over /\ Done(o, call) THEN AllIds(IdOf(o))
        ELSE IF pc = "running" THEN Kept(before) ELSE before

Identity ==
  Privileged =>
    /\ pc \in ToGroups => "setgroups" \notin failed
    /\ pc \in ToGid => "setgid" \notin failed
    /\ pc \in ToUid => "setuid" \notin failed
    /\ SetTo(cred.uid, start.uid, pc \notin ToUid, args.uid, "setuid")
    /\ SetTo(cred.gid, start.gid, pc \notin ToGid, args.gid, "setgid")
    /\ cred.groups = IF pc \notin ToGroups /\ GroupsDone
                     THEN GroupsOf(args.groups) ELSE start.groups

\* The ambient set grows by what was asked for, and starts anew when setuid
\* takes the process away from root.
FromRoot == /\ Root \in {start.uid.real, start.uid.effective}
            /\ "setuid" \in start.E
Ambient ==
  /\ todo \subseteq want
  /\ cred.A \subseteq args.caps \cup start.A
  /\ pc # "running" /\ FromRoot =>
       \/ Root \in {cred.uid.real, cred.uid.effective}
       \/ cred.A \subseteq args.caps
  /\ OnlyWanted

\* The answer of the check is about the credentials that capset meets.
Check ==
  /\ pc \in ToUid \cup {"check"} => checked = "not yet"
  /\ pc = "capset" => checked = "OK" /\ Feasible(want, want, want)
  /\ pc \in ToUid \cup {"check", "capset"} => "capset" \notin refused
  /\ FeasibleIsAllowed

\* After capset the three sets are those asked for, and the ambient set
\* becomes the same.
Raised ==
  (checked = "OK" /\ failed = {} /\ "capset" \notin refused) =>
    /\ pc \in {"verify", "ambient", "exec"} =>
         cred.P = want /\ cred.E = want /\ cred.I = want
    /\ pc = "ambient" => want \subseteq cred.A \cup todo
    /\ pc = "exec" => cred.A = want
    /\ pc = "running" /\ Root \notin Range3(cred.uid) =>
         cred.P = want /\ cred.E = want /\ cred.A = want

IInv == TypeOK /\ Permissions /\ Identity /\ Ambient /\ Check /\ Raised

-----------------------------------------------------------------------------
(* Types.                                                                  *)

\* A number that is converted and cut is an id.
LEMMA IdTypes ==
  ASSUME ulong \in Builds
  PROVE  /\ NoId \in Id /\ Root \in Id
         /\ \A v \in Int : strtoul(v) \in Nat
         /\ \A v \in Int : strtoul(v) % ID_MODULUS \in Id
<1>1. NoId \in Id /\ Root \in Id
  BY CredsAssumption DEF NoId, Root, Id
<1>2. ulong \in Nat \ {0}
  BY CredsAssumption, SwitcherAssumption
<1>3. \A v \in Int : strtoul(v) \in Nat
  BY <1>2 DEF strtoul
<1>4. \A n \in Nat : n % ID_MODULUS \in Id
  BY CredsAssumption DEF Id
<1> QED
  BY <1>1, <1>3, <1>4

\* A number that is an id is converted to itself, and one that is impossible
\* to the id that no process can have.
LEMMA Conversion ==
  ASSUME ulong \in Builds, NEW v \in Int
  PROVE  /\ v \in Id => strtoul(v) % ID_MODULUS = v
         /\ v = -1 \/ v >= ulong \/ v <= -ulong =>
              strtoul(v) % ID_MODULUS = NoId
<1>1. /\ ulong \in Nat /\ ulong >= ID_MODULUS
      /\ (ulong - 1) % ID_MODULUS = NoId
      /\ ID_MODULUS \in Nat \ {0, 1}
  BY CredsAssumption, SwitcherAssumption
<1>2. CASE v \in Id
  <2>1. v \in 0..ID_MODULUS - 1
    BY <1>2 DEF Id
  <2>2. v % ID_MODULUS = v /\ v % ulong = v
    BY <1>1, <2>1
  <2>3. strtoul(v) = v /\ v # -1 /\ ~(v >= ulong) /\ ~(v <= -ulong)
    BY <1>1, <2>1, <2>2 DEF strtoul
  <2> QED
    BY <2>2, <2>3
<1>3. CASE v \notin Id /\ v # -1 
  BY <1>1, <1>3 DEF strtoul
<1>4. CASE v = -1
  <2>1. v % ulong = ulong - 1
    BY <1>1, <1>4
  <2>2. strtoul(v) = ulong - 1 /\ v \notin Id
    BY <1>1, <1>4, <2>1 DEF strtoul, Id
  <2> QED
    BY <1>1, <2>2
<1> QED
  BY <1>2, <1>3, <1>4

\* So are the groups.
LEMMA GroupsType ==
  ASSUME TypeOK
  PROVE  GroupsOf(args.groups) \subseteq Id
<1>1. args.groups \in Seq(Word)
  BY DEF TypeOK, CommandLine
<1>2. \A i \in DOMAIN args.groups : args.groups[i] \in Word
  BY <1>1, ElementOfSeq, LenProperties
<1> QED
  BY <1>2, IdTypes DEF GroupsOf, Taken, GidOf, Word, Root, TypeOK

\* The first word of an option, as a number, is an id.
LEMMA IdOfType ==
  ASSUME ulong \in Builds, NEW o \in OptWord, IsNumber(o)
  PROVE  /\ IdOf(o) \in Id
         /\ o[1] \in Word
<1>1. o \in Seq(Word) /\ o # <<>>
  BY DEF OptWord, IsNumber
<1>2. o[1] \in Word
  BY <1>1, LenProperties, EmptySeq, ElementOfSeq
<1> QED
  BY <1>2, IdTypes DEF IdOf, Word

\* The changes of the credentials keep their type and what the kernel
\* guarantees of them.
LEMMA CredTypes ==
  ASSUME NEW c \in Cred, Sane(c)
  PROVE  /\ [c EXCEPT !.keepcaps = TRUE] \in Cred
         /\ Sane([c EXCEPT !.keepcaps = TRUE])
         /\ \A gs \in SUBSET Id :
              setgroups(c, gs) \in Cred /\ Sane(setgroups(c, gs))
         /\ \A g \in Id : setgid(c, g) \in Cred /\ Sane(setgid(c, g))
         /\ \A u \in Id : setuid(c, u) \in Cred /\ Sane(setuid(c, u))
         /\ \A p \in SUBSET Cap :
              capset(c, p, p, p) \in Cred /\ Sane(capset(c, p, p, p))
         /\ \A x \in Cap : ambientAllowed(c, x) =>
              raiseAmbient(c, x) \in Cred /\ Sane(raiseAmbient(c, x))
         /\ execve(c) \in Cred /\ Sane(execve(c))
<1> USE DEF Cred, Sane, Ids, AllIds
<1>1. /\ [c EXCEPT !.keepcaps = TRUE] \in Cred
      /\ Sane([c EXCEPT !.keepcaps = TRUE])
  OBVIOUS
<1>2. ASSUME NEW gs \in SUBSET Id
      PROVE  setgroups(c, gs) \in Cred /\ Sane(setgroups(c, gs))
  BY DEF setgroups
<1>3. ASSUME NEW g \in Id
      PROVE  setgid(c, g) \in Cred /\ Sane(setgid(c, g))
  BY DEF setgid
<1>4. ASSUME NEW u \in Id
      PROVE  setuid(c, u) \in Cred /\ Sane(setuid(c, u))
  BY DEF setuid
<1>5. ASSUME NEW p \in SUBSET Cap
      PROVE  capset(c, p, p, p) \in Cred /\ Sane(capset(c, p, p, p))
  BY DEF capset
<1>6. ASSUME NEW x \in Cap, ambientAllowed(c, x)
      PROVE  raiseAmbient(c, x) \in Cred /\ Sane(raiseAmbient(c, x))
  BY <1>6 DEF raiseAmbient, ambientAllowed
<1>7. execve(c) \in Cred /\ Sane(execve(c))
  BY ZenonT(60) DEF execve
<1> QED
  BY <1>1, <1>2, <1>3, <1>4, <1>5, <1>6, <1>7

\* Each step keeps the types.
LEMMA TypeStep ==
  ASSUME TypeOK, [Next]_vars
  PROVE  TypeOK'
<1> USE DEF Attempt, Made, Refused, Fails, NotMade, NextStep, want,
   parse_cap_string, Call, TypeOK
<1>1. CASE setcon
  BY <1>1 DEF setcon
<1>2. CASE KeepCaps
  BY <1>2, CredTypes DEF KeepCaps
<1>3. CASE SetGroups
  <2>1. setgroups(cred, GroupsOf(args.groups)) \in Cred
        /\ Sane(setgroups(cred, GroupsOf(args.groups)))
    BY CredTypes, GroupsType
  <2> QED
    BY <1>3, <2>1 DEF SetGroups
<1>4. CASE SetGid
  <2>1. IsNumber(args.gid) => /\ setgid(cred, IdOf(args.gid)) \in Cred
                              /\ Sane(setgid(cred, IdOf(args.gid)))
    BY CredTypes, IdOfType DEF CommandLine
  <2> QED
    BY <1>4, <2>1 DEF SetGid
<1>5. CASE SetUid
  <2>1. IsNumber(args.uid) => /\ setuid(cred, IdOf(args.uid)) \in Cred
                              /\ Sane(setuid(cred, IdOf(args.uid)))
    BY CredTypes, IdOfType DEF CommandLine
  <2> QED
    BY <1>5, <2>1 DEF SetUid
<1>6. CASE check_capset_feasibility
  BY <1>6 DEF check_capset_feasibility
<1>7. CASE NoCaps
  BY <1>7 DEF NoCaps
<1>8. CASE set_caps
  BY <1>8, CredTypes DEF set_caps
<1>9. CASE verify_caps
  BY <1>9 DEF verify_caps
<1>10. CASE set_ambient_caps
  BY <1>10, CredTypes DEF set_ambient_caps, Rest
<1>11. CASE execv
  BY <1>11, CredTypes DEF execv
<1>12. CASE UNCHANGED vars
  BY <1>12 DEF vars
<1> QED
  BY <1>1, <1>2, <1>3, <1>4, <1>5, <1>6, <1>7, <1>8, <1>9, <1>10, <1>11, <1>12
     DEF Next, Terminated

-----------------------------------------------------------------------------
(* The invariant.                                                          *)

\* What execve leaves and makes of each field.
LEMMA ExecveFields ==
  ASSUME NEW c \in Cred
  PROVE  /\ execve(c).uid = [c.uid EXCEPT !.saved = c.uid.effective]
         /\ execve(c).gid = [c.gid EXCEPT !.saved = c.gid.effective]
         /\ execve(c).groups = c.groups
         /\ Root \notin {c.uid.real, c.uid.effective} =>
              execve(c).P = c.A /\ execve(c).E = c.A /\ execve(c).A = c.A
         /\ execve(c).A \subseteq c.A
BY DEF execve, Cred, Ids

\* Nothing before setuid touches the permissions.
LEMMA PermissionsStep ==
  ASSUME TypeOK, Permissions, [Next]_vars
  PROVE  Permissions'
<1> USE DEF Attempt, Made, Refused, Fails, NotMade, NextStep, ToGroups,
   ToGid, ToUid, Permissions
<1>1. CASE setcon
  BY <1>1 DEF setcon
<1>2. CASE KeepCaps
  BY <1>2 DEF KeepCaps, TypeOK, Cred, Sane
<1>3. CASE SetGroups
  BY <1>3 DEF SetGroups, setgroups, setgroupsAllowed, TypeOK, Cred, Sane
<1>4. CASE SetGid
  BY <1>4 DEF SetGid, setgid, setgidAllowed, TypeOK, Cred, Sane
<1>5. CASE SetUid
  BY <1>5 DEF SetUid, setuid, setuidAllowed, TypeOK, Cred, Sane
<1>6. CASE check_capset_feasibility
  BY <1>6 DEF check_capset_feasibility
<1>7. CASE NoCaps
  BY <1>7 DEF NoCaps
<1>8. CASE set_caps
  BY <1>8 DEF set_caps
<1>9. CASE verify_caps
  BY <1>9 DEF verify_caps
<1>10. CASE set_ambient_caps
  BY <1>10 DEF set_ambient_caps
<1>11. CASE execv
  BY <1>11 DEF execv
<1>12. CASE UNCHANGED vars
  BY <1>12 DEF vars
<1> QED
  BY <1>1, <1>2, <1>3, <1>4, <1>5, <1>6, <1>7, <1>8, <1>9, <1>10, <1>11, <1>12
     DEF Next, Terminated

\* The command line, the build and what the words are converted to stay.
LEMMA LineStays ==
  ASSUME [Next]_vars
  PROVE  /\ args' = args /\ ulong' = ulong /\ start' = start
         /\ GroupsOf(args.groups)' = GroupsOf(args.groups)
         /\ IdOf(args.uid)' = IdOf(args.uid)
         /\ IdOf(args.gid)' = IdOf(args.gid)
<1>1. args' = args /\ ulong' = ulong /\ start' = start
  BY DEF Next, vars, setcon, KeepCaps, SetGroups, SetGid, SetUid,
     check_capset_feasibility, NoCaps, set_caps, verify_caps,
     set_ambient_caps, execv, Terminated
<1> QED
  BY <1>1 DEF GroupsOf, Taken, ValidUpTo, GidOf, IdOf, strtoul

\* The permission for each step is still there when its turn comes.
LEMMA IdentityStep ==
  ASSUME TypeOK, Permissions, Identity, [Next]_vars
  PROVE  Identity'
<1> USE DEF Attempt, Made, Refused, Fails, NotMade, NextStep, ToGroups,
   ToGid, ToUid, Identity, Privileged, Permissions, SetTo, Done, GroupsDone
<1>a. /\ args' = args /\ ulong' = ulong /\ start' = start
      /\ GroupsOf(args.groups)' = GroupsOf(args.groups)
      /\ IdOf(args.uid)' = IdOf(args.uid)
      /\ IdOf(args.gid)' = IdOf(args.gid)
  BY LineStays
<1>1. CASE setcon
  BY <1>a, <1>1 DEF setcon
<1>2. CASE KeepCaps
  <2>1. /\ cred'.uid = cred.uid /\ cred'.gid = cred.gid
        /\ cred'.groups = cred.groups
        /\ failed' \in {failed, failed \cup {"keepcaps"}}
    BY <1>2 DEF KeepCaps, TypeOK, Cred
  <2>2. pc = "keepcaps" /\ pc' = "groups"
    BY <1>2 DEF KeepCaps
  <2> QED
    BY <1>a, <2>1, <2>2
<1>3. CASE SetGroups
  <2>1. pc = "groups" /\ pc' = "gid"
    BY <1>3 DEF SetGroups
  <2>2. /\ cred'.uid = cred.uid /\ cred'.gid = cred.gid
        /\ failed' \in {failed, failed \cup {"setgroups"}}
    BY <1>3 DEF SetGroups, setgroups, TypeOK, Cred
  <2>3. Privileged =>
          cred'.groups = IF GroupsDone' THEN GroupsOf(args.groups)
                         ELSE cred.groups
    BY <1>a, <1>3, <2>1 DEF SetGroups, setgroups, setgroupsAllowed, TypeOK,
       Cred
  <2> QED
    BY <1>a, <2>1, <2>2, <2>3
<1>4. CASE SetGid
  <2>1. pc = "gid" /\ pc' = "uid"
    BY <1>4 DEF SetGid
  <2>2. /\ cred'.uid = cred.uid /\ cred'.groups = cred.groups
        /\ failed' \in {failed, failed \cup {"setgid"}}
    BY <1>4 DEF SetGid, setgid, TypeOK, Cred
  <2>3. Privileged =>
          cred'.gid = IF Done(args.gid, "setgid")' THEN AllIds(IdOf(args.gid))
                      ELSE cred.gid
    <3>1. setgid(cred, IdOf(args.gid)).gid =
            IF "setgid" \in cred.E THEN AllIds(IdOf(args.gid))
            ELSE [cred.gid EXCEPT !.effective = IdOf(args.gid)]
      BY DEF setgid, TypeOK, Cred
    <3> QED
      BY <1>a, <1>4, <2>1, <3>1 DEF SetGid, setgidAllowed
  <2> QED
    BY <1>a, <2>1, <2>2, <2>3
<1>5. CASE SetUid
  <2>1. pc = "uid" /\ pc' = "check"
    BY <1>5 DEF SetUid
  <2>2. /\ cred'.gid = cred.gid /\ cred'.groups = cred.groups
        /\ failed' \in {failed, failed \cup {"setuid"}}
    BY <1>5 DEF SetUid, setuid, TypeOK, Cred
  <2>3. Privileged =>
          cred'.uid = IF Done(args.uid, "setuid")' THEN AllIds(IdOf(args.uid))
                      ELSE cred.uid
    <3>1. setuid(cred, IdOf(args.uid)).uid =
            IF "setuid" \in cred.E THEN AllIds(IdOf(args.uid))
            ELSE [cred.uid EXCEPT !.effective = IdOf(args.uid)]
      BY DEF setuid, TypeOK, Cred
    <3> QED
      BY <1>a, <1>5, <2>1, <3>1 DEF SetUid, setuidAllowed
  <2> QED
    BY <1>a, <2>1, <2>2, <2>3
<1>6. CASE check_capset_feasibility
  BY <1>a, <1>6 DEF check_capset_feasibility
<1>7. CASE NoCaps
  BY <1>a, <1>7 DEF NoCaps
<1>8. CASE set_caps
  BY <1>a, <1>8 DEF set_caps, capset, capsetAllowed, TypeOK, Cred
<1>9. CASE verify_caps
  BY <1>a, <1>9 DEF verify_caps
<1>10. CASE set_ambient_caps
  BY <1>a, <1>10 DEF set_ambient_caps, raiseAmbient, ambientAllowed, Rest, TypeOK,
     Cred
<1>11. CASE execv
  <2>1. CASE cred' = execve(cred) /\ failed' = failed
    <3>1. \A i : Kept(AllIds(i)) = AllIds(i)
      BY DEF AllIds, Kept
    <3>2. pc = "exec" /\ pc' \in {"running", "failed"}
          /\ (pc' = "failed" => cred' = cred)
      BY <1>11 DEF execv
    <3>3. /\ cred'.uid = Kept(cred.uid)
          /\ cred'.gid = Kept(cred.gid)
          /\ cred'.groups = cred.groups
      BY <2>1, ExecveFields DEF TypeOK, Kept
    <3>4. Privileged =>
            /\ cred.uid = IF Done(args.uid, "setuid")
                          THEN AllIds(IdOf(args.uid)) ELSE start.uid
            /\ cred.gid = IF Done(args.gid, "setgid")
                          THEN AllIds(IdOf(args.gid)) ELSE start.gid
            /\ cred.groups = IF GroupsDone THEN GroupsOf(args.groups)
                             ELSE start.groups
      BY <3>2
    <3>5. CASE pc' = "running"
      BY <1>a, <2>1, <3>1, <3>2, <3>3, <3>4, <3>5
    <3>6. CASE pc' = "failed"
      BY <1>a, <2>1, <3>2, <3>4, <3>6
    <3> QED
      BY <3>2, <3>5, <3>6
  <2>2. CASE cred' = cred /\ pc' = "failed"
    BY <1>a, <1>11, <2>2 DEF execv
  <2> QED
    BY <1>a, <1>11, <2>1, <2>2 DEF execv
<1>12. CASE UNCHANGED vars
  BY <1>a, <1>12 DEF vars
<1> QED
  BY <1>1, <1>2, <1>3, <1>4, <1>5, <1>6, <1>7, <1>8, <1>9, <1>10, <1>11, <1>12
     DEF Next, Terminated

\* The ambient set is emptied on the way from root, and filled from todo.
LEMMA AmbientStep ==
  ASSUME TypeOK, Permissions, Ambient, [Next]_vars
  PROVE  Ambient'
<1> USE DEF Attempt, Made, Refused, Fails, NotMade, NextStep, ToGroups,
   ToGid, ToUid, Ambient, FromRoot, OnlyWanted, Permissions, want,
   parse_cap_string, Range3
<1>1. CASE setcon
  BY <1>1 DEF setcon, TypeOK, Cred, Ids, AllIds
<1>2. CASE KeepCaps
  BY <1>2 DEF KeepCaps, TypeOK, Cred, Ids, AllIds
<1>3. CASE SetGroups
  BY <1>3 DEF SetGroups, setgroups, setgroupsAllowed, TypeOK, Cred, Ids, AllIds
<1>4. CASE SetGid
  BY <1>4 DEF SetGid, setgid, setgidAllowed, TypeOK, Cred, Ids, AllIds
<1>5. CASE SetUid
  BY <1>5 DEF SetUid, setuid, setuidAllowed, TypeOK, Cred, Ids, AllIds
<1>6. CASE check_capset_feasibility
  BY <1>6 DEF check_capset_feasibility, TypeOK, Cred, Ids, AllIds
<1>7. CASE NoCaps
  BY <1>7 DEF NoCaps, TypeOK, Cred, Ids, AllIds
<1>8. CASE set_caps
  <2>1. cred'.uid = cred.uid /\ cred'.A \subseteq cred.A
    BY <1>8 DEF set_caps, capset, TypeOK, Cred
  <2> QED
    BY <1>8, <2>1 DEF set_caps
<1>9. CASE verify_caps
  BY <1>9 DEF verify_caps, TypeOK, Cred, Ids, AllIds
<1>10. CASE set_ambient_caps
  <2>1. cred'.uid = cred.uid /\ cred'.A \subseteq cred.A \cup todo
    <3>1. \A x : /\ raiseAmbient(cred, x).uid = cred.uid
                /\ raiseAmbient(cred, x).A = cred.A \cup {x}
      BY DEF raiseAmbient, TypeOK, Cred
    <3>2. cred' = cred \/ \E x \in todo : cred' = raiseAmbient(cred, x)
      BY <1>10 DEF set_ambient_caps
    <3> QED
      BY <3>1, <3>2
  <2>2. todo' \subseteq todo
    BY <1>10 DEF set_ambient_caps, Rest
  <2> QED
    BY <1>10, <2>1, <2>2 DEF set_ambient_caps
<1>11. CASE execv
  <2>1. CASE cred' = execve(cred)
    <3>1. /\ cred'.uid = [cred.uid EXCEPT !.saved = cred.uid.effective]
          /\ cred'.A \subseteq cred.A
          /\ Root \notin {cred.uid.real, cred.uid.effective} =>
               cred'.P = cred.A
      BY <2>1, ExecveFields DEF TypeOK
    <3>2. /\ cred'.uid.real = cred.uid.real
          /\ cred'.uid.effective = cred.uid.effective
      BY <3>1 DEF TypeOK, Cred, Ids
    <3> QED
      BY <1>11, <3>1, <3>2 DEF execv
  <2>2. CASE cred' = cred /\ pc' = "failed"
    BY <1>11, <2>2 DEF execv
  <2> QED
    BY <1>11, <2>1, <2>2 DEF execv
<1>12. CASE UNCHANGED vars
  BY <1>12 DEF vars
<1> QED
  BY <1>1, <1>2, <1>3, <1>4, <1>5, <1>6, <1>7, <1>8, <1>9, <1>10, <1>11, <1>12
     DEF Next, Terminated

\* The check is followed by capset.
LEMMA CheckStep ==
  ASSUME TypeOK, Permissions, Check, [Next]_vars
  PROVE  Check'
<1> USE DEF Attempt, Made, Refused, Fails, NotMade, NextStep, ToGroups,
   ToGid, ToUid, Check, FeasibleIsAllowed, Permissions, Feasible, want,
   parse_cap_string
<1>1. CASE setcon
  BY <1>1 DEF setcon, TypeOK, Cred, Sane
<1>2. CASE KeepCaps
  BY <1>2 DEF KeepCaps, TypeOK, Cred, Sane
<1>3. CASE SetGroups
  BY <1>3 DEF SetGroups, setgroups, setgroupsAllowed, TypeOK, Cred, Sane
<1>4. CASE SetGid
  BY <1>4 DEF SetGid, setgid, setgidAllowed, TypeOK, Cred, Sane
<1>5. CASE SetUid
  BY <1>5 DEF SetUid, setuid, setuidAllowed, TypeOK, Cred, Sane
<1>6. CASE check_capset_feasibility
  BY <1>6 DEF check_capset_feasibility, TypeOK, Cred, Sane
<1>7. CASE NoCaps
  BY <1>7 DEF NoCaps, TypeOK, Cred, Sane
<1>8. CASE set_caps
  BY <1>8 DEF set_caps, capset, capsetAllowed, TypeOK, Cred, Sane
<1>9. CASE verify_caps
  BY <1>9 DEF verify_caps, TypeOK, Cred, Sane
<1>10. CASE set_ambient_caps
  BY <1>10 DEF set_ambient_caps, raiseAmbient, ambientAllowed, Rest, TypeOK,
     Cred, Sane
<1>11. CASE execv
  BY <1>11 DEF execv, execve, TypeOK, Cred, Sane
<1>12. CASE UNCHANGED vars
  BY <1>12 DEF vars
<1> QED
  BY <1>1, <1>2, <1>3, <1>4, <1>5, <1>6, <1>7, <1>8, <1>9, <1>10, <1>11, <1>12
     DEF Next, Terminated

\* After capset every ambient capability can be raised, and is.
LEMMA RaisedStep ==
  ASSUME TypeOK, Ambient, Check, Raised, [Next]_vars
  PROVE  Raised'
<1> USE DEF Attempt, Made, Refused, Fails, NotMade, NextStep, ToGroups,
   ToGid, ToUid, Raised, Check, Ambient, want, parse_cap_string, ToUid
<1>1. CASE setcon
  BY <1>1 DEF setcon, TypeOK, Cred, Sane, Range3
<1>2. CASE KeepCaps
  BY <1>2 DEF KeepCaps, TypeOK, Cred, Sane, Range3
<1>3. CASE SetGroups
  BY <1>3 DEF SetGroups, setgroups, setgroupsAllowed, TypeOK, Cred, Sane,
     Range3
<1>4. CASE SetGid
  BY <1>4 DEF SetGid, setgid, setgidAllowed, TypeOK, Cred, Sane, Range3
<1>5. CASE SetUid
  BY <1>5 DEF SetUid, setuid, setuidAllowed, TypeOK, Cred, Sane, Range3
<1>6. CASE check_capset_feasibility
  BY <1>6 DEF check_capset_feasibility, TypeOK, Cred, Sane, Range3
<1>7. CASE NoCaps
  BY <1>7 DEF NoCaps, TypeOK, Cred, Sane, Range3
<1>8. CASE set_caps
  BY <1>8 DEF set_caps, capset, capsetAllowed, TypeOK, Cred, Sane, Range3
<1>9. CASE verify_caps
  BY <1>9 DEF verify_caps, TypeOK, Cred, Sane, Range3
<1>10. CASE set_ambient_caps
  BY <1>10 DEF set_ambient_caps, raiseAmbient, ambientAllowed, Rest, TypeOK,
     Cred, Sane, Range3
<1>11. CASE execv
  <2>1. CASE cred' = execve(cred)
    <3>1. /\ cred'.uid = [cred.uid EXCEPT !.saved = cred.uid.effective]
          /\ Root \notin {cred.uid.real, cred.uid.effective} =>
               cred'.P = cred.A /\ cred'.E = cred.A /\ cred'.A = cred.A
      BY <2>1, ExecveFields DEF TypeOK
    <3>2. /\ cred'.uid.real = cred.uid.real
          /\ cred'.uid.effective = cred.uid.effective
      BY <3>1 DEF TypeOK, Cred, Ids
    <3> QED
      BY <1>11, <3>1, <3>2 DEF execv, Range3
  <2>2. CASE cred' = cred /\ pc' = "failed"
    BY <1>11, <2>2 DEF execv
  <2> QED
    BY <1>11, <2>1, <2>2 DEF execv
<1>12. CASE UNCHANGED vars
  BY <1>12 DEF vars
<1> QED
  BY <1>1, <1>2, <1>3, <1>4, <1>5, <1>6, <1>7, <1>8, <1>9, <1>10, <1>11, <1>12
     DEF Next, Terminated

-----------------------------------------------------------------------------
(* The theorems.                                                           *)

\* The invariant holds at the start.
LEMMA InvInit == Init => IInv
<1> SUFFICES ASSUME Init PROVE IInv
  OBVIOUS
<1>1. TypeOK
  BY SwitcherAssumption DEF Init, TypeOK, Call
<1>2. Permissions /\ Identity
  BY <1>1 DEF Init, Permissions, Identity, SetTo, ToGroups, ToGid, ToUid
<1>3. Ambient /\ Check /\ Raised
  BY <1>1 DEF Init, Ambient, OnlyWanted, FromRoot, Check, FeasibleIsAllowed,
              Raised, ToGroups, ToGid, ToUid, TypeOK, Cred
<1> QED
  BY <1>1, <1>2, <1>3 DEF IInv

\* Each step keeps it.
LEMMA InvStep == IInv /\ [Next]_vars => IInv'
BY TypeStep, PermissionsStep, IdentityStep, AmbientStep, CheckStep, RaisedStep
   DEF IInv

\* It always holds.
LEMMA InvHolds == Spec => []IInv
BY InvInit, InvStep, PTL DEF Spec

\* Whatever the words of the command line, the ids are ids of the kernel, and
\* the credentials keep what the kernel guarantees of them.
THEOREM TypeCorrect == Spec => []TypeOK
<1>1. IInv => TypeOK
  BY DEF IInv
<1> QED
  BY <1>1, InvHolds, PTL

\* What the code makes of an option that is clear is what it asks for.
LEMMA OptionConverted ==
  ASSUME ulong \in Builds, NEW o \in OptWord,
         \A i \in DOMAIN o : Clear(o[i]) \/ o[i].kind = "blank"
  PROVE  /\ IsNumber(o) /\ IdOf(o) # NoId <=> o # <<>> /\ AsksForId(o[1])
         /\ o # <<>> /\ AsksForId(o[1]) => IdOf(o) = o[1].value
<1>1. CASE o = <<>>
  BY <1>1 DEF IsNumber
<1>2. CASE o # <<>>
  <2>1. o \in Seq(Word) /\ 1 \in DOMAIN o
    BY <1>2, LenProperties, EmptySeq DEF OptWord
  <2>2. o[1] \in Word
    BY <2>1, LenProperties, ElementOfSeq
  <2>3. Clear(o[1]) \/ o[1].kind = "blank"
    BY <2>1
  <2>4. o[1].value \in Int
    BY <2>2 DEF Word
  <2>5. AsksForId(o[1]) => IsNumber(o) /\ IdOf(o) = o[1].value
                           /\ o[1].value # NoId
    BY <1>2, <2>4, Conversion
       DEF AsksForId, IsNumberWord, IsNumber, IdOf
  <2>6. Impossible(o[1]) => IdOf(o) = NoId
    BY <2>4, Conversion, IdTypes DEF Impossible, IdOf
  <2> QED
    BY <1>2, <2>3, <2>5, <2>6
       DEF Clear, IsNumber, AsksForId, IsNumberWord
<1> QED
  BY <1>1, <1>2

\* What the code makes of a list of groups that is clear: numbers, of which
\* those that ask for an id are that id and the others are impossible.
LEMMA GroupsConverted ==
  ASSUME ulong \in Builds, NEW ws \in Seq(Word),
         \A i \in DOMAIN ws : Clear(ws[i])
  PROVE  /\ Taken(ws) \subseteq NumbersIn(ws)
         /\ \A i \in NumbersIn(ws) :
              IF Impossible(ws[i]) THEN GidOf(ws[i]) = NoId
              ELSE GidOf(ws[i]) = ws[i].value /\ ws[i].value # NoId
         /\ Cardinality(NumbersIn(ws)) <= GROUPS_MAX =>
              Taken(ws) = NumbersIn(ws)
<1>1. \A i \in DOMAIN ws : ws[i] \in Word /\ ws[i].value \in Int
  <2>1. \A i \in DOMAIN ws : ws[i] \in Word
    BY ElementOfSeq, LenProperties
  <2> QED
    BY <2>1 DEF Word
<1>2. \A i \in DOMAIN ws : WholeWord(ws[i]) <=> IsNumberWord(ws[i])
  BY DEF Clear, AsksForId, Impossible, WholeWord, IsNumberWord
<1>3. Taken(ws) \subseteq NumbersIn(ws)
  BY <1>2 DEF Taken, NumbersIn
<1>4. ASSUME NEW i \in NumbersIn(ws)
      PROVE  IF Impossible(ws[i]) THEN GidOf(ws[i]) = NoId
             ELSE GidOf(ws[i]) = ws[i].value /\ ws[i].value # NoId
  <2>1. /\ i \in DOMAIN ws /\ ws[i].value \in Int
        /\ ws[i].kind = "number"
        /\ GidOf(ws[i]) = strtoul(ws[i].value) % ID_MODULUS
    BY <1>1 DEF NumbersIn, IsNumberWord, GidOf
  <2>2. CASE Impossible(ws[i])
    BY <2>1, <2>2, Conversion, IdTypes DEF Impossible
  <2>3. CASE ~Impossible(ws[i])
    <3>1. AsksForId(ws[i])
      BY <2>1, <2>3 DEF Clear
    <3> QED
      BY <2>1, <2>3, <3>1, Conversion DEF AsksForId
  <2> QED
    BY <2>2, <2>3
<1>5. ASSUME Cardinality(NumbersIn(ws)) <= GROUPS_MAX
      PROVE  Taken(ws) = NumbersIn(ws)
  <2>1. DOMAIN ws = 1..Len(ws) /\ Len(ws) \in Nat
    BY LenProperties
  <2>2. IsFiniteSet(DOMAIN ws)
    BY <2>1, FS_Interval
  <2>3. IsFiniteSet(NumbersIn(ws)) /\ Cardinality(NumbersIn(ws)) \in Nat
    BY <2>2, FS_Subset, FS_CardinalityType DEF NumbersIn
  <2>4. ASSUME NEW i \in NumbersIn(ws)
        PROVE  Cardinality(ValidUpTo(ws, i)) <= GROUPS_MAX
    <3>1. i \in 1..Len(ws)
      BY <2>1 DEF NumbersIn
    <3>2. ValidUpTo(ws, i) \subseteq NumbersIn(ws)
      BY <1>2, <2>1, <3>1 DEF ValidUpTo, NumbersIn
    <3>3. /\ Cardinality(ValidUpTo(ws, i)) <= Cardinality(NumbersIn(ws))
          /\ IsFiniteSet(ValidUpTo(ws, i))
      BY <2>3, <3>2, FS_Subset
    <3>4. Cardinality(ValidUpTo(ws, i)) \in Nat
      BY <3>3, FS_CardinalityType
    <3> QED
      BY <1>5, <2>3, <3>3, <3>4, SwitcherAssumption
  <2> QED
    BY <1>2, <1>3, <2>4 DEF Taken, NumbersIn
<1> QED
  BY <1>3, <1>4, <1>5

\* On a build of any width, the target of a privileged caller runs with the
\* uid, the gid and the groups that the words spell; a call that fails, or an
\* id that no process can have, costs that step alone.
THEOREM IdentityAsAskedHolds == Spec => []IdentityAsAsked
<1>1. ASSUME IInv, pc = "running", Privileged
      PROVE  /\ IdsAsAsked(args.uid, "setuid", cred.uid, start.uid)
             /\ IdsAsAsked(args.gid, "setgid", cred.gid, start.gid)
  <2>1. /\ SetTo(cred.uid, start.uid, TRUE, args.uid, "setuid")
        /\ SetTo(cred.gid, start.gid, TRUE, args.gid, "setgid")
    BY <1>1 DEF IInv, Identity, ToGroups, ToGid, ToUid
  <2>2. ulong \in Builds /\ args.uid \in OptWord /\ args.gid \in OptWord
    BY <1>1 DEF IInv, TypeOK, CommandLine
  <2>3. IdsAsAsked(args.uid, "setuid", cred.uid, start.uid)
    BY <1>1, <2>1, <2>2, OptionConverted DEF IdsAsAsked, SetTo, Done
  <2>4. IdsAsAsked(args.gid, "setgid", cred.gid, start.gid)
    BY <1>1, <2>1, <2>2, OptionConverted DEF IdsAsAsked, SetTo, Done
  <2> QED
    BY <2>3, <2>4
<1>2. ASSUME IInv, pc = "running", Privileged
      PROVE  GroupsAsAsked(args.groups)
  <2> DEFINE ws == args.groups
  <2> SUFFICES ASSUME \A i \in DOMAIN ws : Clear(ws[i])
               PROVE  /\ \/ cred.groups = start.groups
                         \/ cred.groups \subseteq AskedGroups(ws)
                      /\ Cardinality(NumbersIn(ws)) <= GROUPS_MAX =>
                           cred.groups =
                             IF \/ NumbersIn(ws) = {}
                                \/ "setgroups" \in failed
                                \/ \E i \in DOMAIN ws : Impossible(ws[i])
                             THEN start.groups ELSE AskedGroups(ws)
    BY DEF GroupsAsAsked
  <2>1. ulong \in Builds /\ ws \in Seq(Word)
    BY <1>2 DEF IInv, TypeOK, CommandLine
  <2>2. cred.groups = IF GroupsDone THEN GroupsOf(ws) ELSE start.groups
    BY <1>2 DEF IInv, Identity, ToGroups
  <2>3. /\ Taken(ws) \subseteq NumbersIn(ws)
        /\ \A i \in NumbersIn(ws) :
             IF Impossible(ws[i]) THEN GidOf(ws[i]) = NoId
             ELSE GidOf(ws[i]) = ws[i].value /\ ws[i].value # NoId
        /\ Cardinality(NumbersIn(ws)) <= GROUPS_MAX =>
             Taken(ws) = NumbersIn(ws)
    BY <2>1, GroupsConverted
  <2>4. GroupsDone => GroupsOf(ws) \subseteq AskedGroups(ws)
    BY <2>3 DEF GroupsDone, GroupsOf, AskedGroups
  <2>5. ASSUME Cardinality(NumbersIn(ws)) <= GROUPS_MAX
        PROVE  /\ GroupsDone <=>
                    ~ \/ NumbersIn(ws) = {}
                      \/ "setgroups" \in failed
                      \/ \E i \in DOMAIN ws : Impossible(ws[i])
               /\ GroupsDone => GroupsOf(ws) = AskedGroups(ws)
    <3>1. GroupsOf(ws) = {GidOf(ws[i]) : i \in NumbersIn(ws)}
      BY <2>3, <2>5 DEF GroupsOf
    <3>2. \A i \in DOMAIN ws : Impossible(ws[i]) => i \in NumbersIn(ws)
      BY DEF Impossible, NumbersIn
    <3>3. NoId \in GroupsOf(ws) <=> \E i \in DOMAIN ws : Impossible(ws[i])
      BY <2>3, <3>1, <3>2 DEF NumbersIn
    <3>4. NoId \notin GroupsOf(ws) => GroupsOf(ws) = AskedGroups(ws)
      BY <2>3, <3>1 DEF AskedGroups
    <3> QED
      BY <3>1, <3>3, <3>4 DEF GroupsDone
  <2> QED
    BY <2>2, <2>4, <2>5
<1>3. IInv => IdentityAsAsked
  BY <1>1, <1>2 DEF IdentityAsAsked
<1> QED
  BY <1>3, InvHolds, PTL

\* Whichever calls fail, a target that is not root has no capability but those
\* asked for and, unless it has left root, those ambient before.
THEOREM OnlyWantedHolds == Spec => []OnlyWanted
<1>1. IInv => OnlyWanted
  BY DEF IInv, Ambient
<1> QED
  BY <1>1, InvHolds, PTL

\* If the check says yes and no call fails, the target gets what was asked for.
THEOREM AmbientReachesTargetHolds == Spec => []AmbientReachesTarget
<1>1. IInv => AmbientReachesTarget
  BY DEF IInv, Raised, AmbientReachesTarget
<1> QED
  BY <1>1, InvHolds, PTL

\* The kernel accepts what the check lets pass, unless the permitted set would
\* have to grow.
THEOREM FeasibleIsAllowedHolds == Spec => []FeasibleIsAllowed
<1>1. IInv => FeasibleIsAllowed
  BY DEF IInv, Check
<1> QED
  BY <1>1, InvHolds, PTL

=============================================================================
