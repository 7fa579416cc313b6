------------------------------ MODULE Switcher ------------------------------
(***************************************************************************)
(* uid-gid-con-cap_switcher/jni/switcher.c: set the SELinux context, the   *)
(* groups, the gid, the uid and the capabilities asked for, in that order, *)
(* and execute the target.  A step that fails is reported and skipped.     *)
(*                                                                         *)
(* The process is alone; what varies is the credentials it starts with,    *)
(* its arguments, which calls fail, and the build: unsigned long, which    *)
(* strtoul returns, is wider than an id on arm64-v8a and as wide as one on *)
(* armeabi-v7a.  A word of the command line is a number, junk, or nothing  *)
(* but blanks.  The environment variables that are cleaned are left out.   *)
(***************************************************************************)
EXTENDS Sequences, Creds

CONSTANTS
  GROUPS_MAX,   \* 64 in the code
  Builds,       \* ULONG_MAX + 1 of each build: 2^32 and 2^64
  StartCreds,   \* the credentials the process may start with
  Args,         \* the command lines
  MayFail       \* calls that can fail for reasons of their own

\* The words; "unknown" stands for a capability name not in cap_table.
Word == [kind : {"number", "junk", "blank"}, value : Int]
OptWord == {s \in Seq(Word) : Len(s) <= 1}   \* a word or none
CommandLine == [uid : OptWord, gid : OptWord, groups : Seq(Word),
                context : BOOLEAN, caps : SUBSET (Cap \cup {"unknown"})]

Call == {"setcon", "keepcaps", "setgroups", "setgid", "setuid", "capget",
         "capset", "ambient", "execv"}

ASSUME SwitcherAssumption ==
  /\ GROUPS_MAX \in Nat
  /\ \A u \in Builds : /\ u \in Nat /\ u >= ID_MODULUS
                       /\ (u - 1) % ID_MODULUS = NoId
  /\ \A c \in StartCreds : c \in Cred /\ Sane(c)
  /\ \A a \in Args : a \in CommandLine
  /\ MayFail \subseteq Call

VARIABLES
  pc,        \* the step that comes next
  cred,      \* the credentials of the process
  args,      \* its command line
  ulong,     \* ULONG_MAX + 1 of the build
  todo,      \* set_ambient_caps: capabilities still to be raised
  start,     \* history: the credentials at the start
  checked,   \* history: the answer of check_capset_feasibility
  refused,   \* history: the calls the kernel did not allow
  failed     \* history: the calls that failed for reasons of their own

vars == <<pc, cred, args, ulong, todo, start, checked, refused, failed>>

TypeOK ==
  /\ pc \in {"setcon", "keepcaps", "groups", "gid", "uid", "check", "capset",
             "verify", "ambient", "exec", "running", "failed"}
  /\ cred \in Cred /\ Sane(cred)
  /\ args \in CommandLine
  /\ ulong \in Builds
  /\ todo \subseteq Cap
  /\ start \in Cred
  /\ checked \in {"not yet", "OK", "FAIL"}
  /\ refused \subseteq Call
  /\ failed \subseteq Call

Init ==
  /\ pc = "setcon"
  /\ cred \in StartCreds
  /\ args \in Args
  /\ ulong \in Builds
  /\ todo = {}
  /\ start = cred
  /\ checked = "not yet"
  /\ refused = {} /\ failed = {}

-----------------------------------------------------------------------------
(* Parsing.                                                                *)

\* strtoul consumed the whole word: also true of a word of blanks, once the
\* blanks in front have been skipped.
WholeWord(w) == w.kind \in {"number", "blank"}

\* A number too large for the build becomes the largest one, a negative one
\* counts from the end; and a mutant that lets large numbers wrap around.
strtoul_Wraps(v) == v % ulong
strtoul(v) == IF v >= ulong \/ v <= -ulong THEN ulong - 1 ELSE v % ulong

\* What is stored in a gid_t or uid_t.
GidOf(w) == IF w.kind = "number" THEN strtoul(w.value) % ID_MODULUS ELSE 0

\* At most GROUPS_MAX groups are taken, the rest is not looked at.
ValidUpTo(ws, i) == {j \in 1..i : WholeWord(ws[j])}
Taken(ws) == {i \in DOMAIN ws : /\ WholeWord(ws[i])
                               /\ Cardinality(ValidUpTo(ws, i)) <= GROUPS_MAX}
GroupsOf(ws) == {GidOf(ws[i]) : i \in Taken(ws)}

\* uid and gid are converted without skipping, so blanks are junk there.
IsNumber(o) == o # <<>> /\ o[1].kind = "number"
IdOf(o) == strtoul(o[1].value) % ID_MODULUS

\* Mutant of parse_cap_string: an unknown name gets the number of another.
parse_cap_string_Unknown ==
  IF "unknown" \in args.caps THEN (args.caps \cap Cap) \cup {"net"}
  ELSE args.caps \cap Cap

parse_cap_string == args.caps \cap Cap
want == parse_cap_string

-----------------------------------------------------------------------------
\* The order of the steps in main, and a mutant of it: the user first.
NextStep_UidFirst(step) ==
  [setcon |-> "keepcaps", keepcaps |-> "uid", uid |-> "groups",
   groups |-> "gid", gid |-> "check"][step]
NextStep(step) ==
  [setcon |-> "keepcaps", keepcaps |-> "groups", groups |-> "gid",
   gid |-> "uid", uid |-> "check"][step]

(* Steps.  A call is made if it is wanted; the kernel allows it or not, and *)
(* it may fail all the same.                                                *)

Made(call, new) == cred' = new /\ UNCHANGED <<refused, failed>>
Refused(call) == refused' = refused \cup {call} /\ UNCHANGED <<cred, failed>>
Fails(call) == /\ call \in MayFail
               /\ failed' = failed \cup {call}
               /\ UNCHANGED <<cred, refused>>
NotMade == UNCHANGED <<cred, refused, failed>>

Attempt(call, allowed, new) ==
  \/ allowed /\ Made(call, new)
  \/ ~allowed /\ Refused(call)
  \/ Fails(call)

setcon ==
  /\ pc = "setcon"
  /\ \/ ~args.context /\ NotMade
     \/ args.context /\ Attempt("setcon", TRUE, cred)
  /\ pc' = NextStep("setcon")
  /\ UNCHANGED <<args, ulong, todo, start, checked>>

KeepCaps ==
  /\ pc = "keepcaps"
  /\ Attempt("keepcaps", TRUE, [cred EXCEPT !.keepcaps = TRUE])
  /\ pc' = NextStep("keepcaps")
  /\ UNCHANGED <<args, ulong, todo, start, checked>>

SetGroups ==
  /\ pc = "groups"
  /\ \/ GroupsOf(args.groups) = {} /\ NotMade
     \/ /\ GroupsOf(args.groups) # {}
        /\ Attempt("setgroups", setgroupsAllowed(cred, GroupsOf(args.groups)),
                   setgroups(cred, GroupsOf(args.groups)))
  /\ pc' = NextStep("groups")
  /\ UNCHANGED <<args, ulong, todo, start, checked>>

SetGid ==
  /\ pc = "gid"
  /\ \/ ~IsNumber(args.gid) /\ NotMade
     \/ /\ IsNumber(args.gid)
        /\ Attempt("setgid", setgidAllowed(cred, IdOf(args.gid)),
                   setgid(cred, IdOf(args.gid)))
  /\ pc' = NextStep("gid")
  /\ UNCHANGED <<args, ulong, todo, start, checked>>

SetUid ==
  /\ pc = "uid"
  /\ \/ ~IsNumber(args.uid) /\ NotMade
     \/ /\ IsNumber(args.uid)
        /\ Attempt("setuid", setuidAllowed(cred, IdOf(args.uid)),
                   setuid(cred, IdOf(args.uid)))
  /\ pc' = NextStep("uid")
  /\ UNCHANGED <<args, ulong, todo, start, checked>>

\* Mutant of Feasible: the permitted set is not looked at.
Feasible_NoPermitted(p, e, i) ==
  /\ e \subseteq p /\ p \subseteq cred.Bnd
  /\ "setpcap" \in cred.E \/ i \subseteq cred.I

\* The conditions of check_capset_feasibility for P, E and I.
Feasible(p, e, i) ==
  LET has_setpcap == "setpcap" \in cred.E
  IN /\ e \subseteq p
     /\ p \subseteq cred.Bnd
     /\ has_setpcap \/ p \subseteq cred.P
     /\ has_setpcap \/ i \subseteq cred.I

check_capset_feasibility ==
  /\ pc = "check"
  /\ want # {}
  /\ \/ /\ checked' = IF Feasible(want, want, want) THEN "OK" ELSE "FAIL"
        /\ NotMade
     \/ checked' = "FAIL" /\ Fails("capget")
  /\ pc' = IF checked' = "OK" THEN "capset" ELSE "exec"
  /\ UNCHANGED <<args, ulong, todo, start>>

\* No known capability was asked for.
NoCaps ==
  /\ pc = "check"
  /\ want = {}
  /\ pc' = "exec"
  /\ NotMade
  /\ UNCHANGED <<args, ulong, todo, start, checked>>

set_caps ==
  /\ pc = "capset"
  /\ Attempt("capset", capsetAllowed(cred, want, want, want),
             capset(cred, want, want, want))
  /\ pc' = IF UNCHANGED <<refused, failed>> THEN "verify" ELSE "exec"
  /\ UNCHANGED <<args, ulong, todo, start, checked>>

verify_caps ==
  /\ pc = "verify"
  /\ \/ /\ NotMade
        /\ pc' = IF cred.P = want /\ cred.E = want /\ cred.I = want
                 THEN "ambient" ELSE "exec"
        /\ todo' = want
     \/ /\ Fails("capget")
        /\ pc' = "exec"
        /\ UNCHANGED todo
  /\ UNCHANGED <<args, ulong, start, checked>>

\* What is left of the loop after x, and a mutant that stops after the first.
Rest_Break(x) == {}
Rest(x) == todo \ {x}

\* One prctl for each capability; one that fails is only reported.
set_ambient_caps ==
  /\ pc = "ambient"
  /\ \/ /\ todo = {}
        /\ pc' = "exec"
        /\ NotMade
        /\ UNCHANGED todo
     \/ \E x \in todo :
          /\ Attempt("ambient", ambientAllowed(cred, x), raiseAmbient(cred, x))
          /\ todo' = Rest(x)
          /\ UNCHANGED pc
  /\ UNCHANGED <<args, ulong, start, checked>>

execv ==
  /\ pc = "exec"
  /\ \/ Made("execv", execve(cred)) /\ pc' = "running"
     \/ Fails("execv") /\ pc' = "failed"
  /\ UNCHANGED <<args, ulong, todo, start, checked>>

Terminated == pc \in {"running", "failed"} /\ UNCHANGED vars

Next ==
  \/ setcon \/ KeepCaps \/ SetGroups \/ SetGid \/ SetUid
  \/ check_capset_feasibility \/ NoCaps \/ set_caps \/ verify_caps
  \/ set_ambient_caps \/ execv \/ Terminated

Spec == Init /\ [][Next]_vars

-----------------------------------------------------------------------------
(* Properties of the target, whose credentials are cred once pc is "running".*)

\* Can the process that starts change its identity at will?
Privileged == {"setuid", "setgid"} \subseteq start.E

(* What a word asks for, read off the word alone.                          *)
IsNumberWord(w) == w.kind = "number"
AsksForId(w) == IsNumberWord(w) /\ w.value \in Id \ {NoId}

\* No process can have the id: -1 under either of its names, and the numbers
\* that no unsigned long holds.
Impossible(w) ==
  /\ IsNumberWord(w)
  /\ w.value \in {NoId, -1} \/ w.value >= ulong \/ w.value <= -ulong

\* The other numbers are cut to an id nobody asked for, and a blank word among
\* the groups asks for root's: what the code does with them, unlike what it
\* says of invalid words, is left out of IdentityAsAsked.
Clear(w) == AsksForId(w) \/ Impossible(w) \/ w.kind = "junk"

\* What execve leaves of ids that no call changed.
Kept(ids) == [ids EXCEPT !.saved = ids.effective]

\* The ids of the target: those asked for unless the call failed, and the
\* caller's when the word is missing, invalid or impossible.
IdsAsAsked(o, call, ids, before) ==
  (\A i \in DOMAIN o : Clear(o[i]) \/ o[i].kind = "blank") =>
    ids = IF o # <<>> /\ AsksForId(o[1]) /\ call \notin failed
          THEN AllIds(o[1].value) ELSE Kept(before)

NumbersIn(ws) == {i \in DOMAIN ws : IsNumberWord(ws[i])}
AskedGroups(ws) == {ws[i].value : i \in NumbersIn(ws)}

\* The groups of the target: the caller's or groups asked for, nothing else;
\* and all of those asked for if they fit, the call did not fail and none of
\* them is impossible.
GroupsAsAsked(ws) ==
  (\A i \in DOMAIN ws : Clear(ws[i])) =>
    /\ cred.groups = start.groups \/ cred.groups \subseteq AskedGroups(ws)
    /\ Cardinality(NumbersIn(ws)) <= GROUPS_MAX =>
         cred.groups =
           IF \/ NumbersIn(ws) = {} \/ "setgroups" \in failed
              \/ \E i \in DOMAIN ws : Impossible(ws[i])
           THEN start.groups ELSE AskedGroups(ws)

\* On either build, the target of a privileged caller runs with the uid, the
\* gid and the groups that its command line spells: a step that fails or is
\* refused costs that one alone, and no step takes away the permission that a
\* later one needs.
IdentityAsAsked ==
  pc = "running" /\ Privileged =>
    /\ IdsAsAsked(args.uid, "setuid", cred.uid, start.uid)
    /\ IdsAsAsked(args.gid, "setgid", cred.gid, start.gid)
    /\ GroupsAsAsked(args.groups)

\* A target that is not root has no capability that was not asked for, apart
\* from those that were ambient before, whichever calls were refused or failed
\* on the way; one that setuid has taken away from root has not even those.
OnlyWanted ==
  pc = "running" /\ Root \notin Range3(cred.uid) =>
    /\ cred.P \subseteq args.caps \cup start.A
    /\ Root \in {start.uid.real, start.uid.effective} /\ "setuid" \in start.E
         => cred.P \subseteq args.caps

\* A target that is not root gets all of what was asked for when the check
\* has said yes and no call failed.
AmbientReachesTarget ==
  (/\ pc = "running"
   /\ checked = "OK"
   /\ failed = {} /\ refused \cap {"capset"} = {}
   /\ Root \notin Range3(cred.uid))
  => cred.P = want /\ cred.E = want /\ cred.A = want

\* What the check lets pass, the kernel accepts, unless the permitted set would
\* have to grow: the check allows that to a caller with setpcap, the kernel
\* never does.
FeasibleIsAllowed ==
  checked = "OK" /\ want \subseteq start.P => "capset" \notin refused

\* "uses ambient capabilities, so that the target, without file capabilities,
\* also gets what it needs": a target that is not root gets the capabilities
\* asked for if the caller had them and no call failed.
TargetGetsCaps ==
  (/\ pc = "running"
   /\ Privileged
   /\ failed = {}
   /\ want \subseteq start.P \cap start.Bnd
   /\ Root \notin Range3(cred.uid))
  => want \subseteq cred.P

=============================================================================
