----------------------------- MODULE MCSwitcher -----------------------------
(***************************************************************************)
(* Callers and command lines for Switcher.  Ids are 0 (root), 1, 2 and the *)
(* refused 3; 6 is cut to 2 by the wide build and too large for the narrow *)
(* one, 17 is too large for both, and -1 is 3.  "net" stands for a         *)
(* capability that an ordinary target wants.                               *)
(***************************************************************************)
EXTENDS Switcher

Caps == {"setuid", "setgid", "setpcap", "net"}

Num(n) == [kind |-> "number", value |-> n]
Junk == [kind |-> "junk", value |-> 0]
Blank == [kind |-> "blank", value |-> 0]

CredOf(uid, P, E, I, A, Bnd) ==
  [uid |-> uid, gid |-> uid, groups |-> {1}, P |-> P, E |-> E, I |-> I,
   A |-> A, Bnd |-> Bnd, keepcaps |-> FALSE]

SetUidRoot == [real |-> 1, effective |-> 0, saved |-> 0]

\* A root shell, one without setpcap, and a set-uid root binary, with the whole
\* bounding set permitted; the inheritable set is empty or not, and so is the
\* ambient one.
RootCreds ==
  {CredOf(uid, P, P, IA[1], IA[2], P) :
     uid \in {AllIds(0), SetUidRoot}, P \in {Caps, Caps \ {"setpcap"}},
     IA \in {<<{}, {}>>, <<{"net", "setuid"}, {}>>, <<{"net"}, {"net"}>>}}

\* Callers that are not root, with ambient capabilities or none.
UserCreds ==
  {CredOf(AllIds(1), {}, {}, {}, {}, Caps),
   CredOf(AllIds(1), {"net"}, {"net"}, {"net"}, {"net"}, Caps),
   CredOf(AllIds(1), Caps, Caps, {}, {}, Caps)}

\* Root that has given up "net" but could have it.
ReducedCreds ==
  {CredOf(AllIds(0), Caps \ {"net"}, Caps \ {"net"}, I, {}, Caps) :
     I \in {{}, {"net"}}}

AnyCreds == RootCreds \cup UserCreds \cup ReducedCreds

Lines(uids, gids, groupses, capses) ==
  [uid : uids, gid : gids, groups : groupses, context : BOOLEAN, caps : capses]

SomeCaps == {{}, {"net"}, {"net", "unknown"}, {"net", "setuid"}, {"unknown"}}

\* Groups are numbers or junk, sometimes more than GROUPS_MAX.
AnyArgs == Lines({<<>>, <<Num(0)>>, <<Num(2)>>, <<Num(17)>>, <<Junk>>},
                 {<<>>, <<Num(1)>>, <<Num(-1)>>, <<Num(6)>>, <<Blank>>},
                 {<<>>, <<Num(6), Blank>>, <<Num(0), Junk, Num(2)>>,
                  <<Num(2), Num(17)>>, <<Num(0), Junk, Num(2), Num(1)>>},
                 SomeCaps)

\* The example of the usage message.
UsageArgs == Lines({<<Num(1)>>, <<Num(2)>>}, {<<Num(1)>>, <<Num(2)>>},
                   {<<Num(1), Num(2)>>}, SomeCaps)

\* armeabi-v7a, where unsigned long has the width of an id, and arm64-v8a.
NarrowAndWide == {4, 16}

Anything == Call
Nothing == {}

=============================================================================
