------------------------------- MODULE CTime -------------------------------
(***************************************************************************)
(* The time arithmetic of keylistener.c.  clock_gettime(CLOCK_MONOTONIC)   *)
(* fills a struct timespec; the program subtracts two of them field by     *)
(* field and turns the result into milliseconds with C's integer division, *)
(* which truncates towards zero.  An instant is a natural number of ticks, *)
(* one tick standing for a nanosecond.                                     *)
(***************************************************************************)
EXTENDS Integers

CONSTANTS
  MS_PER_SEC,   \* 1000 in the code
  NS_PER_MS     \* 1000000 in the code

ASSUME TimeAssumption ==
  /\ MS_PER_SEC \in Nat \ {0}
  /\ NS_PER_MS \in Nat \ {0}

NS_PER_SEC == MS_PER_SEC * NS_PER_MS

\* What clock_gettime stores for the instant t.
Timespec(t) == [tv_sec |-> t \div NS_PER_SEC, tv_nsec |-> t % NS_PER_SEC]

\* a / b in C, for b > 0.
CDiv(a, b) == IF a >= 0 THEN a \div b ELSE -((-a) \div b)

\* Mutant of ElapsedMs: the nanoseconds of the press are not subtracted.
ElapsedMs_NoBorrow(now, then) ==
  (Timespec(now).tv_sec - Timespec(then).tv_sec) * MS_PER_SEC
    + CDiv(Timespec(now).tv_nsec, NS_PER_MS)

\* elapsed_ms, computed in the same way at release and in the timeout check.
ElapsedMs(now, then) ==
  LET n == Timespec(now)
      p == Timespec(then)
  IN  (n.tv_sec - p.tv_sec) * MS_PER_SEC
        + CDiv(n.tv_nsec - p.tv_nsec, NS_PER_MS)

=============================================================================
