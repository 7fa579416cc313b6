--------------------------- MODULE MCTimeControl ---------------------------
(***************************************************************************)
(* Small weeks and small files for TimeControl: days of two hours of two   *)
(* minutes, an interval shorter than a minute.                             *)
(***************************************************************************)
EXTENDS TimeControl

Slot(sh, sm, eh, em) ==
  <<"slot", [sh |-> sh, sm |-> sm, eh |-> eh, em |-> em]>>
Junk == <<"junk", <<>>>>
On(day, words) == [day |-> day, words |-> words]

\* Slots at both ends of a day, on both sides of the Sunday wrap.
Weekend == <<On("Sun", <<Slot(1, 1, 1, 1)>>),
             On("Mon", <<Slot(0, 0, 0, 1), Slot(1, 1, 1, 1)>>)>>

\* A day listed twice, words that are not slots, more slots than there is
\* room for.
Untidy == <<On("Tue", <<Slot(0, 0, 1, 1)>>), On("blank", <<>>),
            On("bad", <<Slot(0, 0, 0, 0)>>),
            On("Tue", <<Junk, Slot(2, 0, 0, 0), Slot(0, 1, 0, 1),
                        Slot(1, 0, 1, 0), Slot(1, 1, 1, 1)>>),
            On("Sat", <<Slot(0, 0, 0, 0)>>), On("Sat", <<>>),
            On("Sun", <<Slot(1, 0, 1, 1)>>)>>

\* A slot that ends on the next day.
Overnight == <<On("Fri", <<Slot(1, 0, 0, 0)>>)>>

TidyFiles == {Weekend, Untidy}
OvernightFiles == {Weekend, Overnight}

AnySigchld == {"default", "ignored"}

=============================================================================
