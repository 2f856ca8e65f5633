----------------------------- MODULE ErpcBuffer -----------------------------
(***************************************************************************)
(* IncomingBuffer (packages/erpc/src/utils/incoming-buffer.ts): what each  *)
(* of its methods makes of a buffer.  Whom a method answers, and how, is   *)
(* read off the buffer it is called on: the consumer waits while           *)
(* `popping`, the pushes of `parked` and the `draining` end of the stream  *)
(* until they are settled.                                                 *)
(***************************************************************************)
EXTENDS Naturals, Sequences

CONSTANT Capacity   \* of the circular buffer (256 by default)

ASSUME BufferAssumption == Capacity \in Nat \ {0}

NewBuffer ==
  [ items    |-> << >>,    \* buf
    parked   |-> << >>,    \* pendingPush
    popping  |-> FALSE,    \* pendingPop; a ReadableStream pulls one at a time
    draining |-> FALSE,    \* pendingDrain
    finished |-> FALSE,    \* isFinished
    error    |-> "none" ]  \* closeError: "closed" if it is a BufferClosedError

IsFull(b) == Len(b.items) >= Capacity

\* push() on a buffer that is not finished: to the consumer that waits, to
\* the end of the line, or into the buffer.
Pushed(b, x) ==
  IF b.popping THEN [ b EXCEPT !.popping = FALSE ]
  ELSE IF IsFull(b) THEN [ b EXCEPT !.parked = Append(@, x) ]
  ELSE [ b EXCEPT !.items = Append(@, x) ]

\* The first push in line takes the room a pop has made.
Unparked(b) ==
  IF b.parked = << >> THEN b
  ELSE [ b EXCEPT !.items = Append(@, Head(b.parked)), !.parked = Tail(@) ]

IsDrained(b) == b.finished /\ b.items = << >>

\* Mutant: only finish() looks whether the buffer is drained.
PoppedUnseen(b) == Unparked([ b EXCEPT !.items = Tail(@) ])

\* pop() of an item; the last one of a finished buffer ends its draining.
Popped(b) ==
  LET rest == Unparked([ b EXCEPT !.items = Tail(@) ])
  IN  [ rest EXCEPT !.draining = @ /\ ~IsDrained(rest) ]

\* finish(): the consumer that waits learns that nothing more will come.
Finished(b) ==
  IF b.finished THEN b ELSE [ b EXCEPT !.finished = TRUE, !.popping = FALSE ]

\* destroy(): everyone who waits is rejected; the items stay, out of reach.
Destroyed(b, kind) ==
  IF b.error # "none" THEN b
  ELSE [ b EXCEPT !.parked = << >>, !.popping = FALSE, !.draining = FALSE,
                  !.finished = TRUE, !.error = kind ]

=============================================================================
