----------------------------- MODULE BoundedFifo -----------------------------
(***************************************************************************)
(* What SpscRing promises its two tasks: a queue of at most Size items     *)
(* that never blocks.  A push stores its item or, exactly when the queue   *)
(* is full, drops it; a pop takes the oldest item or, exactly when the     *)
(* queue is empty, reports that there is none.                             *)
(***************************************************************************)
EXTENDS Integers, Sequences

CONSTANTS Size, Items, Nothing

VARIABLES
  queue,
  pushed,   (* what the last push reported: stored or dropped *)
  popped    (* what the last pop returned: an item, or Nothing *)

fifoVars == <<queue, pushed, popped>>

FifoInit == queue = <<>> /\ pushed = TRUE /\ popped = Nothing

Put(item) ==
  /\ Len(queue) < Size
  /\ queue' = Append(queue, item) /\ pushed' = TRUE
  /\ UNCHANGED popped

Drop ==
  /\ Len(queue) = Size
  /\ pushed' = FALSE
  /\ UNCHANGED <<queue, popped>>

Take ==
  /\ queue # <<>>
  /\ popped' = Head(queue) /\ queue' = Tail(queue)
  /\ UNCHANGED pushed

TakeNothing ==
  /\ queue = <<>>
  /\ popped' = Nothing
  /\ UNCHANGED <<queue, pushed>>

FifoNext == (\E item \in Items : Put(item)) \/ Drop \/ Take \/ TakeNothing

FifoSpec == FifoInit /\ [][FifoNext]_fifoVars
=============================================================================
