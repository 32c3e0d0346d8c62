---------------------------- MODULE BoundedFifo ----------------------------
(***************************************************************************)
(* What SpscQueue promises its two users: a bounded first-in first-out     *)
(* queue whose pushes are all-or-nothing batches and whose consumer gets   *)
(* the oldest value, by looking at it or by taking it.                     *)
(***************************************************************************)
EXTENDS Integers, Sequences

CONSTANTS Capacity, Values

VARIABLES
  contents,   \* the values pushed and not yet popped, oldest first
  returned    \* the consumer's last successful call and its value

Init == contents = <<>> /\ returned = <<>>

Push(batch) ==
  /\ Len(contents) + Len(batch) <= Capacity
  /\ contents' = contents \o batch
  /\ UNCHANGED returned

Peek ==
  /\ contents # <<>>
  /\ returned' = <<"peek", Head(contents)>>
  /\ UNCHANGED contents

Pop ==
  /\ contents # <<>>
  /\ returned' = <<"pop", Head(contents)>>
  /\ contents' = Tail(contents)

Batches == UNION {[1 .. n -> Values] : n \in 1 .. Capacity}

Next == Peek \/ Pop \/ \E batch \in Batches : Push(batch)

Spec == Init /\ [][Next]_<<contents, returned>>

=============================================================================
