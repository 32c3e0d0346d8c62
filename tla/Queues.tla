------------------------------- MODULE Queues -------------------------------
(* Intrusive lists as sequences without duplicates.  The operators mean    *)
(* what they mean in SequencesExt; that module also brings in Bags, which  *)
(* makes every proof obligation above it many times slower to check.       *)
EXTENDS Integers, Sequences, FiniteSets, FiniteSetsExt, Functions

\* The position of the first element that passes the test, or 0.
SelectInSeq(queue, Test(_)) ==
  LET passing == {i \in 1 .. Len(queue) : Test(queue[i])}
  IN  IF passing = {} THEN 0 ELSE Min(passing)

RemoveAt(queue, i) ==
  [k \in 1 .. Len(queue) - 1 |-> IF k < i THEN queue[k] ELSE queue[k + 1]]

\* An element leaves its list; a list that does not hold it stays as it is.
RemoveFirst(queue, e) ==
  LET i == SelectInSeq(queue, LAMBDA x : x = e)
  IN  IF i = 0 THEN queue ELSE RemoveAt(queue, i)

=============================================================================
