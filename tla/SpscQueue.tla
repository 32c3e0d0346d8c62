----------------------------- MODULE SpscQueue -----------------------------
(***************************************************************************)
(* The single-producer single-consumer ring of                             *)
(* src/include/matching_engine/spsc_queue.hpp, at the grain of its memory  *)
(* accesses: a slot is written or read in a step of its own, and so is     *)
(* every load and store of an atomic index.                                *)
(*                                                                         *)
(* An acquire load may return any value stored since the last one it saw:  *)
(* tail_stores and head_stores hold the values the other thread can still  *)
(* see, the newest last.                                                   *)
(***************************************************************************)
EXTENDS Integers, Sequences

CONSTANTS
  Capacity,     \* capacity_
  IndexRange,   \* 2^64: indices are unsigned and wrap
  Values

ASSUME CapacityAssumption == Capacity \in Nat \ {0}
ASSUME IndexAssumption == IndexRange \in Nat /\ IndexRange > Capacity

VARIABLES
  slots,         \* slots_
  producer,      \* ProducerState and the locals of try_push_batch()
  consumer,      \* ConsumerState and the locals of try_peek() and try_pop()
  tail_stores,   \* stores to producer_.published_tail
  head_stores,   \* stores to consumer_.published_head
  returned       \* the consumer's last successful call and its value

vars == <<slots, producer, consumer, tail_stores, head_stores, returned>>

Index == 0 .. IndexRange - 1
NoValue == "none"   \* a value-initialized slot

Producer == [pc : {"unclaimed", "idle", "write"},
             tail : Index,
             cached_head : Index,
             batch : UNION {[1 .. n -> Values] : n \in 0 .. Capacity},
             written : 0 .. Capacity]

Consumer == [pc : {"unclaimed", "idle", "read", "advance"},
             call : {"peek", "pop"},
             head : Index,
             cached_tail : Index,
             value : Values \cup {NoValue}]

slot_of(index) == index % Capacity

after(index, n) == (index + n) % IndexRange
distance(from, to) == (to - from) % IndexRange

Init ==
  /\ slots = [s \in 0 .. Capacity - 1 |-> NoValue]
  /\ producer = [pc |-> "unclaimed", tail |-> 0, cached_head |-> 0, batch |-> <<>>,
                 written |-> 0]
  /\ consumer = [pc |-> "unclaimed", call |-> "peek", head |-> 0, cached_tail |-> 0,
                 value |-> NoValue]
  /\ tail_stores = <<0>>
  /\ head_stores = <<0>>
  /\ returned = <<>>

-----------------------------------------------------------------------------
(* The producer.                                                           *)

claim_producer ==
  /\ producer.pc = "unclaimed"
  /\ producer' = [producer EXCEPT !.pc = "idle"]
  /\ UNCHANGED <<slots, consumer, tail_stores, head_stores, returned>>

\* capacity_ - (tail - cached_head)
known_free(p) == Capacity - distance(p.cached_head, p.tail)

\* An acquire load sees one of the stores, and no older one ever after.
seen_from(stores, i) == SubSeq(stores, i, Len(stores))

\* producer_available(), on its own as available() and at the start of a push.
producer_available ==
  /\ producer.pc = "idle"
  /\ \E i \in DOMAIN head_stores :
       /\ producer' = [producer EXCEPT !.cached_head = head_stores[i]]
       /\ head_stores' = seen_from(head_stores, i)
  /\ UNCHANGED <<slots, consumer, tail_stores, returned>>

\* try_push_batch() up to the check of the free space; an empty or oversized
\* batch returns before it.
try_push_batch(values) ==
  /\ producer.pc = "idle"
  /\ IF Len(values) \notin 1 .. Capacity
     THEN UNCHANGED vars
     ELSE /\ \E i \in DOMAIN head_stores :
               LET loaded == [producer EXCEPT !.cached_head = head_stores[i]]
               IN  /\ head_stores' = seen_from(head_stores, i)
                   /\ producer' = IF known_free(loaded) < Len(values)
                                  THEN loaded
                                  ELSE [loaded EXCEPT !.pc = "write", !.batch = values]
          /\ UNCHANGED <<slots, consumer, tail_stores, returned>>

WriteIndex == after(producer.tail, producer.written)

write_slot ==
  /\ producer.pc = "write"
  /\ producer.written < Len(producer.batch)
  /\ slots' = [slots EXCEPT ![slot_of(WriteIndex)] = producer.batch[producer.written + 1]]
  /\ producer' = [producer EXCEPT !.written = @ + 1]
  /\ UNCHANGED <<consumer, tail_stores, head_stores, returned>>

\* Mutant of publish_tail: it does not wait for the slots.
publish_tail_early ==
  /\ producer.pc = "write"
  /\ producer' = [producer EXCEPT !.pc = "idle",
                                  !.tail = after(@, Len(producer.batch)),
                                  !.batch = <<>>, !.written = 0]
  /\ tail_stores' = Append(tail_stores, producer'.tail)
  /\ UNCHANGED <<slots, consumer, head_stores, returned>>

\* One release store publishes the whole batch.
publish_tail ==
  /\ producer.pc = "write"
  /\ producer.written = Len(producer.batch)
  /\ producer' = [producer EXCEPT !.pc = "idle",
                                  !.tail = after(@, Len(producer.batch)),
                                  !.batch = <<>>, !.written = 0]
  /\ tail_stores' = Append(tail_stores, producer'.tail)
  /\ UNCHANGED <<slots, consumer, head_stores, returned>>

-----------------------------------------------------------------------------
(* The consumer.                                                           *)

claim_consumer ==
  /\ consumer.pc = "unclaimed"
  /\ consumer' = [consumer EXCEPT !.pc = "idle"]
  /\ UNCHANGED <<slots, producer, tail_stores, head_stores, returned>>

\* Mutant of try_peek: a pop releases the slot before it has read it.
try_peek_releases(call) ==
  /\ consumer.pc = "idle"
  /\ \E i \in DOMAIN tail_stores :
       /\ tail_stores[i] # consumer.head
       /\ tail_stores' = seen_from(tail_stores, i)
       /\ consumer' = [consumer EXCEPT !.cached_tail = tail_stores[i], !.pc = "read", !.call = call]
  /\ head_stores' = IF call = "peek" THEN head_stores
                    ELSE Append(head_stores, after(consumer.head, 1))
  /\ returned' = IF call = "peek" THEN returned
                 ELSE <<"pop", slots[slot_of(consumer.head)]>>
  /\ UNCHANGED <<slots, producer>>

\* try_peek(), or the try_peek() of try_pop(): the published tail is loaded only
\* when the cached one says that the queue is empty.
try_peek(call) ==
  /\ consumer.pc = "idle"
  /\ \/ /\ consumer.head # consumer.cached_tail
        /\ consumer' = [consumer EXCEPT !.pc = "read", !.call = call]
        /\ UNCHANGED tail_stores
     \/ /\ consumer.head = consumer.cached_tail
        /\ \E i \in DOMAIN tail_stores :
             /\ tail_stores' = seen_from(tail_stores, i)
             /\ consumer' = [consumer EXCEPT
                              !.cached_tail = tail_stores[i],
                              !.pc = IF tail_stores[i] = consumer.head THEN "idle" ELSE "read",
                              !.call = call]
  /\ UNCHANGED <<slots, producer, head_stores, returned>>

read_slot ==
  /\ consumer.pc = "read"
  /\ LET value == slots[slot_of(consumer.head)]
     IN  IF consumer.call = "peek"
         THEN /\ consumer' = [consumer EXCEPT !.pc = "idle"]
              /\ returned' = <<"peek", value>>
         ELSE /\ consumer' = [consumer EXCEPT !.pc = "advance", !.value = value]
              /\ UNCHANGED returned
  /\ UNCHANGED <<slots, producer, tail_stores, head_stores>>

\* The end of try_pop().
publish_head ==
  /\ consumer.pc = "advance"
  /\ consumer' = [consumer EXCEPT !.pc = "idle", !.head = after(@, 1), !.value = NoValue]
  /\ head_stores' = Append(head_stores, consumer'.head)
  /\ returned' = <<"pop", consumer.value>>
  /\ UNCHANGED <<slots, producer, tail_stores>>

-----------------------------------------------------------------------------

\* Batches reach one past the capacity that the code checks.
InputBatches == UNION {[1 .. n -> Values] : n \in 0 .. Capacity + 1}

Next ==
  \/ claim_producer
  \/ producer_available
  \/ \E batch \in InputBatches : try_push_batch(batch)
  \/ write_slot
  \/ publish_tail
  \/ claim_consumer
  \/ \E call \in {"peek", "pop"} : try_peek(call)
  \/ read_slot
  \/ publish_head

Spec == Init /\ [][Next]_vars

-----------------------------------------------------------------------------
(* Properties.                                                             *)

\* Every variable has its type, and a thread is never behind by more stores
\* than the ring has slots.
TypeOK ==
  /\ slots \in [0 .. Capacity - 1 -> Values \cup {NoValue}]
  /\ producer \in Producer
  /\ consumer \in Consumer
  /\ tail_stores \in Seq(Index) /\ Len(tail_stores) \in 1 .. Capacity + 1
  /\ head_stores \in Seq(Index) /\ Len(head_stores) \in 1 .. Capacity + 1

\* The two threads never access one slot at a time: the acquire and release
\* orders of the indices are enough for the plain accesses to slots_.
NoSlotRace ==
  producer.pc = "write" /\ producer.written < Len(producer.batch) /\ consumer.pc = "read" =>
    slot_of(WriteIndex) # slot_of(consumer.head)

latest(stores) == stores[Len(stores)]

\* The published part of the ring.
Contents ==
  LET head == latest(head_stores)
  IN  [i \in 1 .. distance(head, latest(tail_stores)) |-> slots[slot_of(after(head, i - 1))]]

Fifo == INSTANCE BoundedFifo WITH contents <- Contents

\* The ring implements a bounded FIFO queue: batches become visible whole and
\* in order, and the consumer gets the oldest value, whatever the index is.
ImplementsFifo == Fifo!Spec

=============================================================================
