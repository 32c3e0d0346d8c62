------------------------- MODULE MarketDataProofs --------------------------
(***************************************************************************)
(* Proofs about the replay of market data, for any number of slots, any    *)
(* gateway and any frames: the engine applies what the adapter stamps and  *)
(* skips no message, the gateway keeps to its rate, and no live order is   *)
(* lost to the adapter.                                                    *)
(***************************************************************************)
EXTENDS MarketDataAdapter, TLAPS

-----------------------------------------------------------------------------
(* The inductive invariant.                                                *)

Counters == [next_sequence : Nat, exhausted : BOOLEAN, last_logical_time : Word]

Orders == [id : Word, side : FrameSides, remaining : Int]

Entries == [live : BOOLEAN, generation : 1 .. MaxGeneration, order : Orders \cup {Forgotten},
            free_next : Slots \cup {NoSlot}]

Arenas == [slot : [Slots -> Entries], free_head : Slots \cup {NoSlot}, size : Int]

Tables == UNION {[ids -> Handles] : ids \in SUBSET Word}

Payloads == [tag : {"submit_limit", "cancel", "amend_quantity"}, order_id : Word,
             side : FrameSides, time_in_force : {"gtc"}, price : Int, quantity : Word,
             handle : Handles \cup {ZeroHandle}]

SequencedCommands == [payload : Payloads, sequence : Nat, logical_time : Word]

Events == [type : {"submit_result", "trade", "cancel_result", "amend_result"},
           order_id : Word, handle : SUBSET (Handles \cup {ZeroHandle}), accepted : BOOLEAN]

Phases == {"read", "adapt", "apply", "book", "record", "failed", "done"}

Adapters == [gateway : Gateways, sequencer : Counters, handles : Tables, previous : Word]

Replays == [phase : Phases, message : Frames, command : SUBSET SequencedCommands,
            remaining : Int, events : Seq(Events), error : {"none", "input", "adapter", "apply"}]

TypeOK ==
  /\ input \in [previous : Word, ended : BOOLEAN]
  /\ adapter \in Adapters
  /\ engine \in [arena : Arenas, counter : Counters]
  /\ replay \in Replays
  /\ admitted \in [0 .. MaxValue \div RateWindowSize -> Nat]

\* The command on its way is the one the engine expects, and the adapter's
\* sequencer is one command ahead until the engine has applied it.
SequenceInv ==
  /\ replay.error # "apply"
  /\ adapter.previous = adapter.sequencer.last_logical_time
  /\ replay.phase \notin {"apply", "book"} => adapter.sequencer = engine.counter
  /\ replay.phase \in {"apply", "book"} =>
       \A command \in replay.command :
         /\ applicable(engine.counter, command)
         /\ adapter.sequencer = advance(engine.counter, command.logical_time)
         /\ engine.counter.last_logical_time # 0 =>
              command.logical_time = engine.counter.last_logical_time + 1

Limit == at_least_one(MaxOrdersPerSecond)

\* The window of the adapter's lane is the last one with an order in it, and its
\* count is the number of orders let through in it.
WindowOf(window, time, counts) ==
  /\ window.start <= time \div RateWindowSize
  /\ window.count <= Limit
  /\ \A w \in DOMAIN counts : counts[w] <= Limit /\ (w > window.start => counts[w] = 0)
  /\ IF window.count = 0 THEN \A w \in DOMAIN counts : counts[w] = 0
     ELSE counts[window.start] = window.count

RateInv ==
  /\ WindowOf(adapter.gateway.window[0], input.previous, admitted)
  /\ replay.phase = "adapt" => replay.message.sequence = input.previous

\* The free list of the arena: distinct slots, none of them live.
FreeList(arena, q) ==
  /\ arena.free_head = IF q = <<>> THEN NoSlot ELSE q[1]
  /\ \A i \in 1 .. Len(q) :
       /\ ~arena.slot[q[i]].live
       /\ arena.slot[q[i]].free_next = IF i = Len(q) THEN NoSlot ELSE q[i + 1]
  /\ \A i, j \in 1 .. Len(q) : q[i] = q[j] => i = j

ArenaOK(arena) ==
  /\ \E q \in Seq(Slots) : FreeList(arena, q)
  /\ \A s \in Slots : arena.slot[s].live => arena.slot[s].order \in Orders

\* The adapter reaches the order of slot s under its id.
Knows(a, arena, s) ==
  LET id == arena.slot[s].order.id
  IN  /\ id \in DOMAIN a.handles
      /\ a.handles[id] = handle_at(arena, s)
      /\ id \in a.gateway.active

Live(arena) == {s \in Slots : arena.slot[s].live}

KnowsAll(a, arena) == \A s \in Live(arena) : Knows(a, arena, s)

Fresh(arena, id) == \A s \in Live(arena) : arena.slot[s].order.id # id

\* What the event next in line has to tell the adapter: of an order that rests,
\* its handle; of one that is gone, that nothing of its id is live any more.
Pending(a, arena, e) ==
  \/ /\ e.type = "submit_result" /\ e.handle # {}
     /\ \E s \in Live(arena) :
          /\ e.handle = {handle_at(arena, s)}
          /\ arena.slot[s].order.id = e.order_id /\ e.order_id \in a.gateway.active
          /\ \A other \in Live(arena) \ {s} :
               Knows(a, arena, other) /\ arena.slot[other].order.id # e.order_id
  \/ /\ \/ e.type = "submit_result" /\ e.handle = {}
        \/ e.type = "cancel_result" /\ e.accepted
     /\ KnowsAll(a, arena) /\ Fresh(arena, e.order_id)
  \/ /\ \/ e.type \in {"trade", "amend_result"}
        \/ e.type = "cancel_result" /\ ~e.accepted
     /\ KnowsAll(a, arena)

KnownInv ==
  /\ replay.phase # "record" => KnowsAll(adapter, engine.arena)
  /\ replay.phase = "record" => /\ replay.events # <<>>
                                /\ Pending(adapter, engine.arena, replay.events[1])
                                /\ \A i \in 2 .. Len(replay.events) :
                                     replay.events[i].type = "trade"
  /\ replay.phase = "book" => \A i \in 1 .. Len(replay.events) : replay.events[i].type = "trade"
  /\ replay.phase \in {"read", "adapt", "apply"} => replay.events = <<>>
  /\ replay.phase \in {"apply", "book"} =>
       \A command \in replay.command :
         command.payload.tag = "submit_limit" =>
           /\ Fresh(engine.arena, command.payload.order_id)
           /\ command.payload.order_id \in adapter.gateway.active

Inv == TypeOK /\ SequenceInv /\ RateInv /\ ArenaOK(engine.arena) /\ KnownInv

-----------------------------------------------------------------------------
(* The arena.                                                              *)

\* Taking a slot changes that slot, and the free list behind it.
LEMMA AcquireShape ==
  ASSUME NEW arena \in Arenas, NEW order \in Orders, arena.free_head \in Slots
  PROVE  LET r == acquire(arena, order)  head == arena.free_head
         IN  /\ r \in Arenas
             /\ r.free_head = arena.slot[head].free_next
             /\ \A s \in Slots \ {head} : r.slot[s] = arena.slot[s]
             /\ r.slot[head].live /\ r.slot[head].order = order
             /\ r.slot[head].generation = arena.slot[head].generation
<1> DEFINE r == acquire(arena, order)
           head == arena.free_head
           entry == [arena.slot[head] EXCEPT !.live = TRUE, !.order = order, !.free_next = NoSlot]
<1>1. arena.slot \in [Slots -> Entries] /\ arena.slot[head] \in Entries /\ arena.size \in Int
  BY DEF Arenas
<1>2. /\ entry \in Entries /\ entry.live /\ entry.order = order
      /\ entry.generation = arena.slot[head].generation
      /\ arena.slot[head].free_next \in Slots \cup {NoSlot}
  BY <1>1 DEF Entries
<1> DEFINE filled == [arena EXCEPT !.slot[head] = entry]
           size == arena.size + 1
<1>3. /\ r = [filled EXCEPT !.free_head = arena.slot[head].free_next, !.size = size]
      /\ size \in Int
  BY DEF acquire, Arenas
<1> HIDE DEF entry, size
<1>4. /\ filled \in Arenas /\ filled.slot[head] = entry
      /\ \A s \in Slots \ {head} : filled.slot[s] = arena.slot[s]
  BY <1>2 DEF Arenas
<1> HIDE DEF filled
<1>5. r \in Arenas /\ r.slot = filled.slot /\ r.free_head = arena.slot[head].free_next
  BY <1>2, <1>3, <1>4 DEF Arenas
<1> QED BY <1>2, <1>4, <1>5

\* Generations stay in their range.
LEMMA GenerationType ==
  ASSUME NEW generation \in 1 .. MaxGeneration
  PROVE  next_generation(generation) \in 1 .. MaxGeneration
BY GenerationAssumption DEF next_generation

\* Giving a slot back changes that slot, and puts it in front of the free list.
LEMMA ReleaseShape ==
  ASSUME NEW arena \in Arenas, NEW handle, is_live_handle(arena, handle)
  PROVE  LET r == release(arena, handle)
         IN  /\ r \in Arenas
             /\ handle.index \in Slots /\ arena.slot[handle.index].live
             /\ r.free_head = handle.index
             /\ \A s \in Slots \ {handle.index} : r.slot[s] = arena.slot[s]
             /\ ~r.slot[handle.index].live
             /\ r.slot[handle.index].free_next = arena.free_head
<1>1. handle.index \in Slots /\ arena.slot[handle.index].live
  BY DEF is_live_handle, is_live_index
<1>2. next_generation(arena.slot[handle.index].generation) \in 1 .. MaxGeneration
  BY <1>1, GenerationType DEF Arenas, Entries
<1> DEFINE r == release(arena, handle)
           index == handle.index
           entry == [live |-> FALSE,
                     generation |-> next_generation(arena.slot[index].generation),
                     order |-> Forgotten, free_next |-> arena.free_head]
<1>3. /\ arena.slot \in [Slots -> Entries] /\ arena.slot[index] \in Entries
      /\ arena.free_head \in Slots \cup {NoSlot} /\ arena.size \in Int
  BY <1>1 DEF Arenas
<1>4. entry \in Entries /\ ~entry.live /\ entry.free_next = arena.free_head
  BY <1>2, <1>3 DEF Entries
<1> DEFINE emptied == [arena EXCEPT !.slot[index] = entry]
           size == arena.size - 1
<1>5. r = [emptied EXCEPT !.free_head = index, !.size = size] /\ size \in Int
  <2>1. r = [arena EXCEPT !.slot[index] = entry, !.free_head = index, !.size = @ - 1]
    BY DEF release
  <2>2. size \in Int
    BY <1>3
  <2> HIDE DEF entry
  <2> QED BY <2>1, <2>2 DEF Arenas
<1> HIDE DEF entry, size
<1>6. /\ emptied \in Arenas /\ emptied.slot[index] = entry
      /\ \A s \in Slots \ {index} : emptied.slot[s] = arena.slot[s]
  BY <1>1, <1>4 DEF Arenas
<1> HIDE DEF emptied
<1>7. r \in Arenas /\ r.slot = emptied.slot /\ r.free_head = index
  BY <1>1, <1>5, <1>6 DEF Arenas
<1> QED BY <1>1, <1>4, <1>6, <1>7

\* A change of what is left of a live order changes nothing else.
LEMMA ReducedShape ==
  ASSUME NEW arena \in Arenas, NEW s \in Slots, arena.slot[s].order \in Orders, NEW n \in Int
  PROVE  LET r == reduced(arena, s, n)
         IN  /\ r \in Arenas /\ r.free_head = arena.free_head
             /\ \A other \in Slots \ {s} : r.slot[other] = arena.slot[other]
             /\ r.slot[s].live = arena.slot[s].live
             /\ r.slot[s].free_next = arena.slot[s].free_next
             /\ r.slot[s].generation = arena.slot[s].generation
             /\ r.slot[s].order \in Orders
             /\ r.slot[s].order.id = arena.slot[s].order.id
BY DEF Arenas, Entries, Orders, reduced

\* The slot at the head of the free list is not live, and without it the list is
\* still one.
LEMMA AcquireList ==
  ASSUME NEW arena \in Arenas, NEW order \in Orders, ArenaOK(arena), arena.free_head # NoSlot
  PROVE  /\ arena.free_head \in Slots /\ ~arena.slot[arena.free_head].live
         /\ ArenaOK(acquire(arena, order))
<1> DEFINE r == acquire(arena, order)
<1>1. PICK q \in Seq(Slots) : FreeList(arena, q)
  BY DEF ArenaOK
<1>2. q # <<>> /\ arena.free_head = q[1] /\ Len(q) \in Nat \ {0}
  BY <1>1 DEF FreeList
<1>3. q[1] \in Slots /\ ~arena.slot[q[1]].live
  BY <1>1, <1>2 DEF FreeList
<1>4. /\ r.free_head = arena.slot[q[1]].free_next
      /\ \A s \in Slots \ {q[1]} : r.slot[s] = arena.slot[s]
      /\ r.slot[q[1]].live /\ r.slot[q[1]].order = order
  BY <1>2, <1>3, AcquireShape
<1> HIDE DEF r
<1> DEFINE rest == Tail(q)
<1>5. FreeList(r, rest)
  <2>1. /\ rest \in Seq(Slots) /\ Len(rest) = Len(q) - 1
        /\ \A i \in 1 .. Len(q) - 1 : rest[i] = q[i + 1]
    BY <1>2
  <2> HIDE DEF rest
  <2>2. ASSUME NEW i \in 1 .. Len(rest)
        PROVE  rest[i] \in Slots \ {q[1]} /\ i + 1 \in 1 .. Len(q) /\ rest[i] = q[i + 1]
    <3>1. i + 1 \in 1 .. Len(q) /\ rest[i] = q[i + 1] /\ q[i + 1] \in Slots /\ i + 1 # 1
      BY <1>2, <2>1
    <3>2. q[i + 1] = q[1] => i + 1 = 1
      BY <1>1, <1>2, <3>1 DEF FreeList
    <3> QED BY <3>1, <3>2
  <2>3. r.free_head = IF rest = <<>> THEN NoSlot ELSE rest[1]
    <3>1. r.free_head = IF 1 = Len(q) THEN NoSlot ELSE q[1 + 1]
      <4>1. 1 \in 1 .. Len(q)
        BY <1>2
      <4>2. arena.slot[q[1]].free_next = IF 1 = Len(q) THEN NoSlot ELSE q[1 + 1]
        BY <1>1, <4>1 DEF FreeList
      <4> QED BY <1>4, <4>2
    <3>2. CASE Len(q) = 1
      BY <2>1, <3>1, <3>2
    <3>3. CASE Len(q) # 1
      <4>1. 1 \in 1 .. Len(q) - 1 /\ Len(rest) # 0
        BY <1>2, <2>1, <3>3
      <4> QED BY <2>1, <3>1, <3>3, <4>1
    <3> QED BY <3>2, <3>3
  <2>4. ASSUME NEW i \in 1 .. Len(rest)
        PROVE  /\ ~r.slot[rest[i]].live
               /\ r.slot[rest[i]].free_next
                    = IF i = Len(rest) THEN NoSlot ELSE rest[i + 1]
    <3>1. r.slot[rest[i]] = arena.slot[q[i + 1]]
      BY <1>4, <2>1, <2>2
    <3>2. /\ ~arena.slot[q[i + 1]].live
          /\ arena.slot[q[i + 1]].free_next = IF i + 1 = Len(q) THEN NoSlot ELSE q[(i + 1) + 1]
      BY <1>1, <2>2 DEF FreeList
    <3>3. i + 1 = Len(q) <=> i = Len(rest)
      BY <1>2, <2>1
    <3>4. i # Len(rest) => q[(i + 1) + 1] = rest[i + 1]
      BY <1>2, <2>1
    <3> QED BY <3>1, <3>2, <3>3, <3>4
  <2>5. ASSUME NEW i \in 1 .. Len(rest), NEW j \in 1 .. Len(rest), rest[i] = rest[j]
        PROVE  i = j
    <3>1. i + 1 \in 1 .. Len(q) /\ j + 1 \in 1 .. Len(q) /\ q[i + 1] = q[j + 1]
      BY <2>2, <2>5
    <3>2. i + 1 = j + 1
      BY <1>1, <3>1 DEF FreeList
    <3> QED BY <3>2
  <2> QED BY <2>3, <2>4, <2>5 DEF FreeList
<1>6. \A s \in Slots : r.slot[s].live => r.slot[s].order \in Orders
  BY <1>4 DEF ArenaOK
<1>7. rest \in Seq(Slots)
  BY <1>2
<1> QED BY <1>2, <1>3, <1>5, <1>6, <1>7 DEF ArenaOK, r

\* A slot that is given back goes in front of the free list.
LEMMA ReleaseList ==
  ASSUME NEW arena \in Arenas, NEW handle, is_live_handle(arena, handle), ArenaOK(arena)
  PROVE  ArenaOK(release(arena, handle))
<1> DEFINE r == release(arena, handle)  index == handle.index
<1>1. PICK q \in Seq(Slots) : FreeList(arena, q)
  BY DEF ArenaOK
<1>2. /\ index \in Slots /\ arena.slot[index].live /\ r.free_head = index
      /\ \A s \in Slots \ {index} : r.slot[s] = arena.slot[s]
      /\ ~r.slot[index].live /\ r.slot[index].free_next = arena.free_head
  BY ReleaseShape
<1> HIDE DEF r, index
<1>3. \A i \in 1 .. Len(q) : q[i] \in Slots \ {index}
  BY <1>1, <1>2 DEF FreeList
<1> DEFINE longer == <<index>> \o q
<1>4. /\ longer \in Seq(Slots) /\ Len(longer) = Len(q) + 1 /\ longer[1] = index
      /\ \A i \in 2 .. Len(q) + 1 : longer[i] = q[i - 1]
  BY <1>2
<1> HIDE DEF longer
<1>5. FreeList(r, longer)
  <2>1. r.free_head = IF longer = <<>> THEN NoSlot ELSE longer[1]
    BY <1>2, <1>4
  <2>2. ASSUME NEW i \in 1 .. Len(longer)
        PROVE  /\ ~r.slot[longer[i]].live
               /\ r.slot[longer[i]].free_next
                    = IF i = Len(longer) THEN NoSlot ELSE longer[i + 1]
    <3>1. CASE i = 1
      <4>1. r.slot[longer[i]].free_next = IF q = <<>> THEN NoSlot ELSE q[1]
        BY <1>1, <1>2, <1>4, <3>1 DEF FreeList
      <4> QED BY <1>2, <1>4, <3>1, <4>1
    <3>2. CASE i # 1
      <4>1. i - 1 \in 1 .. Len(q) /\ longer[i] = q[i - 1] /\ r.slot[longer[i]] = arena.slot[q[i - 1]]
        BY <1>2, <1>3, <1>4, <3>2
      <4>2. /\ ~arena.slot[q[i - 1]].live
            /\ arena.slot[q[i - 1]].free_next
                 = IF i - 1 = Len(q) THEN NoSlot ELSE q[(i - 1) + 1]
        BY <1>1, <4>1 DEF FreeList
      <4> QED BY <1>4, <3>2, <4>1, <4>2
    <3> QED BY <3>1, <3>2
  <2>3. \A i, j \in 1 .. Len(longer) : longer[i] = longer[j] => i = j
    <3>1. \A i \in 2 .. Len(longer) : i - 1 \in 1 .. Len(q) /\ longer[i] = q[i - 1] /\ q[i - 1] # index
      BY <1>3, <1>4
    <3>2. \A i, j \in 1 .. Len(q) : q[i] = q[j] => i = j
      BY <1>1 DEF FreeList
    <3>3. ASSUME NEW i \in 1 .. Len(longer), NEW j \in 1 .. Len(longer), longer[i] = longer[j]
          PROVE  i = j
      <4>1. CASE i = 1 \/ j = 1
        BY <1>4, <3>1, <3>3, <4>1
      <4>2. CASE i # 1 /\ j # 1
        <5>1. i \in 2 .. Len(longer) /\ j \in 2 .. Len(longer)
          BY <4>2
        <5>2. i - 1 = j - 1
          BY <3>1, <3>2, <3>3, <5>1
        <5> QED BY <5>2
      <4> QED BY <4>1, <4>2
    <3> QED BY <3>3
  <2> QED BY <2>1, <2>2, <2>3 DEF FreeList
<1>6. \A s \in Slots : r.slot[s].live => r.slot[s].order \in Orders
  BY <1>2 DEF ArenaOK
<1> QED BY <1>4, <1>5, <1>6 DEF ArenaOK, r

\* The free list does not depend on what is left of the orders.
LEMMA ReducedList ==
  ASSUME NEW arena \in Arenas, NEW s \in Slots, arena.slot[s].live, ArenaOK(arena), NEW n \in Int
  PROVE  ArenaOK(reduced(arena, s, n))
<1> DEFINE r == reduced(arena, s, n)
<1>1. PICK q \in Seq(Slots) : FreeList(arena, q)
  BY DEF ArenaOK
<1>2. arena.slot[s].order \in Orders
  BY DEF ArenaOK
<1>3. /\ r.free_head = arena.free_head /\ r.slot[s].order \in Orders
      /\ \A other \in Slots : /\ r.slot[other].live = arena.slot[other].live
                              /\ r.slot[other].free_next = arena.slot[other].free_next
      /\ \A other \in Slots \ {s} : r.slot[other] = arena.slot[other]
  BY <1>2, ReducedShape
<1> HIDE DEF r
<1>4. FreeList(r, q)
  BY <1>1, <1>3 DEF FreeList
<1> QED BY <1>3, <1>4 DEF ArenaOK, r

-----------------------------------------------------------------------------
(* The gateway.                                                            *)

\* The number of the rate window does not fall as time goes on, and stays in the
\* range of those that are counted.
LEMMA BucketRises ==
  ASSUME NEW time \in Word, NEW later \in Word, time <= later
  PROVE  /\ time \div RateWindowSize <= later \div RateWindowSize
         /\ time \div RateWindowSize \in 0 .. MaxValue \div RateWindowSize
<1>1. \A a, b \in Nat : a <= b => /\ a \div RateWindowSize <= b \div RateWindowSize
                                  /\ a \div RateWindowSize \in Nat
  BY RateAssumption
<1> QED BY <1>1, WordAssumption DEF Word

\* The lane of the adapter is one of the gateway's, and a positive number of
\* orders may pass in a window.
LEMMA LaneAndLimit == 0 \in Lanes /\ Limit \in Nat \ {0}
BY RateAssumption DEF Lanes, Limit, at_least_one

\* The gateway lets an order of a new id through.
Admits(g, new, id, time) ==
  LET old == g.window[0]
      bucket == time \div RateWindowSize
  IN  /\ id \notin g.active /\ new.active = g.active \cup {id}
      /\ new.window[0].start = bucket
      /\ IF old.count = 0 \/ bucket # old.start THEN new.window[0].count = 1
         ELSE old.count < Limit /\ new.window[0].count = old.count + 1

\* validate() lets an order through or leaves the gateway as it is: a window that
\* has just begun is never full, so the rate check alone does not begin one.
LEMMA ValidateCases ==
  ASSUME NEW g \in Gateways, NEW id \in Word, NEW price, NEW quantity, NEW time \in Word
  PROVE  LET v == validate(g, 0, id, price, quantity, time)
         IN  /\ v.gateway \in Gateways
             /\ \/ v.reason # "none" /\ v.gateway = g
                \/ v.reason = "none" /\ Admits(g, v.gateway, id, time)
<1> DEFINE v == validate(g, 0, id, price, quantity, time)
           reason == refusal(g, 0, id, price, quantity)
           old == g.window[0]
           bucket == time \div RateWindowSize
           window == current_window(old, time)
<1>1. /\ g.active \in SUBSET Word /\ g.window \in [Lanes -> [start : Nat, count : Nat]]
      /\ old \in [start : Nat, count : Nat] /\ bucket \in Nat /\ 0 \in Lanes
      /\ Limit \in Nat \ {0}
  BY LaneAndLimit, BucketRises DEF Gateways, Word
<1>2. CASE reason # "none"
  BY <1>2 DEF validate
<1>3. CASE reason = "none" /\ rate_limit_exceeded(window)
  <2>1. v.reason = "rate_limited" /\ v.gateway = [g EXCEPT !.window[0] = window]
    BY <1>3 DEF validate
  <2>2. window.count >= Limit
    BY <1>3 DEF rate_limit_exceeded, Limit
  <2>3. window = old
    BY <1>1, <2>2 DEF current_window
  <2>4. [g EXCEPT !.window[0] = old] = g
    BY <1>1 DEF Gateways
  <2> QED BY <2>1, <2>3, <2>4
<1>4. CASE reason = "none" /\ ~rate_limit_exceeded(window)
  <2>1. window \in [start : Nat, count : Nat] /\ window.start = bucket /\ window.count < Limit
    BY <1>1, <1>4 DEF current_window, rate_limit_exceeded, Limit
  <2>2. window.count = IF old.count = 0 \/ bucket # old.start THEN 0 ELSE old.count
    BY <1>1 DEF current_window
  <2>3. id \notin g.active
    BY <1>4 DEF refusal
  <2> HIDE DEF window, reason
  <2> DEFINE counted == [window EXCEPT !.count = @ + 1]
  <2>4. /\ counted \in [start : Nat, count : Nat] /\ counted.start = bucket
        /\ counted.count = window.count + 1
    BY <2>1
  <2>5. v = [reason |-> "none",
             gateway |-> [active |-> g.active \cup {id},
                          window |-> [g.window EXCEPT ![0] = counted]]]
    BY <1>4 DEF validate, window, reason
  <2> HIDE DEF counted
  <2>6. v.reason = "none" /\ v.gateway \in Gateways /\ v.gateway.active = g.active \cup {id}
         /\ v.gateway.window[0] = counted
    BY <1>1, <2>4, <2>5 DEF Gateways
  <2>7. Admits(g, v.gateway, id, time)
    BY <1>1, <2>1, <2>2, <2>3, <2>4, <2>6 DEF Admits
  <2> QED BY <2>6, <2>7
<1> QED BY <1>2, <1>3, <1>4

\* Counting an order that the gateway lets through keeps the window and the
\* counts in step.
LEMMA WindowCounts ==
  ASSUME NEW g \in Gateways, NEW new \in Gateways, NEW id, NEW time \in Word,
         Admits(g, new, id, time),
         NEW counts \in [0 .. MaxValue \div RateWindowSize -> Nat],
         WindowOf(g.window[0], time, counts)
  PROVE  LET after == [counts EXCEPT ![time \div RateWindowSize] = @ + 1]
         IN  /\ after \in [0 .. MaxValue \div RateWindowSize -> Nat]
             /\ WindowOf(new.window[0], time, after)
<1> DEFINE bucket == time \div RateWindowSize
           last == MaxValue \div RateWindowSize
           after == [counts EXCEPT ![bucket] = @ + 1]
           old == g.window[0]
           window == new.window[0]
<1>1. /\ old \in [start : Nat, count : Nat] /\ window \in [start : Nat, count : Nat]
      /\ bucket \in 0 .. last /\ Limit \in Nat \ {0}
  <2>1. time <= time
    BY DEF Word
  <2> QED BY <2>1, LaneAndLimit, BucketRises DEF Gateways
<1>2. /\ after \in [0 .. last -> Nat] /\ after[bucket] = counts[bucket] + 1
      /\ \A w \in 0 .. last : w # bucket => after[w] = counts[w]
  BY <1>1
<1>3. /\ window.start = bucket /\ old.start <= bucket /\ old.count <= Limit
      /\ IF old.count = 0 \/ bucket # old.start THEN window.count = 1
         ELSE old.count < Limit /\ window.count = old.count + 1
  BY DEF Admits, WindowOf
<1>4. \A w \in 0 .. last : counts[w] \in Nat /\ counts[w] <= Limit /\ (w > old.start => counts[w] = 0)
  BY DEF WindowOf
<1>5. IF old.count = 0 THEN \A w \in 0 .. last : counts[w] = 0
      ELSE counts[old.start] = old.count
  BY DEF WindowOf
<1>6. counts[bucket] + 1 = window.count
  BY <1>1, <1>3, <1>4, <1>5
<1>7. window.count <= Limit /\ window.count # 0
  BY <1>1, <1>3
<1>8. \A w \in 0 .. last : after[w] <= Limit /\ (w > bucket => after[w] = 0)
  BY <1>1, <1>2, <1>3, <1>4, <1>6, <1>7
<1>9. DOMAIN after = 0 .. last
  BY <1>2
<1> HIDE DEF after
<1>10. WindowOf(window, time, after)
  BY <1>1, <1>2, <1>3, <1>6, <1>7, <1>8, <1>9 DEF WindowOf
<1> QED BY <1>2, <1>10 DEF after

-----------------------------------------------------------------------------
(* The adapter.                                                            *)

\* An entry of the table is a handle.
LEMMA TableEntry ==
  ASSUME NEW table \in Tables
  PROVE  DOMAIN table \in SUBSET Word /\ \A id \in DOMAIN table : table[id] \in Handles
BY DEF Tables

\* advance() yields a counter again, whose last logical time is the given one.
LEMMA AdvanceType ==
  ASSUME NEW counter \in Counters, NEW time \in Word
  PROVE  /\ advance(counter, time) \in Counters
         /\ advance(counter, time).last_logical_time = time
<1> DEFINE next == counter.next_sequence + 1
<1>1. next \in Nat
  BY DEF Counters
<1>2. advance(counter, time)
        = IF counter.next_sequence = MaxValue
          THEN [counter EXCEPT !.exhausted = TRUE, !.last_logical_time = time]
          ELSE [counter EXCEPT !.next_sequence = next, !.last_logical_time = time]
  BY DEF advance
<1> HIDE DEF next
<1> QED BY <1>1, <1>2 DEF Counters

\* The sequencer gave out this command.
Stamps(sequencer, command, time) ==
  /\ command \in SequencedCommands
  /\ command.logical_time = time
  /\ applicable(sequencer, command)

\* What stamped() returns: nothing, or the command and the sequencer past it.
LEMMA StampedCases ==
  ASSUME NEW a \in Adapters, NEW payload \in Payloads, NEW time \in Word
  PROVE  LET r == stamped(a, payload, time)
         IN  /\ r.adapter \in Adapters
             /\ r.adapter.handles = a.handles /\ r.adapter.gateway = a.gateway
             /\ \/ r.command = {} /\ r.adapter = a
                \/ /\ r.adapter.sequencer = advance(a.sequencer, time)
                   /\ r.adapter.previous = time
                   /\ \E command : /\ r.command = {command} /\ command.payload = payload
                                   /\ Stamps(a.sequencer, command, time)
<1> DEFINE r == stamped(a, payload, time)
           result == stamp(a.sequencer, payload, time)
           command == [payload |-> payload, sequence |-> a.sequencer.next_sequence,
                       logical_time |-> time]
           moved == advance(a.sequencer, time)
<1>1. a.sequencer \in Counters /\ moved \in Counters
  BY AdvanceType DEF Adapters
<1>2. CASE result.command = {}
  BY <1>2 DEF stamped, refused
<1>3. CASE result.command # {}
  <2>1. /\ validate_command_payload(payload) /\ ~a.sequencer.exhausted
        /\ ~(time < a.sequencer.last_logical_time)
        /\ result = [command |-> {command}, sequencer |-> moved]
    BY <1>3 DEF stamp
  <2>2. command \in SequencedCommands /\ command.payload = payload
    BY <1>1 DEF SequencedCommands, Counters
  <2>3. applicable(a.sequencer, command)
    BY <1>1, <2>1 DEF applicable, Counters, Word
  <2>4. Stamps(a.sequencer, command, time)
    BY <2>2, <2>3 DEF Stamps
  <2> DEFINE past == [a EXCEPT !.sequencer = moved, !.previous = time]
  <2>5. r.adapter = past /\ r.command = {command}
    BY <1>3, <2>1 DEF stamped
  <2> HIDE DEF moved, command, r
  <2>6. /\ past \in Adapters /\ past.handles = a.handles /\ past.gateway = a.gateway
        /\ past.sequencer = moved /\ past.previous = time
    BY <1>1 DEF Adapters
  <2> HIDE DEF past
  <2> QED BY <2>2, <2>4, <2>5, <2>6 DEF moved, r
<1> QED BY <1>2, <1>3

\* The constructors of Commands yield payloads with the tag they are named for.
LEMMA PayloadTypes ==
  /\ \A handle \in Handles, quantity \in Word :
       /\ cancel(handle) \in Payloads /\ cancel(handle).tag = "cancel"
       /\ amend_quantity(handle, quantity) \in Payloads
       /\ amend_quantity(handle, quantity).tag = "amend_quantity"
  /\ \A id, quantity \in Word, side \in FrameSides, price \in Int :
       /\ submit_limit(id, side, price, quantity) \in Payloads
       /\ submit_limit(id, side, price, quantity).order_id = id
<1>1. 0 \in Word /\ 0 \in Int /\ ZeroHandle \in Handles \cup {ZeroHandle} /\ "buy" \in FrameSides
  BY WordAssumption DEF Word, FrameSides
<1>2. ASSUME NEW handle \in Handles
      PROVE  cancel(handle) \in Payloads /\ cancel(handle).tag = "cancel"
  BY <1>1 DEF cancel, ZeroPayload, Payloads
<1>3. ASSUME NEW handle \in Handles, NEW quantity \in Word
      PROVE  /\ amend_quantity(handle, quantity) \in Payloads
             /\ amend_quantity(handle, quantity).tag = "amend_quantity"
  BY <1>1 DEF amend_quantity, ZeroPayload, Payloads
<1>4. ASSUME NEW id \in Word, NEW quantity \in Word, NEW side \in FrameSides, NEW price \in Int
      PROVE  /\ submit_limit(id, side, price, quantity) \in Payloads
             /\ submit_limit(id, side, price, quantity).order_id = id
  BY <1>1 DEF submit_limit, ZeroPayload, Payloads
<1> QED BY <1>2, <1>3, <1>4

\* What adapt() does with a message: the gateway is as before or lets the order
\* of the message through; the sequencer is as before or stamps the command of
\* the message, which comes right after the one stamped before it.
Adapts(a, message, r) ==
  /\ r.adapter \in Adapters /\ r.adapter.handles = a.handles
  /\ \/ r.adapter.gateway = a.gateway
     \/ Admits(a.gateway, r.adapter.gateway, message.order_id, message.sequence)
  /\ \/ /\ r.command = {}
        /\ r.adapter.sequencer = a.sequencer /\ r.adapter.previous = a.previous
     \/ /\ r.adapter.sequencer = advance(a.sequencer, message.sequence)
        /\ r.adapter.previous = message.sequence
        /\ a.previous # 0 => message.sequence = a.previous + 1
        /\ \E command :
             /\ r.command = {command} /\ Stamps(a.sequencer, command, message.sequence)
             /\ command.payload.tag = "submit_limit" =>
                  /\ Admits(a.gateway, r.adapter.gateway, message.order_id, message.sequence)
                  /\ command.payload.order_id = message.order_id

\* adapt_message() keeps to Adapts, whichever of its returns it takes.
LEMMA AdaptCases ==
  ASSUME NEW a \in Adapters, NEW message \in Frames
  PROVE  Adapts(a, message, adapt_message(a, message))
<1> DEFINE r == adapt_message(a, message)
           id == message.order_id
           time == message.sequence
           checked == validate(a.gateway, 0, id, message.price, message.quantity, time)
           recorded == [a EXCEPT !.gateway = checked.gateway]
           limit == submit_limit(id, message.side, message.price, message.quantity)
           change == IF message.type = "delete_order" THEN cancel(a.handles[id])
                     ELSE amend_quantity(a.handles[id], message.quantity)
<1>1. /\ a.gateway \in Gateways /\ a.handles \in Tables /\ id \in Word /\ time \in Word
      /\ message.side \in FrameSides /\ message.price \in Int /\ message.quantity \in Word
  BY DEF Adapters, Frames
<1>2. /\ checked.gateway \in Gateways
      /\ \/ checked.reason # "none" /\ checked.gateway = a.gateway
         \/ checked.reason = "none" /\ Admits(a.gateway, checked.gateway, id, time)
  BY <1>1, ValidateCases
<1> HIDE DEF checked
<1>3. /\ recorded \in Adapters /\ recorded.gateway = checked.gateway
      /\ recorded.handles = a.handles /\ recorded.sequencer = a.sequencer
      /\ recorded.previous = a.previous
  BY <1>2 DEF Adapters
<1> HIDE DEF recorded
<1>4. ASSUME r = refused(a)
      PROVE  Adapts(a, message, r)
  BY <1>4 DEF refused, Adapts
<1>5. ASSUME r = refused(recorded)
      PROVE  Adapts(a, message, r)
  BY <1>2, <1>3, <1>5 DEF refused, Adapts
<1>6. ASSUME validate_market_data_sequence(a.previous, message)
      PROVE  a.previous # 0 => time = a.previous + 1
  BY <1>6 DEF validate_market_data_sequence
<1>7. ASSUME checked.reason = "none", r = stamped(recorded, limit, time),
             validate_market_data_sequence(a.previous, message)
      PROVE  Adapts(a, message, r)
  <2>1. limit \in Payloads /\ limit.order_id = id
    BY <1>1, PayloadTypes
  <2> HIDE DEF limit, r
  <2>2. /\ r.adapter \in Adapters
        /\ r.adapter.handles = recorded.handles /\ r.adapter.gateway = recorded.gateway
        /\ \/ r.command = {} /\ r.adapter = recorded
           \/ /\ r.adapter.sequencer = advance(recorded.sequencer, time)
              /\ r.adapter.previous = time
              /\ \E command : /\ r.command = {command} /\ command.payload = limit
                              /\ Stamps(recorded.sequencer, command, time)
    BY <1>1, <1>3, <1>7, <2>1, StampedCases
  <2>3. Admits(a.gateway, r.adapter.gateway, id, time)
    BY <1>2, <1>3, <1>7, <2>2
  <2> QED BY <1>3, <1>6, <1>7, <2>1, <2>2, <2>3 DEF Adapts
<1>8. ASSUME id \in DOMAIN a.handles, r = stamped(a, change, time),
             validate_market_data_sequence(a.previous, message)
      PROVE  Adapts(a, message, r)
  <2>1. change \in Payloads /\ change.tag # "submit_limit"
    BY <1>1, <1>8, PayloadTypes, TableEntry
  <2> HIDE DEF change, r
  <2>2. /\ r.adapter \in Adapters
        /\ r.adapter.handles = a.handles /\ r.adapter.gateway = a.gateway
        /\ \/ r.command = {} /\ r.adapter = a
           \/ /\ r.adapter.sequencer = advance(a.sequencer, time)
              /\ r.adapter.previous = time
              /\ \E command : /\ r.command = {command} /\ command.payload = change
                              /\ Stamps(a.sequencer, command, time)
    BY <1>1, <1>8, <2>1, StampedCases
  <2> QED BY <1>6, <1>8, <2>1, <2>2 DEF Adapts
<1>9. \/ r = refused(a)
      \/ r = refused(recorded)
      \/ /\ checked.reason = "none" /\ r = stamped(recorded, limit, time)
         /\ validate_market_data_sequence(a.previous, message)
      \/ /\ id \in DOMAIN a.handles /\ r = stamped(a, change, time)
         /\ validate_market_data_sequence(a.previous, message)
  BY DEF adapt_message, checked, recorded
<1> QED BY <1>4, <1>5, <1>7, <1>8, <1>9

-----------------------------------------------------------------------------
(* What the adapter knows.                                                 *)

\* Every order that is live in r is the same order in the arena.
Fewer(arena, r) ==
  \A s \in Live(r) : /\ s \in Live(arena)
                     /\ r.slot[s].order.id = arena.slot[s].order.id
                     /\ r.slot[s].generation = arena.slot[s].generation

\* An adapter that knows every live order of an arena knows those of one with fewer.
LEMMA FewerKnown ==
  ASSUME NEW arena, NEW r, Fewer(arena, r), NEW a, KnowsAll(a, arena)
  PROVE  KnowsAll(a, r) /\ \A id : Fresh(arena, id) => Fresh(r, id)
BY DEF Fewer, KnowsAll, Knows, Fresh, handle_at

\* Releasing a handle takes its order away and disturbs no other.
LEMMA ReleaseFewer ==
  ASSUME NEW arena \in Arenas, NEW handle, is_live_handle(arena, handle)
  PROVE  Fewer(arena, release(arena, handle)) /\ handle.index \notin Live(release(arena, handle))
<1> DEFINE r == release(arena, handle)
<1>1. /\ handle.index \in Slots /\ ~r.slot[handle.index].live
      /\ \A s \in Slots \ {handle.index} : r.slot[s] = arena.slot[s]
  BY ReleaseShape
<1> HIDE DEF r
<1>2. \A s \in Live(r) : s \in Slots \ {handle.index}
  BY <1>1 DEF Live
<1> QED BY <1>1, <1>2 DEF Fewer, Live, r

\* Taking quantity from an order leaves every live order its id and generation.
LEMMA ReducedFewer ==
  ASSUME NEW arena \in Arenas, ArenaOK(arena), NEW s \in Live(arena), NEW n \in Int
  PROVE  Fewer(arena, reduced(arena, s, n))
<1> DEFINE r == reduced(arena, s, n)
<1>1. s \in Slots /\ arena.slot[s].order \in Orders
  BY DEF Live, ArenaOK
<1>2. /\ \A other \in Slots \ {s} : r.slot[other] = arena.slot[other]
      /\ r.slot[s].live = arena.slot[s].live
      /\ r.slot[s].generation = arena.slot[s].generation
      /\ r.slot[s].order.id = arena.slot[s].order.id
  BY <1>1, ReducedShape
<1> HIDE DEF r
<1> QED BY <1>1, <1>2 DEF Fewer, Live, r

\* forget() and remember() change the table and the ids in use, and nothing else.
LEMMA ForgetShape ==
  ASSUME NEW a \in Adapters, NEW id
  PROVE  LET r == forget(a, id)
         IN  /\ r \in Adapters /\ r.sequencer = a.sequencer /\ r.previous = a.previous
             /\ r.gateway.window = a.gateway.window
             /\ r.gateway.active = a.gateway.active \ {id}
             /\ DOMAIN r.handles = DOMAIN a.handles \ {id}
             /\ \A i \in DOMAIN a.handles \ {id} : r.handles[i] = a.handles[i]
<1> DEFINE r == forget(a, id)
           table == Restrict(a.handles, DOMAIN a.handles \ {id})
           gateway == release_id(a.gateway, id)
<1>1. a.handles \in Tables /\ a.gateway \in Gateways
  BY DEF Adapters
<1>2. /\ table \in Tables /\ DOMAIN table = DOMAIN a.handles \ {id}
      /\ \A i \in DOMAIN a.handles \ {id} : table[i] = a.handles[i]
  <2>1. DOMAIN a.handles \in SUBSET Word /\ \A i \in DOMAIN a.handles : a.handles[i] \in Handles
    BY <1>1, TableEntry
  <2>2. table = [i \in DOMAIN a.handles \ {id} |-> a.handles[i]]
    BY DEF Restrict
  <2>3. table \in [DOMAIN a.handles \ {id} -> Handles] /\ DOMAIN a.handles \ {id} \in SUBSET Word
    BY <2>1, <2>2
  <2> QED BY <2>2, <2>3 DEF Tables
<1>3. /\ gateway \in Gateways /\ gateway.window = a.gateway.window
      /\ gateway.active = a.gateway.active \ {id}
  BY <1>1 DEF release_id, Gateways
<1>4. r = [a EXCEPT !.handles = table, !.gateway = gateway]
  BY DEF forget
<1> HIDE DEF table, gateway
<1> QED BY <1>2, <1>3, <1>4 DEF Adapters

\* remember() sets the handle of one id and changes nothing else.
LEMMA RememberShape ==
  ASSUME NEW a \in Adapters, NEW id \in Word, NEW handle \in Handles
  PROVE  LET r == remember(a, id, handle)
         IN  /\ r \in Adapters /\ r.sequencer = a.sequencer /\ r.previous = a.previous
             /\ r.gateway = a.gateway
             /\ DOMAIN r.handles = DOMAIN a.handles \cup {id}
             /\ r.handles[id] = handle
             /\ \A i \in DOMAIN a.handles \ {id} : r.handles[i] = a.handles[i]
<1> DEFINE r == remember(a, id, handle)
           ids == DOMAIN a.handles \cup {id}
           table == [i \in ids |-> IF i = id THEN handle ELSE a.handles[i]]
<1>1. DOMAIN a.handles \in SUBSET Word /\ \A i \in DOMAIN a.handles : a.handles[i] \in Handles
  BY TableEntry DEF Adapters
<1>2. /\ table \in Tables /\ DOMAIN table = ids /\ table[id] = handle
      /\ \A i \in DOMAIN a.handles \ {id} : table[i] = a.handles[i]
  <2>1. table \in [ids -> Handles] /\ ids \in SUBSET Word
    BY <1>1
  <2> QED BY <2>1 DEF Tables
<1>3. r = [a EXCEPT !.handles = table]
  BY DEF remember
<1> HIDE DEF table
<1> QED BY <1>2, <1>3 DEF Adapters

\* When the adapter has recorded the event in line it knows every live order.
LEMMA RecordKnows ==
  ASSUME NEW a \in Adapters, NEW arena \in Arenas, NEW e \in Events, Pending(a, arena, e)
  PROVE  LET r == record_event(a, e)
         IN  /\ r \in Adapters /\ r.sequencer = a.sequencer /\ r.previous = a.previous
             /\ r.gateway.window = a.gateway.window
             /\ KnowsAll(r, arena)
<1> DEFINE r == record_event(a, e)
<1>1. CASE e.type = "submit_result" /\ e.handle # {}
  <2>1. PICK s \in Live(arena) :
          /\ e.handle = {handle_at(arena, s)}
          /\ arena.slot[s].order.id = e.order_id /\ e.order_id \in a.gateway.active
          /\ \A other \in Live(arena) \ {s} :
               Knows(a, arena, other) /\ arena.slot[other].order.id # e.order_id
    BY <1>1 DEF Pending
  <2>2. handle_at(arena, s) \in Handles /\ e.order_id \in Word
    BY DEF Live, handle_at, Arenas, Entries, Handles, Events
  <2>3. r = remember(a, e.order_id, handle_at(arena, s))
    <3>1. (CHOOSE handle \in e.handle : TRUE) = handle_at(arena, s)
      BY <2>1
    <3> QED BY <1>1, <3>1 DEF record_event
  <2> HIDE DEF r
  <2>4. /\ r \in Adapters /\ r.sequencer = a.sequencer /\ r.previous = a.previous
        /\ r.gateway = a.gateway /\ DOMAIN r.handles = DOMAIN a.handles \cup {e.order_id}
        /\ r.handles[e.order_id] = handle_at(arena, s)
        /\ \A i \in DOMAIN a.handles \ {e.order_id} : r.handles[i] = a.handles[i]
    BY <2>2, <2>3, RememberShape
  <2>5. Knows(r, arena, s)
    BY <2>1, <2>4 DEF Knows
  <2>6. \A other \in Live(arena) \ {s} : Knows(r, arena, other)
    BY <2>1, <2>4 DEF Knows
  <2> QED BY <2>4, <2>5, <2>6 DEF KnowsAll, r
<1>2. CASE \/ e.type = "submit_result" /\ e.handle = {}
           \/ e.type = "cancel_result" /\ e.accepted
  <2>1. KnowsAll(a, arena) /\ Fresh(arena, e.order_id)
    BY <1>2 DEF Pending
  <2>2. r = a \/ r = forget(a, e.order_id)
    BY <1>2 DEF record_event
  <2>3. CASE r = a
    BY <2>1, <2>3
  <2>4. CASE r = forget(a, e.order_id)
    <3> HIDE DEF r
    <3>1. /\ r \in Adapters /\ r.sequencer = a.sequencer /\ r.previous = a.previous
          /\ r.gateway.window = a.gateway.window
          /\ r.gateway.active = a.gateway.active \ {e.order_id}
          /\ DOMAIN r.handles = DOMAIN a.handles \ {e.order_id}
          /\ \A i \in DOMAIN a.handles \ {e.order_id} : r.handles[i] = a.handles[i]
      BY <2>4, ForgetShape
    <3>2. KnowsAll(r, arena)
      BY <2>1, <3>1 DEF KnowsAll, Knows, Fresh
    <3> QED BY <3>1, <3>2 DEF r
  <2> QED BY <2>2, <2>3, <2>4
<1>3. CASE \/ e.type \in {"trade", "amend_result"}
           \/ e.type = "cancel_result" /\ ~e.accepted
  BY <1>3 DEF Pending, record_event
<1> QED BY <1>1, <1>2, <1>3 DEF Pending

-----------------------------------------------------------------------------
(* The steps.                                                              *)

\* A step outside the adapter and the engine preserves the invariant: reading,
\* stopping, and calling again.
LEMMA OutsideInv ==
  ASSUME Inv, UNCHANGED <<adapter, engine, admitted>>,
         replay.phase \notin {"apply", "book", "record"},
         replay' \in Replays, replay'.error # "apply",
         replay'.phase \in {"read", "adapt", "failed", "done"},
         replay'.phase \in {"read", "adapt"} => replay'.events = <<>>,
         replay'.phase = "adapt" => replay'.message.sequence = input'.previous,
         input' \in [previous : Word, ended : BOOLEAN], input.previous <= input'.previous
  PROVE  Inv'
<1>1. TypeOK'
  BY DEF Inv, TypeOK
<1>2. SequenceInv'
  BY DEF Inv, SequenceInv
<1>3. RateInv'
  <2> DEFINE window == adapter.gateway.window[0]
             earlier == input.previous \div RateWindowSize
             now == input'.previous \div RateWindowSize
  <2>1. WindowOf(window, input.previous, admitted) /\ window.start \in Nat
    BY LaneAndLimit DEF Inv, RateInv, TypeOK, Adapters, Gateways
  <2>2. earlier <= now /\ earlier \in Nat /\ now \in Nat
    <3>1. /\ input.previous \in Word /\ input'.previous \in Word
          /\ input'.previous <= input'.previous
      BY DEF Inv, TypeOK, Word
    <3> QED BY <3>1, BucketRises
  <2>3. WindowOf(window, input'.previous, admitted)
    <3> HIDE DEF window
    <3> QED BY <2>1, <2>2 DEF WindowOf
  <2> QED BY <2>3 DEF RateInv
<1>4. ArenaOK(engine'.arena)
  BY DEF Inv
<1>5. KnownInv'
  BY DEF Inv, KnownInv
<1> QED BY <1>1, <1>2, <1>3, <1>4, <1>5 DEF Inv

\* The states the loop falls back to.
LEMMA IdleReplays ==
  /\ NoMessage \in Replays
  /\ \A error \in {"none", "input", "adapter", "apply"} :
       [NoMessage EXCEPT !.phase = "failed", !.error = error] \in Replays
<1>1. 0 \in Word /\ 0 \in Int /\ 0 \in Nat /\ ProtocolVersion \in Nat
  BY WordAssumption DEF Word, ProtocolVersion
<1>2. ZeroFrame \in Frames
  BY <1>1 DEF ZeroFrame, Frames, FrameTypes, FrameSides
<1>3. <<>> \in Seq(Events) /\ {} \in SUBSET SequencedCommands
  OBVIOUS
<1> QED BY <1>1, <1>2, <1>3 DEF NoMessage, Replays, Phases

\* Reading a frame keeps the invariant, whether it decodes or not.
LEMMA ReadNextInv ==
  ASSUME Inv, NEW frame \in Frames, read_next(frame)
  PROVE  Inv'
<1>1. /\ replay.phase = "read" /\ UNCHANGED <<adapter, engine, admitted>>
      /\ replay \in Replays /\ replay.events = <<>> /\ replay.error # "apply"
      /\ input \in [previous : Word, ended : BOOLEAN] /\ frame.sequence \in Word
  BY DEF read_next, Inv, TypeOK, KnownInv, SequenceInv, Frames
<1>2. CASE fail("input") /\ UNCHANGED input
  <2>1. /\ replay' \in Replays /\ replay'.error = "input" /\ replay'.phase = "failed"
    BY <1>2, IdleReplays DEF fail, NoMessage
  <2>2. input.previous <= input'.previous
    BY <1>1, <1>2 DEF Word
  <2> QED BY <1>1, <1>2, <2>1, <2>2, OutsideInv
<1>3. CASE /\ validate_market_data_sequence(input.previous, frame)
           /\ input' = [input EXCEPT !.previous = frame.sequence]
           /\ replay' = [replay EXCEPT !.phase = "adapt", !.message = frame]
  <2>1. /\ input' \in [previous : Word, ended : BOOLEAN] /\ input'.previous = frame.sequence
        /\ input.previous <= input'.previous
    BY <1>1, <1>3 DEF validate_market_data_sequence, Word
  <2>2. /\ replay' \in Replays /\ replay'.error = replay.error /\ replay'.phase = "adapt"
        /\ replay'.events = replay.events /\ replay'.message = frame
    BY <1>1, <1>3 DEF Replays, Phases
  <2> QED BY <1>1, <2>1, <2>2, OutsideInv
<1> QED BY <1>2, <1>3 DEF read_next, decode_market_data_frame

\* A truncated frame at the end of the input keeps the invariant.
LEMMA ReadTruncatedInv ==
  ASSUME Inv, read_truncated
  PROVE  Inv'
<1>1. /\ replay.phase = "read" /\ UNCHANGED <<adapter, engine, admitted>>
      /\ input \in [previous : Word, ended : BOOLEAN]
      /\ input' = [input EXCEPT !.ended = TRUE] /\ fail("input")
  BY DEF read_truncated, Inv, TypeOK
<1>2. /\ input' \in [previous : Word, ended : BOOLEAN] /\ input.previous <= input'.previous
  <2>1. input' \in [previous : Word, ended : BOOLEAN] /\ input'.previous = input.previous
    BY <1>1
  <2>2. input.previous <= input.previous
    BY <1>1 DEF Word
  <2> QED BY <2>1, <2>2
<1>3. replay' \in Replays /\ replay'.error = "input" /\ replay'.phase = "failed"
  BY <1>1, IdleReplays DEF fail, NoMessage
<1> QED BY <1>1, <1>2, <1>3, OutsideInv

\* The end of the input keeps the invariant.
LEMMA ReadEndInv ==
  ASSUME Inv, read_end
  PROVE  Inv'
<1>1. /\ replay.phase = "read" /\ UNCHANGED <<adapter, engine, admitted>>
      /\ input \in [previous : Word, ended : BOOLEAN] /\ replay \in Replays
      /\ replay.error # "apply"
      /\ input' = [input EXCEPT !.ended = TRUE]
      /\ replay' = [replay EXCEPT !.phase = "done"]
  BY DEF read_end, Inv, TypeOK, SequenceInv
<1>2. /\ input' \in [previous : Word, ended : BOOLEAN] /\ input.previous <= input'.previous
  <2>1. input' \in [previous : Word, ended : BOOLEAN] /\ input'.previous = input.previous
    BY <1>1
  <2>2. input.previous <= input.previous
    BY <1>1 DEF Word
  <2> QED BY <2>1, <2>2
<1>3. replay' \in Replays /\ replay'.error = replay.error /\ replay'.phase = "done"
  BY <1>1 DEF Replays, Phases
<1> QED BY <1>1, <1>2, <1>3, OutsideInv

\* Going on after an error keeps the invariant.
LEMMA ReplayAgainInv ==
  ASSUME Inv, replay_again
  PROVE  Inv'
<1>1. /\ replay.phase = "failed" /\ replay' = NoMessage
      /\ UNCHANGED <<input, adapter, engine, admitted>>
      /\ input \in [previous : Word, ended : BOOLEAN]
  BY DEF replay_again, Inv, TypeOK
<1>2. input.previous <= input'.previous
  BY <1>1 DEF Word
<1>3. /\ replay' \in Replays /\ replay'.error = "none" /\ replay'.phase = "read"
      /\ replay'.events = <<>>
  BY <1>1, IdleReplays DEF NoMessage
<1> QED BY <1>1, <1>2, <1>3, OutsideInv

\* adapt() lets the gateway count the order and stamps its command, or refuses
\* the message.
LEMMA AdaptInv ==
  ASSUME Inv, adapt
  PROVE  Inv'
<1> DEFINE message == replay.message
           result == adapt_message(adapter, message)
           bucket == message.sequence \div RateWindowSize
<1>1. /\ replay.phase = "adapt" /\ adapter \in Adapters /\ replay \in Replays
      /\ message \in Frames /\ message.sequence \in Word /\ message.order_id \in Word
      /\ message.sequence = input.previous /\ adapter.gateway \in Gateways
      /\ replay.events = <<>> /\ replay.error # "apply"
      /\ adapter.sequencer = engine.counter
      /\ adapter.previous = adapter.sequencer.last_logical_time
  BY DEF adapt, Inv, TypeOK, Replays, Frames, Adapters, RateInv, KnownInv, SequenceInv
<1>2. /\ adapter' = result.adapter /\ UNCHANGED <<input, engine>>
      /\ admitted' = IF result.adapter.gateway.active = adapter.gateway.active THEN admitted
                     ELSE [admitted EXCEPT ![bucket] = @ + 1]
      /\ IF result.command = {} THEN fail("adapter")
         ELSE replay' = [replay EXCEPT !.phase = "apply", !.command = result.command]
  BY DEF adapt
<1>3. Adapts(adapter, message, result)
  BY <1>1, AdaptCases
<1> HIDE DEF message, result
<1>4. adapter' \in Adapters /\ adapter'.handles = adapter.handles /\ adapter'.gateway \in Gateways
  BY <1>2, <1>3 DEF Adapts, Adapters
<1>5. \/ adapter'.gateway = adapter.gateway /\ admitted' = admitted
      \/ /\ Admits(adapter.gateway, adapter'.gateway, message.order_id, message.sequence)
         /\ admitted' = [admitted EXCEPT ![bucket] = @ + 1]
  BY <1>2, <1>3 DEF Adapts, Admits
<1>6. /\ admitted' \in [0 .. MaxValue \div RateWindowSize -> Nat]
      /\ WindowOf(adapter'.gateway.window[0], message.sequence, admitted')
  <2>1. /\ admitted \in [0 .. MaxValue \div RateWindowSize -> Nat]
        /\ WindowOf(adapter.gateway.window[0], message.sequence, admitted)
    BY <1>1 DEF Inv, TypeOK, RateInv
  <2>2. CASE adapter'.gateway = adapter.gateway /\ admitted' = admitted
    BY <2>1, <2>2
  <2>3. CASE /\ Admits(adapter.gateway, adapter'.gateway, message.order_id, message.sequence)
             /\ admitted' = [admitted EXCEPT ![bucket] = @ + 1]
    BY <1>1, <1>4, <2>1, <2>3, WindowCounts
  <2> QED BY <1>5, <2>2, <2>3
<1>7. /\ adapter.gateway.active \subseteq adapter'.gateway.active
      /\ KnowsAll(adapter, engine.arena) /\ KnowsAll(adapter', engine.arena)
  <2>1. adapter.gateway.active \subseteq adapter'.gateway.active
    BY <1>5 DEF Admits
  <2>2. KnowsAll(adapter, engine.arena)
    BY <1>1 DEF Inv, KnownInv
  <2> QED BY <1>4, <2>1, <2>2 DEF KnowsAll, Knows
<1>8. engine' = engine /\ input' = input
  BY <1>2
<1>9. CASE result.command = {}
  <2>1. /\ replay' \in Replays /\ replay'.phase = "failed" /\ replay'.error = "adapter"
    BY <1>2, <1>9, IdleReplays DEF fail, NoMessage
  <2>2. adapter'.sequencer = adapter.sequencer /\ adapter'.previous = adapter.previous
    BY <1>2, <1>3, <1>9 DEF Adapts
  <2>3. TypeOK'
    BY <1>4, <1>6, <1>8, <2>1 DEF Inv, TypeOK
  <2>4. SequenceInv'
    BY <1>1, <1>8, <2>1, <2>2 DEF SequenceInv
  <2>5. RateInv' /\ KnownInv'
    BY <1>1, <1>6, <1>7, <1>8, <2>1 DEF RateInv, KnownInv
  <2> QED BY <1>8, <2>3, <2>4, <2>5 DEF Inv
<1>10. CASE result.command # {}
  <2>1. PICK command :
          /\ result.command = {command} /\ Stamps(adapter.sequencer, command, message.sequence)
          /\ command.payload.tag = "submit_limit" =>
               /\ Admits(adapter.gateway, adapter'.gateway, message.order_id, message.sequence)
               /\ command.payload.order_id = message.order_id
    BY <1>2, <1>3, <1>10 DEF Adapts
  <2>2. /\ adapter'.sequencer = advance(adapter.sequencer, message.sequence)
        /\ adapter'.previous = message.sequence
        /\ adapter.previous # 0 => message.sequence = adapter.previous + 1
    BY <1>2, <1>3, <1>10 DEF Adapts
  <2>3. /\ command \in SequencedCommands /\ command.logical_time = message.sequence
        /\ applicable(engine.counter, command)
    BY <1>1, <2>1 DEF Stamps
  <2>4. /\ replay' \in Replays /\ replay'.phase = "apply" /\ replay'.command = {command}
        /\ replay'.error = replay.error /\ replay'.events = replay.events
    BY <1>1, <1>2, <1>10, <2>1, <2>3 DEF Replays, Phases
  <2>5. TypeOK'
    BY <1>4, <1>6, <1>8, <2>4 DEF Inv, TypeOK
  <2>6. adapter'.sequencer.last_logical_time = message.sequence
    BY <1>1, <2>2, AdvanceType DEF Adapters
  <2>7. SequenceInv'
    BY <1>1, <1>8, <2>2, <2>3, <2>4, <2>6 DEF SequenceInv
  <2>8. RateInv'
    BY <1>1, <1>6, <1>8, <2>4 DEF RateInv
  <2>9. command.payload.tag = "submit_limit" =>
          /\ Fresh(engine.arena, command.payload.order_id)
          /\ command.payload.order_id \in adapter'.gateway.active
    BY <1>7, <2>1 DEF Admits, Fresh, KnowsAll, Knows
  <2>10. KnownInv'
    BY <1>1, <1>7, <1>8, <2>4, <2>9 DEF KnownInv
  <2> QED BY <1>8, <2>5, <2>7, <2>8, <2>10 DEF Inv
<1> QED BY <1>9, <1>10

\* apply() does not refuse a command that the adapter has stamped.
LEMMA ApplyInv ==
  ASSUME Inv, NEW command \in replay.command, apply(command)
  PROVE  Inv'
<1>1. /\ replay.phase = "apply" /\ UNCHANGED <<input, adapter, engine, admitted>>
      /\ replay \in Replays /\ replay.events = <<>>
  BY DEF apply, Inv, TypeOK, KnownInv
<1>2. /\ applicable(engine.counter, command) /\ command.payload.quantity \in Word
  BY <1>1 DEF Inv, SequenceInv, TypeOK, Replays, SequencedCommands, Payloads
<1>3. /\ replay' = [replay EXCEPT !.phase = "book", !.remaining = command.payload.quantity]
      /\ command.payload.quantity \in Int
  BY <1>2 DEF apply, Word
<1>4. /\ replay' \in Replays /\ replay'.phase = "book" /\ replay'.command = replay.command
      /\ replay'.error = replay.error /\ replay'.events = replay.events
  BY <1>1, <1>3 DEF Replays, Phases
<1>5. TypeOK'
  BY <1>1, <1>4 DEF Inv, TypeOK
<1>6. SequenceInv'
  BY <1>1, <1>4 DEF Inv, SequenceInv
<1>7. RateInv'
  BY <1>1, <1>4 DEF Inv, RateInv
<1>8. KnownInv'
  <2>1. /\ KnowsAll(adapter, engine.arena) /\ replay.events = <<>>
        /\ \A other \in replay.command : other.payload.tag = "submit_limit" =>
             /\ Fresh(engine.arena, other.payload.order_id)
             /\ other.payload.order_id \in adapter.gateway.active
    BY <1>1 DEF Inv, KnownInv
  <2>2. replay'.events = <<>> /\ \A i \in 1 .. Len(replay'.events) : FALSE
    BY <1>4, <2>1
  <2> QED BY <1>1, <1>4, <2>1, <2>2 DEF KnownInv
<1>9. ArenaOK(engine'.arena)
  BY <1>1 DEF Inv
<1> QED BY <1>5, <1>6, <1>7, <1>8, <1>9 DEF Inv

-----------------------------------------------------------------------------
(* The steps of the book.                                                  *)

\* What the invariant says of a command that the book works on.
LEMMA InBook ==
  ASSUME Inv, NEW command \in replay.command, replay.phase = "book"
  PROVE  /\ engine \in [arena : Arenas, counter : Counters]
         /\ engine.arena \in Arenas /\ engine.counter \in Counters /\ ArenaOK(engine.arena)
         /\ replay \in Replays /\ replay.remaining \in Int /\ replay.events \in Seq(Events)
         /\ command \in SequencedCommands /\ command.payload \in Payloads
         /\ command.payload.order_id \in Word /\ command.payload.side \in FrameSides
         /\ KnowsAll(adapter, engine.arena)
         /\ \A i \in 1 .. Len(replay.events) : replay.events[i].type = "trade"
         /\ command.payload.tag = "submit_limit" =>
              /\ Fresh(engine.arena, command.payload.order_id)
              /\ command.payload.order_id \in adapter.gateway.active
BY DEF Inv, TypeOK, Replays, SequencedCommands, Payloads, KnownInv

\* apply() returns with the sequencer and the engine in step again; it remains
\* to see that the first event tells the adapter what it has to know.
LEMMA AppliedInv ==
  ASSUME Inv, NEW command \in replay.command, replay.phase = "book",
         NEW arena \in Arenas, ArenaOK(arena), NEW events \in Seq(Events), events # <<>>,
         applied(command, arena, events), Pending(adapter, arena, events[1]),
         \A i \in 2 .. Len(events) : events[i].type = "trade"
  PROVE  Inv'
<1> DEFINE moved == advance(engine.counter, command.logical_time)
<1>1. /\ engine' = [arena |-> arena, counter |-> moved]
      /\ replay' = [replay EXCEPT !.phase = "record", !.events = events]
      /\ UNCHANGED <<input, adapter, admitted>>
  BY DEF applied
<1>2. /\ replay' \in Replays /\ replay'.phase = "record" /\ replay'.events = events
      /\ replay'.error = replay.error
  BY <1>1, InBook DEF Replays, Phases
<1>3. moved \in Counters
  <2>1. command.logical_time \in Word /\ engine.counter \in Counters
    BY InBook DEF SequencedCommands
  <2> QED BY <2>1, AdvanceType
<1>4. adapter.sequencer = moved
  BY DEF Inv, SequenceInv
<1> HIDE DEF moved
<1>5. engine'.arena = arena /\ engine'.counter = moved
       /\ engine' \in [arena : Arenas, counter : Counters]
  BY <1>1, <1>3
<1>6. TypeOK'
  BY <1>1, <1>2, <1>5 DEF Inv, TypeOK
<1>7. SequenceInv'
  BY <1>1, <1>2, <1>4, <1>5 DEF Inv, SequenceInv
<1>8. RateInv'
  BY <1>1, <1>2 DEF Inv, RateInv
<1>9. KnownInv'
  BY <1>1, <1>2, <1>5 DEF KnownInv
<1> QED BY <1>5, <1>6, <1>7, <1>8, <1>9 DEF Inv

\* A step that answers with one event.
LEMMA OneEvent ==
  ASSUME Inv, NEW command \in replay.command, replay.phase = "book",
         NEW arena \in Arenas, ArenaOK(arena), NEW e \in Events,
         applied(command, arena, <<e>>), Pending(adapter, arena, e)
  PROVE  Inv'
<1> DEFINE events == <<e>>
<1>1. /\ events \in Seq(Events) /\ events # <<>> /\ events[1] = e /\ Len(events) = 1
  OBVIOUS
<1>2. \A i \in 2 .. Len(events) : events[i].type = "trade"
  BY <1>1
<1>3. applied(command, arena, events) /\ Pending(adapter, arena, events[1])
  BY <1>1
<1> HIDE DEF events
<1> QED BY <1>1, <1>2, <1>3, AppliedInv

\* A limit order the book refuses keeps the invariant.
LEMMA RejectLimitInv ==
  ASSUME Inv, NEW command \in replay.command, reject_limit(command)
  PROVE  Inv'
<1> DEFINE id == command.payload.order_id
           e == event("submit_result", id, {}, FALSE)
<1>1. /\ replay.phase = "book" /\ command.payload.tag = "submit_limit"
      /\ applied(command, engine.arena, <<e>>)
  BY DEF reject_limit, in_book
<1>2. /\ engine.arena \in Arenas /\ ArenaOK(engine.arena) /\ id \in Word
      /\ KnowsAll(adapter, engine.arena) /\ Fresh(engine.arena, id)
  BY <1>1, InBook
<1>3. e \in Events /\ e.type = "submit_result" /\ e.handle = {} /\ e.order_id = id
  BY <1>2 DEF event, Events
<1> HIDE DEF e
<1>4. Pending(adapter, engine.arena, e)
  BY <1>2, <1>3 DEF Pending
<1> QED BY <1>1, <1>2, <1>3, <1>4, OneEvent

\* The handle of a slot is a handle, and reaches its order if the slot is live.
LEMMA HandleAt ==
  ASSUME NEW arena \in Arenas, NEW s \in Slots
  PROVE  /\ handle_at(arena, s) \in Handles
         /\ arena.slot[s].live => is_live_handle(arena, handle_at(arena, s))
<1>1. arena.slot[s].generation \in 1 .. MaxGeneration
  BY DEF Arenas, Entries
<1>2. handle_at(arena, s) \in Handles
  BY <1>1, GenerationAssumption DEF handle_at, Handles
<1>3. arena.slot[s].live => is_live_handle(arena, handle_at(arena, s))
  BY <1>1 DEF handle_at, is_live_handle, is_live_index
<1> QED BY <1>2, <1>3

\* An execution takes the lesser of two quantities, and leaves a number.
LEMMA LesserType ==
  ASSUME NEW a \in Int, NEW b \in Int
  PROVE  LET least == IF a < b THEN a ELSE b
         IN  least \in Int /\ a - least \in Int /\ b - least \in Int
OBVIOUS

\* One more trade at the end of the trades.
LEMMA AppendTrade ==
  ASSUME NEW events \in Seq(Events), NEW e \in Events, e.type = "trade",
         \A i \in 1 .. Len(events) : events[i].type = "trade"
  PROVE  /\ Append(events, e) \in Seq(Events)
         /\ \A i \in 1 .. Len(Append(events, e)) : Append(events, e)[i].type = "trade"
OBVIOUS

\* One more than a number is not zero.
LEMMA SuccessorNotZero ==
  ASSUME NEW n \in Nat, NEW m, m = n + 1
  PROVE  m # 0
OBVIOUS

\* A sequence with a length is not the empty one.
LEMMA NonEmpty ==
  ASSUME NEW s, Len(s) # 0
  PROVE  s # <<>>
OBVIOUS

\* The result of a submission goes in front of its trades.
LEMMA ResultThenTrades ==
  ASSUME NEW trades \in Seq(Events), NEW e \in Events,
         \A i \in 1 .. Len(trades) : trades[i].type = "trade"
  PROVE  LET events == <<e>> \o trades
         IN  /\ events \in Seq(Events) /\ events # <<>> /\ events[1] = e
             /\ \A i \in 2 .. Len(events) : events[i].type = "trade"
<1> DEFINE events == <<e>> \o trades
<1>1. /\ events \in Seq(Events) /\ Len(events) = Len(trades) + 1 /\ events[1] = e
      /\ \A i \in 2 .. Len(trades) + 1 : events[i] = trades[i - 1]
  OBVIOUS
<1>2. \A i \in 2 .. Len(trades) + 1 : i - 1 \in 1 .. Len(trades)
  OBVIOUS
<1> HIDE DEF events
<1>3. \A i \in 2 .. Len(events) : events[i].type = "trade"
  <2> SUFFICES ASSUME NEW i \in 2 .. Len(trades) + 1 PROVE events[i].type = "trade"
    BY <1>1
  <2>1. events[i] = trades[i - 1] /\ i - 1 \in 1 .. Len(trades)
    BY <1>1, <1>2
  <2> QED BY <2>1
<1>4. events # <<>>
  <2>1. Len(trades) \in Nat /\ Len(events) = Len(trades) + 1
    BY <1>1
  <2>2. Len(events) # 0
    BY <2>1, SuccessorNotZero, Zenon
  <2> QED BY <2>2, NonEmpty
<1> QED BY <1>1, <1>3, <1>4 DEF events

\* The command's order meets a maker, which is gone or keeps the rest.
LEMMA MatchMakerInv ==
  ASSUME Inv, NEW command \in replay.command, NEW maker \in Slots, match_maker(command, maker)
  PROVE  Inv'
<1> DEFINE arena == engine.arena
           left == arena.slot[maker].order.remaining
           execution == IF left < replay.remaining THEN left ELSE replay.remaining
           r == IF execution = left THEN release(arena, handle_at(arena, maker))
                ELSE reduced(arena, maker, left - execution)
           e == event("trade", command.payload.order_id, {}, TRUE)
<1>1. /\ replay.phase = "book" /\ command.payload.tag = "submit_limit"
      /\ maker \in Live(arena)
      /\ engine' = [engine EXCEPT !.arena = r]
      /\ replay' = [replay EXCEPT !.remaining = @ - execution, !.events = Append(@, e)]
      /\ UNCHANGED <<input, adapter, admitted>>
  BY DEF match_maker, in_book, Opposite, LiveSlots, Live
<1>2. /\ engine \in [arena : Arenas, counter : Counters] /\ arena \in Arenas /\ ArenaOK(arena)
      /\ KnowsAll(adapter, arena) /\ Fresh(arena, command.payload.order_id)
      /\ replay \in Replays /\ replay.remaining \in Int /\ replay.events \in Seq(Events)
      /\ command.payload.order_id \in Word
      /\ \A i \in 1 .. Len(replay.events) : replay.events[i].type = "trade"
  BY <1>1, InBook
<1>3. arena.slot[maker].live /\ arena.slot[maker].order \in Orders
  BY <1>1, <1>2 DEF Live, ArenaOK
<1>4. left \in Int
  BY <1>3 DEF Orders
<1>5. /\ execution = left => r = release(arena, handle_at(arena, maker))
      /\ execution # left => r = reduced(arena, maker, left - execution)
  OBVIOUS
<1> HIDE DEF left, r
<1>6. execution \in Int /\ left - execution \in Int /\ replay.remaining - execution \in Int
  <2>1. replay.remaining \in Int
    BY <1>2
  <2> QED BY <1>4, <2>1, LesserType
<1> HIDE DEF execution
<1>7. r \in Arenas /\ ArenaOK(r) /\ Fewer(arena, r)
  <2>1. CASE execution = left
    <3> DEFINE handle == handle_at(arena, maker)
    <3>1. is_live_handle(arena, handle)
      BY <1>2, <1>3, HandleAt
    <3>2. r = release(arena, handle)
      BY <1>5, <2>1
    <3> HIDE DEF handle
    <3> QED BY <1>2, <3>1, <3>2, ReleaseShape, ReleaseList, ReleaseFewer
  <2>2. CASE execution # left
    <3> DEFINE n == left - execution
    <3>1. n \in Int /\ r = reduced(arena, maker, n)
      BY <1>5, <1>6, <2>2
    <3> HIDE DEF n
    <3> QED BY <1>1, <1>2, <1>3, <3>1, ReducedShape, ReducedList, ReducedFewer
  <2> QED BY <2>1, <2>2
<1>8. KnowsAll(adapter, r) /\ Fresh(r, command.payload.order_id)
  <2>1. KnowsAll(adapter, r) /\ \A id : Fresh(arena, id) => Fresh(r, id)
    BY <1>2, <1>7, FewerKnown
  <2> QED BY <1>2, <2>1
<1>9. /\ engine' \in [arena : Arenas, counter : Counters]
      /\ engine'.arena = r /\ engine'.counter = engine.counter
  <2>1. engine' = [engine EXCEPT !.arena = r] /\ r \in Arenas
    BY <1>1, <1>7
  <2> QED BY <1>2, <2>1
<1> DEFINE events == Append(replay.events, e)
           remaining == replay.remaining - execution
<1>10. /\ events \in Seq(Events) /\ remaining \in Int
       /\ \A i \in 1 .. Len(events) : events[i].type = "trade"
  <2>1. e \in Events /\ e.type = "trade"
    BY <1>2 DEF event, Events
  <2> HIDE DEF e
  <2> QED BY <1>2, <1>6, <2>1, AppendTrade
<1>11. /\ replay' \in Replays /\ replay'.phase = "book" /\ replay'.command = replay.command
       /\ replay'.error = replay.error /\ replay'.events = events
  <2>1. replay' = [replay EXCEPT !.remaining = remaining, !.events = events]
    BY <1>1
  <2> HIDE DEF events, remaining
  <2>2. replay \in Replays /\ replay.phase = "book"
    BY <1>1, <1>2, Zenon
  <2>3. events \in Seq(Events) /\ remaining \in Int
    BY <1>10, Zenon
  <2> QED BY <2>1, <2>2, <2>3, Zenon DEF Replays
<1> HIDE DEF events, remaining, e
<1>12. UNCHANGED <<input, adapter, admitted>> /\ replay.phase = "book"
  BY <1>1, Zenon
<1>13. TypeOK'
  BY <1>9, <1>11, <1>12 DEF Inv, TypeOK
<1>14. SequenceInv'
  BY <1>9, <1>11, <1>12 DEF Inv, SequenceInv
<1>15. RateInv'
  BY <1>11, <1>12 DEF Inv, RateInv
<1>16. KnownInv'
  <2>1. \A other \in replay.command :
          other.payload.tag = "submit_limit" =>
            /\ Fresh(arena, other.payload.order_id)
            /\ other.payload.order_id \in adapter.gateway.active
    BY <1>12 DEF Inv, KnownInv
  <2>2. \A id : Fresh(arena, id) => Fresh(r, id)
    BY <1>2, <1>7, FewerKnown
  <2> QED BY <1>8, <1>9, <1>10, <1>11, <1>12, <2>1, <2>2 DEF KnownInv
<1> QED BY <1>7, <1>9, <1>13, <1>14, <1>15, <1>16 DEF Inv

\* The event of an order that rests in a slot taken for it tells what is pending.
LEMMA RestPending ==
  ASSUME NEW a, NEW arena, NEW r, NEW head \in Slots, NEW id, NEW e,
         KnowsAll(a, arena), Fresh(arena, id), id \in a.gateway.active,
         \A s \in Slots \ {head} : r.slot[s] = arena.slot[s],
         r.slot[head].live, r.slot[head].order.id = id,
         r.slot[head].generation = arena.slot[head].generation,
         e.type = "submit_result", e.order_id = id, e.handle = {handle_at(arena, head)}
  PROVE  Pending(a, r, e)
<1>1. head \in Live(r) /\ handle_at(r, head) = handle_at(arena, head)
  BY DEF Live, handle_at
<1>2. \A other \in Live(r) \ {head} : other \in Live(arena) /\ r.slot[other] = arena.slot[other]
  BY DEF Live
<1>3. ASSUME NEW other \in Live(r) \ {head}
      PROVE  Knows(a, r, other) /\ r.slot[other].order.id # id
  <2>1. other \in Live(arena) /\ r.slot[other] = arena.slot[other]
    BY <1>2
  <2>2. Knows(a, arena, other) /\ arena.slot[other].order.id # id
    BY <2>1 DEF KnowsAll, Fresh
  <2> QED BY <2>1, <2>2 DEF Knows, handle_at
<1>4. e.handle = {handle_at(r, head)} /\ e.handle # {}
  BY <1>1
<1>5. \E s \in Live(r) :
        /\ e.handle = {handle_at(r, s)}
        /\ r.slot[s].order.id = e.order_id /\ e.order_id \in a.gateway.active
        /\ \A other \in Live(r) \ {s} : Knows(a, r, other) /\ r.slot[other].order.id # e.order_id
  <2>1. head \in Live(r)
    BY <1>1
  <2> WITNESS head \in Live(r)
  <2>2. \A other \in Live(r) \ {head} : Knows(a, r, other) /\ r.slot[other].order.id # e.order_id
    BY <1>3
  <2> QED BY <1>4, <2>2
<1> QED BY <1>4, <1>5, Zenon DEF Pending

\* What is left of the order rests in the slot at the head of the free list, or
\* nothing is left of it.
LEMMA SubmitLimitInv ==
  ASSUME Inv, NEW command \in replay.command, submit_limit_order(command)
  PROVE  Inv'
<1> DEFINE payload == command.payload
           id == payload.order_id
           arena == engine.arena
           head == arena.free_head
           order == [id |-> id, side |-> payload.side, remaining |-> replay.remaining]
           result(handle) == event("submit_result", id, handle, TRUE)
           reported(handle) == <<result(handle)>> \o replay.events
<1>1. replay.phase = "book" /\ payload.tag = "submit_limit"
  BY DEF submit_limit_order, in_book
<1>2. /\ arena \in Arenas /\ ArenaOK(arena) /\ id \in Word /\ payload.side \in FrameSides
      /\ replay.remaining \in Int /\ replay.events \in Seq(Events)
      /\ KnowsAll(adapter, arena) /\ Fresh(arena, id) /\ id \in adapter.gateway.active
      /\ \A i \in 1 .. Len(replay.events) : replay.events[i].type = "trade"
  BY <1>1, InBook
<1>3. ASSUME NEW e \in Events
      PROVE  LET events == <<e>> \o replay.events
             IN  /\ events \in Seq(Events) /\ events # <<>> /\ events[1] = e
                 /\ \A i \in 2 .. Len(events) : events[i].type = "trade"
  <2>1. /\ replay.events \in Seq(Events)
        /\ \A i \in 1 .. Len(replay.events) : replay.events[i].type = "trade"
    BY <1>2, Zenon
  <2> QED BY <1>3, <2>1, ResultThenTrades, Zenon
<1>4. CASE replay.remaining = 0
  <2> DEFINE e == result({})
  <2>1. applied(command, arena, <<e>> \o replay.events)
    BY <1>4 DEF submit_limit_order
  <2>2. e \in Events /\ e.type = "submit_result" /\ e.handle = {} /\ e.order_id = id
    BY <1>2 DEF event, Events
  <2> HIDE DEF e, result
  <2>3. Pending(adapter, arena, e)
    BY <1>2, <2>2 DEF Pending
  <2> DEFINE events == <<e>> \o replay.events
  <2>4. /\ events \in Seq(Events) /\ events # <<>> /\ events[1] = e
        /\ \A i \in 2 .. Len(events) : events[i].type = "trade"
    BY <1>3, <2>2
  <2>5. applied(command, arena, events) /\ Pending(adapter, arena, events[1])
    BY <2>1, <2>3, <2>4
  <2> HIDE DEF events
  <2> QED BY <1>1, <1>2, <2>4, <2>5, AppliedInv
<1>5. CASE replay.remaining # 0
  <2> DEFINE r == acquire(arena, order)
             e == result({handle_at(arena, head)})
  <2>1. head # NoSlot /\ applied(command, r, <<e>> \o replay.events)
    BY <1>5 DEF submit_limit_order
  <2>2. order \in Orders /\ order.id = id
    BY <1>2 DEF Orders
  <2> HIDE DEF order
  <2>3. head \in Slots /\ ~arena.slot[head].live /\ ArenaOK(r)
    BY <1>2, <2>1, <2>2, AcquireList
  <2>4. /\ r \in Arenas /\ \A s \in Slots \ {head} : r.slot[s] = arena.slot[s]
        /\ r.slot[head].live /\ r.slot[head].order = order
        /\ r.slot[head].generation = arena.slot[head].generation
    <3>1. arena \in Arenas /\ order \in Orders /\ arena.free_head \in Slots
      BY <1>2, <2>2, <2>3
    <3> QED BY <3>1, AcquireShape
  <2>5. handle_at(arena, head) \in Handles
    BY <1>2, <2>3, HandleAt
  <2>6. /\ e \in Events /\ e.type = "submit_result" /\ e.order_id = id
        /\ e.handle = {handle_at(arena, head)}
    BY <1>2, <2>5 DEF event, Events
  <2> HIDE DEF e, r, result
  <2>9. Pending(adapter, r, e)
    <3>1. /\ KnowsAll(adapter, arena) /\ Fresh(arena, id) /\ id \in adapter.gateway.active
          /\ head \in Slots /\ r.slot[head].order.id = id
      BY <1>2, <2>2, <2>3, <2>4
    <3> QED BY <2>4, <2>6, <3>1, RestPending
  <2> DEFINE events == <<e>> \o replay.events
  <2>10. /\ events \in Seq(Events) /\ events # <<>> /\ events[1] = e
         /\ \A i \in 2 .. Len(events) : events[i].type = "trade"
    BY <1>3, <2>6
  <2>11. applied(command, r, events) /\ Pending(adapter, r, events[1])
    BY <2>1, <2>9, <2>10
  <2> HIDE DEF events
  <2> QED BY <1>1, <2>3, <2>4, <2>10, <2>11, AppliedInv
<1> QED BY <1>4, <1>5

\* The id that a result reports: that of the order, or 0.
LEMMA ReportedId ==
  ASSUME NEW arena, ArenaOK(arena), NEW handle
  PROVE  (IF is_live_handle(arena, handle) THEN arena.slot[handle.index].order.id ELSE 0) \in Word
<1>1. 0 \in Word
  BY WordAssumption DEF Word
<1>2. is_live_handle(arena, handle) => arena.slot[handle.index].order.id \in Word
  BY DEF is_live_handle, is_live_index, ArenaOK, Orders
<1> QED BY <1>1, <1>2

\* The results of cancels and amendments are events.
LEMMA ResultType ==
  ASSUME NEW type \in {"cancel_result", "amend_result"}, NEW id \in Word,
         NEW handle \in Handles \cup {ZeroHandle}, NEW accepted \in BOOLEAN,
         NEW e, e = event(type, id, {handle}, accepted)
  PROVE  e \in Events /\ e.type = type /\ e.order_id = id /\ e.accepted = accepted
<1>1. {handle} \in SUBSET (Handles \cup {ZeroHandle})
  OBVIOUS
<1> QED BY <1>1 DEF event, Events

\* A cancel that reaches an order frees its slot, and no other order has its id.
LEMMA CancelReached ==
  ASSUME NEW a, NEW arena \in Arenas, ArenaOK(arena), KnowsAll(a, arena),
         NEW handle, is_live_handle(arena, handle), NEW r, r = release(arena, handle)
  PROVE  /\ r \in Arenas /\ ArenaOK(r) /\ KnowsAll(a, r)
         /\ Fresh(r, arena.slot[handle.index].order.id)
<1>1. handle.index \in Live(arena)
  BY DEF Live, is_live_handle, is_live_index
<1>2. r \in Arenas
  BY ReleaseShape
<1>3. ArenaOK(r)
  BY ReleaseList
<1>4. Fewer(arena, r) /\ handle.index \notin Live(r)
  BY ReleaseFewer
<1>5. KnowsAll(a, r)
  BY <1>4, FewerKnown
<1>6. \A s \in Live(r) : /\ s \in Live(arena) /\ s # handle.index
                         /\ r.slot[s].order.id = arena.slot[s].order.id
  BY <1>4 DEF Fewer
<1>7. ASSUME NEW s \in Live(arena), arena.slot[s].order.id = arena.slot[handle.index].order.id
      PROVE  s = handle.index
  <2>1. Knows(a, arena, s) /\ Knows(a, arena, handle.index)
    BY <1>1 DEF KnowsAll
  <2>2. handle_at(arena, s) = handle_at(arena, handle.index)
    BY <1>7, <2>1 DEF Knows
  <2> QED BY <2>2 DEF handle_at
<1>8. Fresh(r, arena.slot[handle.index].order.id)
  BY <1>6, <1>7 DEF Fresh
<1> QED BY <1>2, <1>3, <1>5, <1>8

\* A cancel keeps the invariant.
LEMMA CancelInv ==
  ASSUME Inv, NEW command \in replay.command, cancel_order(command)
  PROVE  Inv'
<1> DEFINE handle == command.payload.handle
           arena == engine.arena
           live == is_live_handle(arena, handle)
           id == IF live THEN arena.slot[handle.index].order.id ELSE 0
           r == release(arena, handle)
           e == event("cancel_result", id, {handle}, live)
<1>1. replay.phase = "book" /\ applied(command, r, <<e>>)
  BY Zenon DEF cancel_order, in_book
<1>2. /\ arena \in Arenas /\ ArenaOK(arena) /\ KnowsAll(adapter, arena)
      /\ handle \in Handles \cup {ZeroHandle}
  BY <1>1, InBook DEF Payloads
<1>3. id \in Word /\ live \in BOOLEAN
  <2>1. live \in BOOLEAN
    BY DEF is_live_handle
  <2> QED BY <1>2, <2>1, ReportedId
<1>4. live => id = arena.slot[handle.index].order.id
  OBVIOUS
<1> HIDE DEF id
<1>5. e \in Events /\ e.type = "cancel_result" /\ e.accepted = live /\ e.order_id = id
  <2> HIDE DEF handle, live
  <2> QED BY <1>2, <1>3, ResultType
<1> HIDE DEF e, r
<1>6. /\ r \in Arenas /\ ArenaOK(r) /\ KnowsAll(adapter, r)
      /\ live => Fresh(r, arena.slot[handle.index].order.id)
  <2>1. CASE live
    BY <1>2, <2>1, CancelReached DEF r
  <2>2. CASE ~live
    BY <1>2, <2>2 DEF r, release
  <2> QED BY <2>1, <2>2
<1> HIDE DEF live
<1>7. Pending(adapter, r, e)
  BY <1>3, <1>4, <1>5, <1>6 DEF Pending
<1> QED BY <1>1, <1>5, <1>6, <1>7, OneEvent

\* An amendment changes what is left of an order, or nothing.
LEMMA AmendReached ==
  ASSUME NEW a, NEW arena \in Arenas, ArenaOK(arena), KnowsAll(a, arena), NEW handle,
         is_live_handle(arena, handle), NEW n \in Int, NEW r, r = reduced(arena, handle.index, n)
  PROVE  r \in Arenas /\ ArenaOK(r) /\ KnowsAll(a, r)
<1>1. /\ handle.index \in Slots /\ handle.index \in Live(arena) /\ arena.slot[handle.index].live
  BY DEF is_live_handle, is_live_index, Live
<1>2. arena.slot[handle.index].order \in Orders
  BY <1>1 DEF ArenaOK
<1>3. r \in Arenas /\ ArenaOK(r)
  BY <1>1, <1>2, ReducedShape, ReducedList
<1>4. Fewer(arena, r)
  BY <1>1, ReducedFewer
<1> QED BY <1>3, <1>4, FewerKnown

\* An amendment keeps the invariant.
LEMMA AmendInv ==
  ASSUME Inv, NEW command \in replay.command, amend_order(command)
  PROVE  Inv'
<1> DEFINE handle == command.payload.handle
           quantity == command.payload.quantity
           arena == engine.arena
           live == is_live_handle(arena, handle)
           left == arena.slot[handle.index].order.remaining
           id == IF live THEN arena.slot[handle.index].order.id ELSE 0
           accepted == live /\ quantity \in 1 .. left
           r == IF ~accepted THEN arena ELSE reduced(arena, handle.index, quantity)
           e == event("amend_result", id, {handle}, accepted)
<1>1. replay.phase = "book" /\ applied(command, r, <<e>>)
  BY Zenon DEF amend_order, in_book
<1>2. /\ arena \in Arenas /\ ArenaOK(arena) /\ KnowsAll(adapter, arena)
      /\ handle \in Handles \cup {ZeroHandle} /\ quantity \in Word
  BY <1>1, InBook DEF Payloads
<1>3. id \in Word
  BY <1>2, ReportedId, Zenon
<1>4. accepted \in BOOLEAN /\ (accepted => live)
  BY Zenon
<1>5. /\ ~accepted => r = arena
      /\ accepted => r = reduced(arena, handle.index, quantity)
  BY Zenon
<1> HIDE DEF id, accepted, r
<1>6. e \in Events /\ e.type = "amend_result"
  <2>1. "amend_result" \in {"cancel_result", "amend_result"}
    BY Zenon
  <2>2. handle \in Handles \cup {ZeroHandle}
    BY <1>2
  <2> HIDE DEF handle
  <2> QED BY <1>3, <1>4, <2>1, <2>2, ResultType
<1> HIDE DEF e
<1>7. r \in Arenas /\ ArenaOK(r) /\ KnowsAll(adapter, r)
  <2>1. CASE ~accepted
    BY <1>2, <1>5, <2>1
  <2>2. CASE accepted
    <3>1. quantity \in Int
      BY <1>2 DEF Word
    <3> QED BY <1>2, <1>4, <1>5, <2>2, <3>1, AmendReached
  <2> QED BY <2>1, <2>2
<1>8. Pending(adapter, r, e)
  BY <1>6, <1>7 DEF Pending
<1> QED BY <1>1, <1>6, <1>7, <1>8, OneEvent

-----------------------------------------------------------------------------
(* Recording the events, and the invariant.                                *)

\* The adapter records one event; what is left of them are trades.
LEMMA RecordInv ==
  ASSUME Inv, record_applied_event
  PROVE  Inv'
<1> DEFINE e == replay.events[1]
           r == record_event(adapter, e)
<1>1. /\ replay.phase = "record" /\ replay.events # <<>> /\ replay.events \in Seq(Events)
      /\ replay \in Replays /\ adapter \in Adapters /\ engine.arena \in Arenas
      /\ replay.error # "apply" /\ adapter.sequencer = engine.counter
      /\ adapter.previous = adapter.sequencer.last_logical_time
      /\ Pending(adapter, engine.arena, e)
      /\ \A i \in 2 .. Len(replay.events) : replay.events[i].type = "trade"
  BY DEF record_applied_event, Inv, TypeOK, Replays, KnownInv, SequenceInv
<1>2. Head(replay.events) = e /\ e \in Events /\ Len(replay.events) \in Nat \ {0}
  BY <1>1
<1>3. /\ adapter' = r /\ UNCHANGED <<input, engine, admitted>>
      /\ replay' = IF Len(replay.events) = 1 THEN NoMessage
                   ELSE [replay EXCEPT !.events = Tail(@)]
  BY <1>2 DEF record_applied_event
<1>4. /\ adapter' \in Adapters /\ adapter'.sequencer = adapter.sequencer
      /\ adapter'.previous = adapter.previous
      /\ adapter'.gateway.window = adapter.gateway.window
      /\ KnowsAll(adapter', engine.arena)
  BY <1>1, <1>2, <1>3, RecordKnows
<1> HIDE DEF e, r
<1>5. /\ replay' \in Replays /\ replay'.phase \in {"read", "record"}
      /\ replay'.error # "apply"
      /\ replay'.phase = "read" => replay'.events = <<>>
      /\ replay'.phase = "record" =>
           /\ replay'.events # <<>>
           /\ \A i \in 1 .. Len(replay'.events) : replay'.events[i].type = "trade"
  <2>1. CASE Len(replay.events) = 1
    BY <1>3, <2>1, IdleReplays DEF NoMessage
  <2>2. CASE Len(replay.events) # 1
    <3> DEFINE rest == Tail(replay.events)
    <3>1. /\ rest \in Seq(Events) /\ Len(rest) = Len(replay.events) - 1 /\ rest # <<>>
          /\ \A i \in 1 .. Len(replay.events) - 1 : rest[i] = replay.events[i + 1]
      <4>1. /\ rest \in Seq(Events) /\ Len(rest) = Len(replay.events) - 1
            /\ \A i \in 1 .. Len(replay.events) - 1 : rest[i] = replay.events[i + 1]
        BY <1>1
      <4>2. Len(rest) # 0
        BY <1>2, <2>2, <4>1
      <4>3. rest # <<>>
        BY <4>2, NonEmpty
      <4> QED BY <4>1, <4>3
    <3>2. replay' = [replay EXCEPT !.events = rest]
      BY <1>3, <2>2
    <3> HIDE DEF rest
    <3>3. /\ replay' \in Replays /\ replay'.phase = "record" /\ replay'.error = replay.error
          /\ replay'.events = rest
      BY <1>1, <3>1, <3>2 DEF Replays
    <3>4. \A i \in 1 .. Len(rest) : rest[i].type = "trade"
      BY <1>1, <1>2, <3>1
    <3> QED BY <1>1, <3>1, <3>3, <3>4
  <2> QED BY <2>1, <2>2
<1>6. TypeOK'
  BY <1>3, <1>4, <1>5 DEF Inv, TypeOK
<1>7. SequenceInv'
  BY <1>1, <1>3, <1>4, <1>5 DEF SequenceInv
<1>8. RateInv'
  BY <1>3, <1>4, <1>5 DEF Inv, RateInv
<1>9. KnownInv'
  <2>1. replay'.phase = "record" => Pending(adapter', engine.arena, replay'.events[1])
    <3>1. replay'.phase = "record" => 1 \in 1 .. Len(replay'.events)
      BY <1>5 DEF Replays
    <3> QED BY <1>4, <1>5, <3>1 DEF Pending
  <2>2. replay'.phase = "record" =>
          \A i \in 2 .. Len(replay'.events) : replay'.events[i].type = "trade"
    BY <1>5 DEF Replays
  <2> QED BY <1>3, <1>4, <1>5, <2>1, <2>2 DEF KnownInv
<1> QED BY <1>3, <1>6, <1>7, <1>8, <1>9 DEF Inv

\* In an empty arena every slot is in the free list, in the order of the indices.
LEMMA EmptyArenaOK == EmptyArena \in Arenas /\ ArenaOK(EmptyArena)
<1> DEFINE n == Cardinality(Slots)
           q == [i \in 1 .. n |-> i - 1]
<1>1. n \in Nat /\ Slots = 0 .. n - 1 /\ NoSlot \notin Slots
  BY IndexAssumption
<1> HIDE DEF n
<1> DEFINE entry(s) == [live |-> FALSE, generation |-> 1, order |-> Forgotten,
                        free_next |-> IF s + 1 \in Slots THEN s + 1 ELSE NoSlot]
<1>2. \A s \in Slots : entry(s) \in Entries
  BY GenerationAssumption DEF Entries
<1>3. /\ EmptyArena.slot = [s \in Slots |-> entry(s)]
      /\ EmptyArena.free_head = IF Slots = {} THEN NoSlot ELSE 0
      /\ EmptyArena \in Arenas
  <2>1. (IF Slots = {} THEN NoSlot ELSE 0) \in Slots \cup {NoSlot}
    BY <1>1
  <2>2. [s \in Slots |-> entry(s)] \in [Slots -> Entries]
    <3> HIDE DEF entry
    <3> QED BY <1>2
  <2>3. EmptyArena = [slot |-> [s \in Slots |-> entry(s)],
                      free_head |-> IF Slots = {} THEN NoSlot ELSE 0, size |-> 0]
    BY DEF EmptyArena
  <2> HIDE DEF entry
  <2> QED BY <2>1, <2>2, <2>3 DEF Arenas
<1>4. q \in Seq(Slots) /\ Len(q) = n /\ \A i \in 1 .. n : q[i] = i - 1
  BY <1>1
<1> HIDE DEF q
<1>5. FreeList(EmptyArena, q)
  <2>1. EmptyArena.free_head = IF q = <<>> THEN NoSlot ELSE q[1]
    <3>1. CASE n = 0
      <4>1. Slots = {} /\ Len(q) = 0
        BY <1>1, <1>4, <3>1
      <4>2. q = <<>>
        BY <1>4, <4>1
      <4> QED BY <1>3, <4>1, <4>2
    <3>2. CASE n # 0
      <4>1. 0 \in Slots /\ 1 \in 1 .. n /\ Len(q) # 0 /\ q[1] = 0
        BY <1>1, <1>4, <3>2
      <4> QED BY <1>3, <4>1
    <3> QED BY <3>1, <3>2
  <2>2. ASSUME NEW i \in 1 .. Len(q)
        PROVE  /\ ~EmptyArena.slot[q[i]].live
               /\ EmptyArena.slot[q[i]].free_next = IF i = Len(q) THEN NoSlot ELSE q[i + 1]
    <3>1. i - 1 \in Slots /\ q[i] = i - 1 /\ (i \in Slots <=> i # n) /\ (i - 1) + 1 = i
      BY <1>1, <1>4
    <3>2. EmptyArena.slot[q[i]] = entry(i - 1)
      <4> HIDE DEF entry
      <4> QED BY <1>3, <3>1
    <3>3. i # n => q[i + 1] = i
      BY <1>1, <1>4
    <3> QED BY <1>4, <3>1, <3>2, <3>3
  <2>3. \A i, j \in 1 .. Len(q) : q[i] = q[j] => i = j
    BY <1>1, <1>4
  <2> QED BY <2>1, <2>2, <2>3 DEF FreeList
<1>6. \A s \in Slots : ~EmptyArena.slot[s].live
  BY <1>3
<1> QED BY <1>3, <1>4, <1>5, <1>6 DEF ArenaOK

\* The invariant holds before the first frame.
LEMMA InitInv == Init => Inv
<1> SUFFICES ASSUME Init PROVE Inv
  OBVIOUS
<1>1. 0 \in Word /\ MaxValue \div RateWindowSize \in Nat
  BY WordAssumption, RateAssumption DEF Word
<1>2. EmptyArena \in Arenas /\ ArenaOK(EmptyArena) /\ NoMessage \in Replays
  BY EmptyArenaOK, IdleReplays
<1>3. NewSequencer \in Counters /\ NewSequencer.last_logical_time = 0
  BY <1>1 DEF NewSequencer, Counters
<1>4. NewGateway \in Gateways /\ NewGateway.window[0] = [start |-> 0, count |-> 0]
  BY LaneAndLimit DEF NewGateway, Gateways
<1>5. <<>> \in Tables
  <2>1. <<>> \in [{} -> Handles] /\ {} \in SUBSET Word
    OBVIOUS
  <2> QED BY <2>1 DEF Tables
<1>6. TypeOK
  BY <1>1, <1>2, <1>3, <1>4, <1>5 DEF Init, TypeOK, Adapters
<1>7. SequenceInv
  BY <1>3 DEF Init, SequenceInv, NoMessage
<1>8. RateInv
  <2>1. 0 <= 0 \div RateWindowSize
    BY RateAssumption
  <2>2. WindowOf([start |-> 0, count |-> 0], 0,
                 [window \in 0 .. MaxValue \div RateWindowSize |-> 0])
    BY <2>1, LaneAndLimit DEF WindowOf
  <2> QED BY <1>4, <2>2 DEF Init, RateInv, NoMessage
<1>9. KnownInv
  <2>1. \A s \in Slots : ~EmptyArena.slot[s].live
    BY DEF EmptyArena
  <2>2. KnowsAll(adapter, engine.arena)
    BY <2>1 DEF Init, KnowsAll, Live
  <2> QED BY <2>2 DEF Init, KnownInv, NoMessage
<1> QED BY <1>2, <1>6, <1>7, <1>8, <1>9 DEF Init, Inv

\* Every step of the replay keeps the invariant.
LEMMA NextInv == Inv /\ [Next]_vars => Inv'
<1> SUFFICES ASSUME Inv, [Next]_vars PROVE Inv'
  OBVIOUS
<1>1. CASE UNCHANGED vars
  <2>1. /\ input' = input /\ adapter' = adapter /\ engine' = engine
        /\ replay' = replay /\ admitted' = admitted
    BY <1>1 DEF vars
  <2>2. TypeOK' /\ SequenceInv' /\ RateInv'
    BY <2>1 DEF Inv, TypeOK, SequenceInv, RateInv
  <2>3. ArenaOK(engine'.arena) /\ KnownInv'
    BY <2>1 DEF Inv, KnownInv
  <2> QED BY <2>2, <2>3 DEF Inv
<1>2. ASSUME NEW content \in Contents, NEW sequence \in 0 .. MaxValue,
             read_next([content EXCEPT !.sequence = sequence])
      PROVE  Inv'
  <2>1. content \in Frames /\ sequence \in Word
    BY ContentsAssumption DEF Word
  <2>2. [content EXCEPT !.sequence = sequence] \in Frames
    BY <2>1 DEF Frames
  <2> QED BY <1>2, <2>2, ReadNextInv
<1>3. ASSUME NEW command \in replay.command, Apply(command)
      PROVE  Inv'
  BY <1>3, ApplyInv, RejectLimitInv, MatchMakerInv, SubmitLimitInv, CancelInv, AmendInv
     DEF Apply
<1> QED BY <1>1, <1>2, <1>3, ReadTruncatedInv, ReadEndInv, AdaptInv, RecordInv, ReplayAgainInv
        DEF Next

-----------------------------------------------------------------------------
(* The theorems.                                                           *)

\* The invariant holds of every state of the replay.
THEOREM InvHolds == Spec => []Inv
BY InitInv, NextInv, PTL DEF Spec

\* Between two messages the adapter reaches every live order of the engine under
\* its id, and the gateway holds that id: whatever record_applied_event() leaves
\* behind of filled makers, and also when generations of slots come round.
THEOREM LiveOrdersStayKnown == Spec => []LiveOrdersKnown
<1>1. Inv => LiveOrdersKnown
  BY DEF Inv, KnownInv, KnowsAll, Knows, Live, LiveOrdersKnown, LiveSlots
<1> QED BY <1>1, InvHolds, PTL

\* SequencedEngine::apply() refuses no command that the adapter's sequencer has
\* stamped, up to and beyond the last sequence there is.
THEOREM EngineNeverRefuses == Spec => []EngineFollowsSequencer
<1>1. Inv => EngineFollowsSequencer
  BY DEF Inv, SequenceInv, EngineFollowsSequencer
<1> QED BY <1>1, InvHolds, PTL

\* GatewayValidator::validate() lets at most the configured number of orders
\* through in a window of logical time.
THEOREM RateStaysBounded == Spec => []RateBounded
<1>1. Inv => RateBounded
  BY DEF Inv, RateInv, WindowOf, RateBounded, Limit
<1> QED BY <1>1, InvHolds, PTL

\* The engine counts a command only when it has applied it.
LEMMA CounterSteps ==
  ASSUME Inv, Next
  PROVE  \/ engine'.counter = engine.counter
         \/ \E command \in replay.command :
              /\ replay.phase = "book"
              /\ engine'.counter = advance(engine.counter, command.logical_time)
<1>1. ASSUME NEW frame, read_next(frame)
      PROVE  engine' = engine
  BY <1>1 DEF read_next
<1>2. CASE read_truncated \/ read_end \/ adapt \/ record_applied_event \/ replay_again
  BY <1>2 DEF read_truncated, read_end, adapt, record_applied_event, replay_again
<1>3. ASSUME NEW command \in replay.command, NEW arena, NEW events,
             replay.phase = "book", applied(command, arena, events)
      PROVE  engine'.counter = advance(engine.counter, command.logical_time)
  BY <1>3 DEF applied
<1>4. ASSUME NEW command \in replay.command, apply(command)
      PROVE  engine' = engine
  BY <1>4 DEF apply
<1>5. ASSUME NEW command \in replay.command, NEW maker \in Slots, match_maker(command, maker)
      PROVE  engine'.counter = engine.counter
  <2>1. engine \in [arena : Arenas, counter : Counters]
    BY DEF Inv, TypeOK
  <2>2. PICK arena : engine' = [engine EXCEPT !.arena = arena]
    BY <1>5 DEF match_maker
  <2> QED BY <2>1, <2>2
<1>6. ASSUME NEW command \in replay.command,
             \/ reject_limit(command) \/ submit_limit_order(command)
             \/ cancel_order(command) \/ amend_order(command)
      PROVE  /\ replay.phase = "book"
             /\ engine'.counter = advance(engine.counter, command.logical_time)
  <2>1. CASE reject_limit(command)
    BY <1>3, <2>1 DEF reject_limit, in_book
  <2>2. CASE submit_limit_order(command)
    BY <1>3, <2>2 DEF submit_limit_order, in_book
  <2>3. CASE cancel_order(command)
    BY <1>3, <2>3 DEF cancel_order, in_book
  <2>4. CASE amend_order(command)
    BY <1>3, <2>4 DEF amend_order, in_book
  <2> QED BY <1>6, <2>1, <2>2, <2>3, <2>4
<1>7. ASSUME NEW command \in replay.command, Apply(command)
      PROVE  \/ engine'.counter = engine.counter
             \/ /\ replay.phase = "book"
                /\ engine'.counter = advance(engine.counter, command.logical_time)
  BY <1>4, <1>5, <1>6, <1>7 DEF Apply
<1> QED BY <1>1, <1>2, <1>7 DEF Next

\* The commands that SequencedEngine::apply() applies come from consecutive
\* messages: replay_market_data() passes none over, also when the caller goes on
\* after an error.
THEOREM MessagesInTurn == Spec => NoMessageSkipped
<1> DEFINE Step == engine'.counter # engine.counter /\ engine.counter.last_logical_time # 0 =>
                     engine'.counter.last_logical_time = engine.counter.last_logical_time + 1
<1>1. ASSUME Inv, Next PROVE Step
  <2>1. CASE engine'.counter = engine.counter
    BY <2>1
  <2>2. ASSUME NEW command \in replay.command, replay.phase = "book",
               engine'.counter = advance(engine.counter, command.logical_time)
        PROVE  Step
    <3>1. command.logical_time \in Word /\ engine.counter \in Counters
      BY <1>1, <2>2, InBook DEF SequencedCommands
    <3>2. engine'.counter.last_logical_time = command.logical_time
      BY <2>2, <3>1, AdvanceType
    <3>3. engine.counter.last_logical_time # 0 =>
            command.logical_time = engine.counter.last_logical_time + 1
      BY <1>1, <2>2 DEF Inv, SequenceInv
    <3> QED BY <3>2, <3>3
  <2> QED BY <1>1, <2>1, <2>2, CounterSteps
<1>2. Inv /\ [Next]_vars =>
        [engine'.counter # engine.counter /\ engine.counter.last_logical_time # 0 =>
           engine'.counter.last_logical_time = engine.counter.last_logical_time + 1]_vars
  BY <1>1
<1> QED BY <1>2, InvHolds, PTL DEF Spec, NoMessageSkipped
=============================================================================
