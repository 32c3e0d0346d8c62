------------------------- MODULE MarketDataAdapter -------------------------
(***************************************************************************)
(* Market data replayed into an engine: the stream of frames, the adapter  *)
(* with its gateway, sequencer and table of handles, the engine, and the   *)
(* loop of replay_market_data() that joins them.  The caller may call the  *)
(* loop again, with the same objects, after it has returned an error.      *)
(*                                                                         *)
(* The engine is modelled by what the adapter can tell: which orders are   *)
(* live, under which id and handle, and what is left of them.  An incoming *)
(* order meets one maker a step; which ones, and in which order, is left   *)
(* open: the module OrderBook has the matching itself.                     *)
(***************************************************************************)
EXTENDS OrderArena, Gateway, Commands, MarketDataProtocol, Functions

CONSTANT Contents     \* the frames that may come, but for their sequence

ASSUME ContentsAssumption == Contents \subseteq Frames

VARIABLES
  input,      \* the stream: the last sequence it passed, and whether it ended
  adapter,    \* gateway_, sequencer_, handles_, previous_market_data_sequence_
  engine,     \* the arena, and the engine's sequence and time
  replay,     \* where the loop stands, and what it holds
  admitted    \* how many orders the gateway let through, by rate window

vars == <<input, adapter, engine, replay, admitted>>

NoMessage == [phase |-> "read", message |-> ZeroFrame, command |-> {}, remaining |-> 0,
              events |-> <<>>, error |-> "none"]

Init ==
  /\ input = [previous |-> 0, ended |-> FALSE]
  /\ adapter = [gateway |-> NewGateway, sequencer |-> NewSequencer,
                handles |-> <<>>, previous |-> 0]
  /\ engine = [arena |-> EmptyArena, counter |-> NewSequencer]
  /\ replay = NoMessage
  /\ admitted = [window \in 0 .. MaxValue \div RateWindowSize |-> 0]

fail(error) == replay' = [NoMessage EXCEPT !.phase = "failed", !.error = error]

-----------------------------------------------------------------------------
(* The stream.                                                             *)

read_next(frame) ==
  /\ replay.phase = "read" /\ ~input.ended
  /\ LET messages == {message \in decode_market_data_frame(frame) :
                        validate_market_data_sequence(input.previous, message)}
     IN  IF messages = {} THEN fail("input") /\ UNCHANGED input
         ELSE /\ input' = [input EXCEPT !.previous = frame.sequence]
              /\ replay' = [replay EXCEPT !.phase = "adapt", !.message = frame]
  /\ UNCHANGED <<adapter, engine, admitted>>

\* A file that ends inside a frame is at its end when it is read again.
read_truncated ==
  /\ replay.phase = "read" /\ ~input.ended
  /\ input' = [input EXCEPT !.ended = TRUE]
  /\ fail("input")
  /\ UNCHANGED <<adapter, engine, admitted>>

read_end ==
  /\ replay.phase = "read"
  /\ input' = [input EXCEPT !.ended = TRUE]
  /\ replay' = [replay EXCEPT !.phase = "done"]
  /\ UNCHANGED <<adapter, engine, admitted>>

-----------------------------------------------------------------------------
(* The adapter.                                                            *)

refused(a) == [adapter |-> a, command |-> {}]

stamped(a, payload, time) ==
  LET result == stamp(a.sequencer, payload, time)
  IN  IF result.command = {} THEN refused(a)
      ELSE [adapter |-> [a EXCEPT !.sequencer = result.sequencer, !.previous = time],
            command |-> result.command]

\* Mutant of adapt_message: a message counts as seen when it is refused.
adapt_message_first(a, message) ==
  LET seen == [a EXCEPT !.previous = message.sequence]
      id == message.order_id
      checked == validate(a.gateway, 0, id, message.price, message.quantity, message.sequence)
      recorded == [seen EXCEPT !.gateway = checked.gateway]
  IN  IF ~validate_market_data_sequence(a.previous, message) THEN refused(a)
      ELSE IF message.type = "add_order"
      THEN IF checked.reason # "none" THEN refused(recorded)
           ELSE stamped(recorded,
                        submit_limit(id, message.side, message.price, message.quantity),
                        message.sequence)
      ELSE IF message.type \notin {"delete_order", "replace_order"} \/ id \notin DOMAIN a.handles
      THEN refused(seen)
      ELSE stamped(a, IF message.type = "delete_order" THEN cancel(a.handles[id])
                      ELSE amend_quantity(a.handles[id], message.quantity),
                   message.sequence)

\* Nothing takes back an id that the gateway has admitted when the sequencer
\* then refuses the command.
adapt_message(a, message) ==
  LET id == message.order_id
      checked == validate(a.gateway, 0, id, message.price, message.quantity, message.sequence)
      recorded == [a EXCEPT !.gateway = checked.gateway]
  IN  IF ~validate_market_data_sequence(a.previous, message) THEN refused(a)
      ELSE IF message.type = "add_order"
      THEN IF checked.reason # "none" THEN refused(recorded)
           ELSE stamped(recorded,
                        submit_limit(id, message.side, message.price, message.quantity),
                        message.sequence)
      ELSE IF message.type \notin {"delete_order", "replace_order"} \/ id \notin DOMAIN a.handles
      THEN refused(a)
      ELSE stamped(a, IF message.type = "delete_order" THEN cancel(a.handles[id])
                      ELSE amend_quantity(a.handles[id], message.quantity),
                   message.sequence)

adapt ==
  /\ replay.phase = "adapt"
  /\ LET result == adapt_message(adapter, replay.message)
         window == replay.message.sequence \div RateWindowSize
     IN  /\ adapter' = result.adapter
         /\ admitted' = IF result.adapter.gateway.active = adapter.gateway.active THEN admitted
                        ELSE [admitted EXCEPT ![window] = @ + 1]
         /\ IF result.command = {} THEN fail("adapter")
            ELSE replay' = [replay EXCEPT !.phase = "apply", !.command = result.command]
  /\ UNCHANGED <<input, engine>>

\* An order that is gone, and one that rests.
forget(a, id) ==
  [a EXCEPT !.handles = Restrict(@, DOMAIN @ \ {id}), !.gateway = release_id(@, id)]

remember(a, id, handle) ==
  [a EXCEPT !.handles = [i \in DOMAIN @ \cup {id} |-> IF i = id THEN handle ELSE @[i]]]

\* What one event of the engine changes; trades and amendments change nothing,
\* so that a maker which is filled keeps its entry and its id.
record_event(a, event) ==
  IF event.type \in {"submit_result", "stop_triggered"}
  THEN IF event.handle = {} THEN forget(a, event.order_id)
       ELSE remember(a, event.order_id, CHOOSE handle \in event.handle : TRUE)
  ELSE IF event.type = "cancel_result" /\ event.accepted /\ event.order_id \in DOMAIN a.handles
  THEN forget(a, event.order_id)
  ELSE a

record_applied_event ==
  /\ replay.phase = "record"
  /\ adapter' = record_event(adapter, Head(replay.events))
  /\ replay' = IF Len(replay.events) = 1 THEN NoMessage
               ELSE [replay EXCEPT !.events = Tail(@)]
  /\ UNCHANGED <<input, engine, admitted>>

-----------------------------------------------------------------------------
(* The engine.                                                             *)

LiveSlots == {s \in Slots : engine.arena.slot[s].live}

applicable(counter, command) ==
  /\ ~counter.exhausted
  /\ validate_command_payload(command.payload)
  /\ command.sequence = counter.next_sequence
  /\ command.logical_time >= counter.last_logical_time

\* The checks of apply(); what passes them goes to the book.
apply(command) ==
  /\ replay.phase = "apply"
  /\ IF applicable(engine.counter, command)
     THEN replay' = [replay EXCEPT !.phase = "book", !.remaining = command.payload.quantity]
     ELSE fail("apply")
  /\ UNCHANGED <<input, adapter, engine, admitted>>

event(type, id, handle, accepted) ==
  [type |-> type, order_id |-> id, handle |-> handle, accepted |-> accepted]

in_book(command, tag) == replay.phase = "book" /\ command.payload.tag = tag

\* apply() returns: the book has answered with these events.
applied(command, arena, events) ==
  /\ engine' = [arena |-> arena, counter |-> advance(engine.counter, command.logical_time)]
  /\ replay' = [replay EXCEPT !.phase = "record", !.events = events]
  /\ UNCHANGED <<input, adapter, admitted>>

\* The order does not pass the checks of the book.
reject_limit(command) ==
  /\ in_book(command, "submit_limit") /\ replay.events = <<>>
  /\ applied(command, engine.arena,
             <<event("submit_result", command.payload.order_id, {}, FALSE)>>)

reduced(arena, s, quantity) == [arena EXCEPT !.slot[s].order.remaining = quantity]

Opposite(side) == {s \in LiveSlots : engine.arena.slot[s].order.side # side}

\* The order meets one maker.
match_maker(command, maker) ==
  LET left == engine.arena.slot[maker].order.remaining
      execution == IF left < replay.remaining THEN left ELSE replay.remaining
  IN  /\ in_book(command, "submit_limit")
      /\ replay.remaining # 0 /\ maker \in Opposite(command.payload.side)
      /\ engine' = [engine EXCEPT !.arena = IF execution = left THEN release(@, handle_at(@, maker))
                                            ELSE reduced(@, maker, left - execution)]
      /\ replay' = [replay EXCEPT
                      !.remaining = @ - execution,
                      !.events = Append(@, event("trade", command.payload.order_id, {}, TRUE))]
      /\ UNCHANGED <<input, adapter, admitted>>

\* It meets no more of them: what is left of it rests in a free slot.
submit_limit_order(command) ==
  LET payload == command.payload
      order == [id |-> payload.order_id, side |-> payload.side, remaining |-> replay.remaining]
      reported(handle) == <<event("submit_result", payload.order_id, handle, TRUE)>>
                            \o replay.events
  IN  /\ in_book(command, "submit_limit") /\ payload.quantity # 0
      /\ IF replay.remaining = 0 THEN applied(command, engine.arena, reported({}))
         ELSE /\ engine.arena.free_head # NoSlot
              /\ applied(command, acquire(engine.arena, order),
                         reported({handle_at(engine.arena, engine.arena.free_head)}))

cancel_order(command) ==
  LET handle == command.payload.handle
      live == is_live_handle(engine.arena, handle)
      id == IF live THEN engine.arena.slot[handle.index].order.id ELSE 0
  IN  /\ in_book(command, "cancel")
      /\ applied(command, release(engine.arena, handle),
                 <<event("cancel_result", id, {handle}, live)>>)

amend_order(command) ==
  LET handle == command.payload.handle
      quantity == command.payload.quantity
      live == is_live_handle(engine.arena, handle)
      left == engine.arena.slot[handle.index].order.remaining
      id == IF live THEN engine.arena.slot[handle.index].order.id ELSE 0
      accepted == live /\ quantity \in 1 .. left
  IN  /\ in_book(command, "amend_quantity")
      /\ applied(command, IF ~accepted THEN engine.arena
                          ELSE reduced(engine.arena, handle.index, quantity),
                 <<event("amend_result", id, {handle}, accepted)>>)

-----------------------------------------------------------------------------
(* The caller.                                                             *)

replay_again ==
  /\ replay.phase = "failed"
  /\ replay' = NoMessage
  /\ UNCHANGED <<input, adapter, engine, admitted>>

Apply(command) ==
  \/ apply(command)
  \/ reject_limit(command)
  \/ \E maker \in Slots : match_maker(command, maker)
  \/ submit_limit_order(command)
  \/ cancel_order(command)
  \/ amend_order(command)

Next ==
  \/ \E content \in Contents, sequence \in 0 .. MaxValue :
       read_next([content EXCEPT !.sequence = sequence])
  \/ read_truncated
  \/ read_end
  \/ adapt
  \/ \E command \in replay.command : Apply(command)
  \/ record_applied_event
  \/ replay_again

Spec == Init /\ [][Next]_vars

-----------------------------------------------------------------------------
(* Properties.                                                             *)

\* Between two messages the adapter knows every live order under its id, by the
\* handle that reaches it, and the gateway holds that id: a live order can
\* always be deleted, and its id cannot be given to another order.
LiveOrdersKnown ==
  replay.phase \in {"read", "failed", "done"} =>
    \A s \in LiveSlots :
      LET id == engine.arena.slot[s].order.id
      IN  /\ id \in DOMAIN adapter.handles
          /\ adapter.handles[id] = handle_at(engine.arena, s)
          /\ id \in adapter.gateway.active

\* A delete or replace reaches no order but the one of its id, although the
\* adapter keeps the handles of makers that were filled and whose slots now
\* hold other orders.
ReachesOwnOrder ==
  [][replay.phase = "book" /\ replay.message.type # "add_order" =>
       \A s \in LiveSlots :
         engine'.arena.slot[s] # engine.arena.slot[s] =>
           engine.arena.slot[s].order.id = replay.message.order_id]_vars

\* What the adapter lets through the engine applies: the sequencer of the one
\* and the counter of the other stay in step whatever is refused in between, up
\* to and beyond the last sequence there is.
EngineFollowsSequencer ==
  /\ replay.error # "apply"
  /\ replay.phase \notin {"apply", "book"} => adapter.sequencer = engine.counter

\* No message is passed over: the commands the engine applies come from
\* consecutive messages, also when the caller goes on after an error.
NoMessageSkipped ==
  [][engine'.counter # engine.counter /\ engine.counter.last_logical_time # 0 =>
       engine'.counter.last_logical_time = engine.counter.last_logical_time + 1]_vars

\* The gateway lets at most the configured number of orders through in a window
\* of logical time.
RateBounded ==
  \A window \in DOMAIN admitted : admitted[window] <= at_least_one(MaxOrdersPerSecond)

=============================================================================
