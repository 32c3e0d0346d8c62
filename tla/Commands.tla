------------------------------ MODULE Commands -----------------------------
(***************************************************************************)
(* The commands of src/src/command.cpp: which payloads are canonical, and  *)
(* the sequencer that stamps them.                                         *)
(*                                                                         *)
(* A field that a kind of command does not use is zero ("buy" and "gtc"    *)
(* are the zeros of their fields), so that equal commands have equal       *)
(* bytes.                                                                  *)
(***************************************************************************)
EXTENDS Words

ZeroHandle == [index |-> 0, generation |-> 0]

ZeroPayload == [tag |-> "none", order_id |-> 0, side |-> "buy", time_in_force |-> "gtc",
                price |-> 0, quantity |-> 0, handle |-> ZeroHandle]

\* The fields that each kind of command uses.  An iceberg's display quantity
\* and a stop's trigger price are stored in the bytes of the handle.
CommandFields ==
  [submit_limit |-> {"order_id", "side", "time_in_force", "price", "quantity"},
   submit_market |-> {"order_id", "side", "quantity"},
   submit_iceberg |-> {"order_id", "side", "price", "quantity", "handle"},
   submit_stop |-> {"order_id", "side", "quantity", "handle"},
   submit_stop_limit |-> {"order_id", "side", "price", "quantity", "handle"},
   cancel |-> {"handle"},
   amend_quantity |-> {"quantity", "handle"},
   replace |-> {"price", "quantity", "handle"},
   uncross_opening_auction |-> {}]

validate_command_payload(payload) ==
  /\ payload.tag \in DOMAIN CommandFields
  /\ payload.side \in {"buy", "sell"}
  /\ payload.time_in_force \in {"gtc", "ioc", "fok"}
  /\ \A field \in DOMAIN ZeroPayload \ (CommandFields[payload.tag] \cup {"tag"}) :
       payload[field] = ZeroPayload[field]

submit_limit(id, side, price, quantity) ==
  [ZeroPayload EXCEPT !.tag = "submit_limit", !.order_id = id, !.side = side,
                      !.price = price, !.quantity = quantity]

cancel(handle) == [ZeroPayload EXCEPT !.tag = "cancel", !.handle = handle]

amend_quantity(handle, quantity) ==
  [ZeroPayload EXCEPT !.tag = "amend_quantity", !.handle = handle, !.quantity = quantity]

-----------------------------------------------------------------------------
(* The sequencer.  A std::expected is a set of at most one command.        *)

NewSequencer == [next_sequence |-> 1, exhausted |-> FALSE, last_logical_time |-> 0]

\* After a command with this sequence and time: the last sequence there is
\* exhausts the counter.
advance(counter, logical_time) ==
  IF counter.next_sequence = MaxValue
  THEN [counter EXCEPT !.exhausted = TRUE, !.last_logical_time = logical_time]
  ELSE [counter EXCEPT !.next_sequence = @ + 1, !.last_logical_time = logical_time]

\* Mutant of stamp: the last sequence is given out again and again.
stamp_reuses(sequencer, payload, logical_time) ==
  IF ~validate_command_payload(payload) \/ logical_time < sequencer.last_logical_time
  THEN [command |-> {}, sequencer |-> sequencer]
  ELSE [command |-> {[payload |-> payload, sequence |-> sequencer.next_sequence,
                      logical_time |-> logical_time]},
        sequencer |-> advance(sequencer, logical_time)]

stamp(sequencer, payload, logical_time) ==
  IF \/ ~validate_command_payload(payload)
     \/ logical_time < sequencer.last_logical_time
     \/ sequencer.exhausted
  THEN [command |-> {}, sequencer |-> sequencer]
  ELSE [command |-> {[payload |-> payload, sequence |-> sequencer.next_sequence,
                      logical_time |-> logical_time]},
        sequencer |-> advance(sequencer, logical_time)]

=============================================================================
