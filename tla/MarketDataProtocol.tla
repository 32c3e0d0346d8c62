------------------------- MODULE MarketDataProtocol ------------------------
(***************************************************************************)
(* Frames of src/src/market_data_protocol.cpp and the stream that reads    *)
(* them, src/src/market_data_input.cpp.  A frame is the record of its      *)
(* fields; offsets and byte order are left out.  Which error a refused     *)
(* frame gets is left out too: read_next() turns them all into one.        *)
(***************************************************************************)
EXTENDS Words

ProtocolVersion == 1

ZeroFrame == [version |-> ProtocolVersion, type |-> "none", reserved |-> 0, side |-> "buy",
              sequence |-> 0, order_id |-> 0, secondary_order_id |-> 0, price |-> 0,
              quantity |-> 0, secondary_quantity |-> 0, order_count |-> 0]

\* A byte that stands for no type, or for no side, is "none".
FrameTypes ==
  {"none", "add_order", "replace_order", "delete_order", "trade", "level_update"}
FrameSides == {"none", "buy", "sell"}

Frames ==
  [version : Nat, type : FrameTypes, reserved : Nat, side : FrameSides, sequence : Word,
   order_id : Word, secondary_order_id : Word, price : Int, quantity : Word,
   secondary_quantity : Word, order_count : Word]

\* The fields that each type of message uses; the others are zero, and "buy" is
\* the zero of the side.
MessageFields ==
  [add_order |-> {"side", "order_id", "price", "quantity"},
   replace_order |-> {"order_id", "quantity"},
   delete_order |-> {"order_id"},
   trade |-> {"order_id", "secondary_order_id", "price", "quantity"},
   level_update |-> {"side", "price", "quantity", "order_count"}]

is_valid_type(type) == type \in DOMAIN MessageFields

is_canonical(message) ==
  /\ message.side \in {"buy", "sell"}
  /\ \A field \in DOMAIN ZeroFrame \ (MessageFields[message.type]
                                        \cup {"version", "type", "reserved", "sequence"}) :
       message[field] = ZeroFrame[field]

decode_market_data_frame(frame) ==
  IF /\ frame.version = ProtocolVersion
     /\ is_valid_type(frame.type)
     /\ frame.reserved = 0
     /\ is_canonical(frame)
  THEN {frame} ELSE {}

\* After 0, which means that there was no message, any sequence may follow.
validate_market_data_sequence(previous_sequence, message) ==
  previous_sequence # 0 =>
    previous_sequence # MaxValue /\ message.sequence = previous_sequence + 1

=============================================================================
