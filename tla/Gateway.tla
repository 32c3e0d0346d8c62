------------------------------ MODULE Gateway ------------------------------
(***************************************************************************)
(* GatewayValidator of src/src/gateway.cpp: what an order must pass before *)
(* it is sequenced.  A gateway holds the ids of the orders it let through  *)
(* and has not been told to release, and a rate window for each lane.      *)
(*                                                                         *)
(* The vector of ids is a set: validate() refuses an id it holds, so it    *)
(* never holds one twice, and the order that release() disturbs is not     *)
(* read.                                                                   *)
(***************************************************************************)
EXTENDS Words, FiniteSets

CONSTANTS
  MaxActiveOrders,      \* config_.max_active_orders
  MaxLanes,             \* config_.max_lanes
  MaxOrderQuantity,     \* config_.max_quantity
  MaxNotional,          \* config_.max_notional
  MinPrice, MaxPrice,   \* the price collar
  MaxOrdersPerSecond,   \* config_.max_orders_per_second
  RateWindowSize        \* kRateWindowSize

ASSUME RateAssumption ==
  MaxLanes \in Nat /\ MaxOrdersPerSecond \in Nat /\ RateWindowSize \in Nat \ {0}

\* The constructor raises zero lanes and a zero rate to one.
at_least_one(n) == IF n = 0 THEN 1 ELSE n
Lanes == 0 .. at_least_one(MaxLanes) - 1

Gateways == [active : SUBSET Word, window : [Lanes -> [start : Nat, count : Nat]]]

NewGateway ==
  [active |-> {}, window |-> [lane \in Lanes |-> [start |-> 0, count |-> 0]]]

\* The window of a lane at this time: a new one once the bucket has changed.
current_window(window, logical_time) ==
  LET bucket_start == logical_time \div RateWindowSize
  IN  IF window.count = 0 \/ bucket_start # window.start
      THEN [start |-> bucket_start, count |-> 0] ELSE window

\* Mutant of rate_limit_exceeded: one order more.
rate_limit_exceeded_late(window) == window.count > at_least_one(MaxOrdersPerSecond)

rate_limit_exceeded(window) == window.count >= at_least_one(MaxOrdersPerSecond)

absolute_notional(price, quantity) ==
  LET ticks == IF price < 0 THEN -price ELSE price
  IN  IF ticks # 0 /\ quantity > MaxValue \div ticks THEN MaxValue ELSE ticks * quantity

\* Mutant of refusal: an id that is in use is let through.
refusal_any_id(gateway, lane, id, price, quantity) ==
  IF lane \notin Lanes THEN "invalid_lane"
  ELSE IF id = 0 THEN "duplicate_order_id"
  ELSE IF Cardinality(gateway.active) >= MaxActiveOrders THEN "order_capacity_exhausted"
  ELSE IF quantity > MaxOrderQuantity THEN "quantity_too_large"
  ELSE IF price \notin MinPrice .. MaxPrice THEN "price_out_of_collar"
  ELSE IF absolute_notional(price, quantity) > MaxNotional THEN "notional_too_large"
  ELSE "none"

\* The checks that come before the rate.
refusal(gateway, lane, id, price, quantity) ==
  IF lane \notin Lanes THEN "invalid_lane"
  ELSE IF id = 0 \/ id \in gateway.active THEN "duplicate_order_id"
  ELSE IF Cardinality(gateway.active) >= MaxActiveOrders THEN "order_capacity_exhausted"
  ELSE IF quantity > MaxOrderQuantity THEN "quantity_too_large"
  ELSE IF price \notin MinPrice .. MaxPrice THEN "price_out_of_collar"
  ELSE IF absolute_notional(price, quantity) > MaxNotional THEN "notional_too_large"
  ELSE "none"

validate(gateway, lane, id, price, quantity, logical_time) ==
  LET reason == refusal(gateway, lane, id, price, quantity)
      window == current_window(gateway.window[lane], logical_time)
  IN  IF reason # "none" THEN [reason |-> reason, gateway |-> gateway]
      ELSE IF rate_limit_exceeded(window)
      THEN [reason |-> "rate_limited", gateway |-> [gateway EXCEPT !.window[lane] = window]]
      ELSE [reason |-> "none",
            gateway |-> [active |-> gateway.active \cup {id},
                         window |-> [gateway.window EXCEPT
                                      ![lane] = [window EXCEPT !.count = @ + 1]]]]

release_id(gateway, id) == [gateway EXCEPT !.active = @ \ {id}]

=============================================================================
