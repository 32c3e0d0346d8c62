------------------------ MODULE MCMarketDataAdapter ------------------------
(* Instances of MarketDataAdapter for TLC.                                 *)
EXTENDS MarketDataAdapter

Add(id, side, price, quantity) ==
  [ZeroFrame EXCEPT !.type = "add_order", !.order_id = id, !.side = side, !.price = price,
                    !.quantity = quantity]

Delete(id) == [ZeroFrame EXCEPT !.type = "delete_order", !.order_id = id]
Replace(id, quantity) ==
  [ZeroFrame EXCEPT !.type = "replace_order", !.order_id = id, !.quantity = quantity]

\* Orders that the gateway admits, and one that fails each of its checks.
MCAdds ==
  {Add(1, "buy", 1, 2), Add(2, "sell", 1, 1), Add(2, "buy", 1, 2), Add(3, "buy", 1, 1),
   Add(0, "buy", 1, 1), Add(3, "buy", 1, 4), Add(3, "sell", 4, 1), Add(3, "buy", -3, 3)}

\* Messages the adapter has no command for, and frames that are not canonical.
MCOthers ==
  {[ZeroFrame EXCEPT !.type = "trade", !.order_id = 1, !.secondary_order_id = 2],
   [ZeroFrame EXCEPT !.type = "none"],
   [Delete(1) EXCEPT !.price = 1]}

MCMinPrice == -3

MCContents == MCAdds \cup {Delete(1), Delete(3), Replace(1, 1), Replace(2, 2)} \cup MCOthers

=============================================================================
