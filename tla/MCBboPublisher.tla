--------------------------- MODULE MCBboPublisher --------------------------
(* An instance of BboPublisher for TLC. Readers only read, so that one of  *)
(* them meets every interleaving with the writer.                          *)
EXTENDS BboPublisher

MCPrices == {1, 2}
MCQuantities == {3}

=============================================================================
