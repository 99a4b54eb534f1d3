---------------------------- MODULE MCAmqpClient ----------------------------
(***************************************************************************)
(* One subscription and messages to the same and to another exchange.      *)
(***************************************************************************)
EXTENDS AmqpClient
CONSTANTS s1, e1, e2
MCExchangeOf == [x \in Subscriptions \cup 1..MaxMessages |-> IF x = 2 THEN e2 ELSE e1]
=============================================================================
