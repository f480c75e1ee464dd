------------------------------ MODULE MCBuilder ------------------------------
(* Builder with two LND nodes and a channel each.                          *)
EXTENDS Builder

CONSTANTS miner, loopLnd, loopServer, alice, bob

TwoNodes == <<alice, bob>>
AChannelEach == [n \in {alice, bob} |-> IF n = alice THEN <<bob>> ELSE <<alice>>]
=============================================================================
