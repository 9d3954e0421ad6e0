---------------------------- MODULE MCAggregator ----------------------------
(***************************************************************************)
(* One aggregator in storage and those the transaction creates.            *)
(***************************************************************************)
EXTENDS Aggregator

MCValues == {1, 2, 5}
=============================================================================
