----------------------------- MODULE MCGateway -----------------------------
(* Instances of Gateway for TLC: one board of each kind, both of which     *)
(* can be loaded with the other's firmware.                                *)
EXTENDS Gateway, TLC

MCBoards == {"a", "b"}
MCHome == "a" :> "tx" @@ "b" :> "rx"
MCWishes == {1 :> [tx |-> "b", rx |-> "a"] @@ 2 :> [tx |-> "a", rx |-> "b"]}
MCSwappable == {"a", "b"}
=============================================================================
