------------------------------ MODULE MCLoadGen ------------------------------
(***************************************************************************)
(* A window of three sends, a table that wraps after two, and latencies    *)
(* that reach past the exact buckets and past the largest trackable value. *)
(***************************************************************************)
EXTENDS LoadGen, TLC

OtherThreads == {EmptyBag, (1 :> 1) @@ (5 :> 2)}

=============================================================================
