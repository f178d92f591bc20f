--------------------------- MODULE MCControlPlane ---------------------------
(***************************************************************************)
(* Five rule files that tell the cases of reload_rules() apart: the one the *)
(* server can start with, one that adds a plan, one that swaps two plans,   *)
(* one that drops a plan, and one that does not compile.                    *)
(***************************************************************************)
EXTENDS ControlPlane

MCPlansOf ==
  [c \in Contents |-> CASE c = "base"    -> <<"gold", "basic">>
                        [] c = "grown"   -> <<"gold", "basic", "iot">>
                        [] c = "swapped" -> <<"basic", "gold">>
                        [] c = "shrunk"  -> <<"gold">>
                        [] OTHER         -> <<>>]
=============================================================================
