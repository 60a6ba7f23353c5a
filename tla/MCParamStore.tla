---------------------------- MODULE MCParamStore ----------------------------
(* Instance of ParamStore for TLC. *)
EXTENDS ParamStoreProps

MCDefault == [k \in Keys |-> 0]
=============================================================================
