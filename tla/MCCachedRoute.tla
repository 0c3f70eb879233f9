--------------------------- MODULE MCCachedRoute ---------------------------
(***************************************************************************)
(* Small instances of CachedRoute for TLC: two authoritative stores behind *)
(* one or two cached aliases.                                              *)
(***************************************************************************)
EXTENDS CachedRoute, TLC

CONSTANTS p1, p2, azure, env, myprovider, other, local

OneLink   == [a \in {myprovider} |-> <<azure>>]
OneCache  == [a \in {myprovider} |-> local]

(* Two aliases over different chains that share a cache store. *)
TwoChains   == (myprovider :> <<azure, env>>) @@ (other :> <<env>>)
SharedCache == (myprovider :> local) @@ (other :> local)

AllFaults     == FaultKinds
NoFaults      == {}
=============================================================================
