-------------------------- MODULE MCStoreAdapters --------------------------
(***************************************************************************)
(* Small instances of StoreAdapters for TLC: two processes, a name of the  *)
(* convention and one of a reference, and a written value that comes back  *)
(* trimmed or cut where the provider trims or cuts.                        *)
(***************************************************************************)
EXTENDS StoreAdapters, TLC

CONSTANTS app, ci, conv, refd, oldval, paddedval, bareval, firstval, unknownval

Trims == (oldval :> oldval) @@ (paddedval :> bareval) @@ (bareval :> bareval) @@ (firstval :> firstval)
Cuts  == (oldval :> oldval) @@ (paddedval :> firstval) @@ (bareval :> bareval) @@ (firstval :> firstval)

FirstIds == (conv :> 1) @@ (refd :> 2)

SomeMeddling ==
    [k \in Kinds |-> CASE k \in {"keeper", "dashlane"} -> {"removes", "adds", "doubles"}
                      [] k = "lastpass" -> {"removes", "doubles"}
                      [] k \in {"bws", "protonpass", "pass", "gopass"} -> {}
                      [] OTHER -> {"removes", "adds"}]

TwoProcs == Permutations(Procs)
=============================================================================
