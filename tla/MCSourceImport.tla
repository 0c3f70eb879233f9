--------------------------- MODULE MCSourceImport ---------------------------
(***************************************************************************)
(* Small instances of SourceImport for TLC: two secrets, and two or three  *)
(* stores they can be moved between.                                       *)
(***************************************************************************)
EXTENDS SourceImport, TLC

CONSTANTS p1, p2,               \* processes
          old, older, vault, pass,  \* stores
          url, key,             \* secrets
          item, item2,          \* addresses
          v1, v2                \* values

TwoNames   == <<url, key>>
OneName    == <<url>>

OwnAddrs   == (url :> item) @@ (key :> item2)
SharedRef  == (url :> item) @@ (key :> item)
OneAddr    == (url :> item)

(* `url` moves to a vault and `key` to a store the user may import from. *)
ToTwoStores == (url :> vault) @@ (key :> pass)
ToVault     == (url :> vault)

AllFaults == FaultKinds
NoFaults  == {}
=============================================================================
