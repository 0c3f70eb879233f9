---------------------------- MODULE MCFileStore ----------------------------
(***************************************************************************)
(* Small instances of FileStore for TLC: two threads, in one process or in  *)
(* two, over a file of three entries.                                       *)
(***************************************************************************)
EXTENDS FileStore, TLC

CONSTANTS t1, t2, app, ci, url, token, dashed, v1, v2, none

OneOrTwo == {[t \in {t1, t2} |-> app], (t1 :> app) @@ (t2 :> ci)}
OnlyOne  == {t1 :> app}
=============================================================================
