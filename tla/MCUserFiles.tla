----------------------------- MODULE MCUserFiles ------------------------------
(* A program with two threads that an agent runs, beside a command line,    *)
(* for TLC.                                                                 *)
EXTENDS UserFiles

CONSTANTS a, b, t1, t2, t3, P, A, X, Y

MCProcessOf == [t \in {t1, t2, t3} |-> IF t = t3 THEN b ELSE a]
\* What one behaviour is about: settings, manifest or log.
Ops == {"open", "edit", "hand", "add", "init", "record"}
Budget(open, edit, hand, add, init, record) ==
    [op \in Ops |-> CASE op = "open" -> open [] op = "edit" -> edit [] op = "hand" -> hand
                      [] op = "add" -> add [] op = "init" -> init [] op = "record" -> record]
MCBudgets == {Budget(1, 2, 0, 0, 0, 0), Budget(1, 1, 1, 0, 0, 0),
              Budget(2, 0, 0, 2, 1, 0), Budget(1, 0, 0, 2, 0, 0), Budget(0, 0, 0, 0, 2, 0),
              Budget(2, 0, 0, 0, 0, 4)}

MCInherited == {<<"default", Y>>}
=============================================================================
