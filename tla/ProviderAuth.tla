---------------------------- MODULE ProviderAuth ----------------------------
(***************************************************************************)
(* `PreflightGuard` and `AuthCheckCache` of provider/mod.rs, composed with *)
(* the credential memo: a thread resolves the credentials its alias        *)
(* declares (CredentialMemo), builds a provider instance that holds them,  *)
(* and every operation of the instance first checks that the provider is   *)
(* signed in.  The probe behind the check is shared by all instances of a  *)
(* process with one `auth_scope_key`, which for the providers that take    *)
(* credentials includes them (onepassword.rs, dashlane.rs).                *)
(*                                                                         *)
(* A cell is an `Arc<OnceLock>`: one caller runs the probe, the others     *)
(* block on it.  One that has left the map lives on in the checks that     *)
(* hold it, and is free for reuse here when none does.  A probe that       *)
(* panics is left out.                                                     *)
(***************************************************************************)
EXTENDS CredentialMemo

CONSTANT Cells   \* identities of cells

NoCell == "no cell"
Scopes == Fetched

ASSUME CellsAssumption == NoCell \notin Cells

VARIABLES
    cells,     \* the map: the cell of each scope key, or NoCell
    cell,      \* what each cell holds, and whether a failure was handed on
    guard,     \* each thread's instance and where its check is
    signedIn,  \* the credentials the service accepts now
    proven     \* history: the credentials a probe found accepted

authVars == <<cells, cell, guard, signedIn, proven>>
allVars  == <<vars, authVars>>
-----------------------------------------------------------------------------
Unprobed == [state |-> "empty", told |-> FALSE]

NoInstance == [pc |-> "out", with |-> Idle.read, cell |-> NoCell, passed |-> FALSE]

Own(c) == cell[guard[c].cell]

Spare(x) == x \notin Range(cells) /\ \A c \in Callers : guard[c].cell # x

AuthInit ==
    /\ Init
    /\ cells = [s \in Scopes |-> NoCell]
    /\ cell = [x \in Cells |-> Unprobed]
    /\ guard = [c \in Callers |-> NoInstance]
    /\ signedIn \in SUBSET Scopes
    /\ proven = {}

(* A thread without an instance is somewhere in the memo; a resolution that *)
(* failed builds nothing.                                                   *)
Resolving(c) ==
    /\ guard[c].pc = "out"
    /\ \/ Acquire(c) \/ ReadCredential(c) \/ Memoize(c) \/ Release(c) \/ Forget(c)
       \/ call[c].result = "error" /\ Return(c)
    /\ UNCHANGED authVars

Ask(c) ==
    /\ guard[c].pc = "out"
    /\ \E k \in Keys : LookUp(c, k)
    /\ UNCHANGED authVars

Build(c) ==
    /\ guard[c].pc = "out" /\ call[c].result = "ok"
    /\ Return(c)
    /\ guard' = [guard EXCEPT ![c] = [NoInstance EXCEPT !.pc = "ready", !.with = call[c].read]]
    /\ UNCHANGED <<cells, cell, signedIn, proven>>

Discard(c) ==
    /\ guard[c].pc = "ready"
    /\ guard' = [guard EXCEPT ![c] = NoInstance]
    /\ UNCHANGED <<vars, cells, cell, signedIn, proven>>
-----------------------------------------------------------------------------
(* An operation of the instance: its check takes the scope's cell, a new    *)
(* one if the map has none.                                                 *)
ScopeByAccount(c) == Idle.read

Scope(c) == guard[c].with

Check(c) ==
    /\ guard[c].pc = "ready"
    /\ \E x \in Cells :
         /\ IF cells[Scope(c)] # NoCell THEN x = cells[Scope(c)]
            ELSE Spare(x) /\ x = CHOOSE s \in Cells : Spare(s)
         /\ guard' = [guard EXCEPT ![c].pc = "wait", ![c].cell = x, ![c].passed = FALSE]
         /\ cell' = IF cells[Scope(c)] # NoCell THEN cell ELSE [cell EXCEPT ![x] = Unprobed]
         /\ cells' = [cells EXCEPT ![Scope(c)] = x]
    /\ UNCHANGED <<vars, signedIn, proven>>

(* The first caller of an empty cell runs the probe.                        *)
Probe(c) ==
    /\ guard[c].pc = "wait" /\ Own(c).state = "empty"
    /\ cell' = [cell EXCEPT ![guard[c].cell].state = "running"]
    /\ guard' = [guard EXCEPT ![c].pc = "probe"]
    /\ UNCHANGED <<vars, cells, signedIn, proven>>

(* The probe asks the service with the instance's credentials; it may fail  *)
(* for reasons of its own.                                                  *)
RecordedIfOk(ok) == IF ok THEN "ok" ELSE "running"

Recorded(ok) == IF ok THEN "ok" ELSE "error"

Probed(c) ==
    /\ guard[c].pc = "probe"
    /\ \/ /\ guard[c].with \in signedIn
          /\ cell' = [cell EXCEPT ![guard[c].cell].state = Recorded(TRUE)]
          /\ proven' = proven \cup {guard[c].with}
       \/ /\ guard[c].with \notin signedIn \/ Fails("read")
          /\ cell' = [cell EXCEPT ![guard[c].cell].state = Recorded(FALSE)]
          /\ UNCHANGED proven
    /\ guard' = [guard EXCEPT ![c].pc = "wait"]
    /\ UNCHANGED <<vars, cells, signedIn>>

Pass(c) ==
    /\ guard[c].pc = "wait" /\ Own(c).state = "ok"
    /\ guard' = [guard EXCEPT ![c].pc = "ready", ![c].cell = NoCell, ![c].passed = TRUE]
    /\ UNCHANGED <<vars, cells, cell, signedIn, proven>>

(* A failure is handed to whoever waited, and the cell leaves the map if it *)
(* is still the one the map has.                                            *)
DroppedAlways(c) == TRUE

Dropped(c) == cells[Scope(c)] = guard[c].cell

Refuse(c) ==
    /\ guard[c].pc = "wait" /\ Own(c).state = "error"
    /\ cells' = [cells EXCEPT ![Scope(c)] = IF Dropped(c) THEN NoCell ELSE @]
    /\ cell' = [cell EXCEPT ![guard[c].cell].told = TRUE]
    /\ guard' = [guard EXCEPT ![c].pc = "ready", ![c].cell = NoCell]
    /\ UNCHANGED <<vars, signedIn, proven>>

Guarding(c) == Build(c) \/ Probe(c) \/ Probed(c) \/ Pass(c) \/ Refuse(c)

(* The user signs in, unlocks or signs out; rotations go on meanwhile.      *)
SignInOrOut(s) ==
    /\ signedIn' = IF s \in signedIn THEN signedIn \ {s} ELSE signedIn \cup {s}
    /\ UNCHANGED <<vars, cells, cell, guard, proven>>

Rotation == (StoreCredential \/ SkipCredential \/ ClearMemo) /\ UNCHANGED authVars

AuthNext ==
    \/ \E c \in Callers : Ask(c) \/ Resolving(c) \/ Guarding(c) \/ Check(c) \/ Discard(c)
    \/ \E s \in Scopes : SignInOrOut(s)
    \/ Rotation

AuthSpec == AuthInit /\ [][AuthNext]_allVars

(* Each thread runs what it has begun; whether it begins is its caller's.   *)
FairAuth == AuthSpec /\ \A c \in Callers : WF_allVars(Resolving(c) \/ Guarding(c))
-----------------------------------------------------------------------------
(* Properties *)

(* Every variable stays in its type: a thread holds a cell exactly while it *)
(* waits for one.                                                           *)
GuardType == [pc : {"out", "ready", "wait", "probe"}, with : Scopes,
              cell : Cells \cup {NoCell}, passed : BOOLEAN]

GuardsOK ==
    /\ cells \in [Scopes -> Cells \cup {NoCell}]
    /\ cell \in [Cells -> [state : {"empty", "running", "ok", "error"}, told : BOOLEAN]]
    /\ guard \in [Callers -> GuardType]
    /\ \A c \in Callers : guard[c].pc \in {"wait", "probe"} <=> guard[c].cell # NoCell
    /\ signedIn \subseteq Scopes /\ proven \subseteq Scopes

AuthTypeOK == TypeOK /\ GuardsOK

(* An operation goes ahead only with credentials that some probe of this    *)
(* process found accepted: a rotation is never covered by the probe of the  *)
(* credentials it replaced ("two instances supplied with different tokens   *)
(* never share a preflight probe").                                         *)
ProbedBeforeUse == \A c \in Callers : guard[c].passed => guard[c].with \in proven

(* Once a failure was handed to one caller, no check begun later is given   *)
(* it ("the user may fix auth mid-process, so the next check re-probes").   *)
FailuresAreNotKept == \A s \in Scopes : cells[s] # NoCell => ~cell[cells[s]].told

(* Every operation is covered by a probe of its own credentials, and no     *)
(* failed probe outlives the call it was handed to.                         *)
ProbesCount == ProbedBeforeUse /\ FailuresAreNotKept

(* A success stays: a caller that is late with an earlier failure does not  *)
(* take away the cell that replaced it.                                     *)
Succeeded(s) == cells[s] # NoCell /\ cell[cells[s]].state = "ok"

SuccessIsKept == [][\A s \in Scopes : Succeeded(s) => Succeeded(s)']_allVars

(* What was good stays: a memo until a rotation or its own failed call, a   *)
(* success for the process.                                                 *)
KeptOnceGood == MemoKept /\ SuccessIsKept

(* Every check returns, whoever runs the probe.                             *)
EveryCheckReturns == \A c \in Callers : guard[c].pc = "wait" ~> guard[c].pc = "ready"

(* No thread is left waiting, for another's credentials or another's probe, *)
(* whatever fails.                                                          *)
EveryoneReturns == EveryCallReturns /\ EveryCheckReturns
=============================================================================
