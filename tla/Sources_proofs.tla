--------------------------- MODULE Sources_proofs ---------------------------
(***************************************************************************)
(* Proofs about moving secrets from one store to another.                  *)
(*                                                                         *)
(* SourceImport, for any stores, secrets, addresses, values and failures:  *)
(* types for any number of processes; and for one process, which may       *)
(* import from any store as often as it likes, that nothing is lost or     *)
(* overwritten and that a reported success is complete.  Two processes can *)
(* break the latter (MCSourceImport_overwrite.cfg).                        *)
(*                                                                         *)
(* Addressing, for any specs, addresses, credentials, environment and file *)
(* system: what the comparison of two providers decides before anything is *)
(* moved, cached or probed.                                                *)
(***************************************************************************)
EXTENDS SourceImport, Addressing, SequenceTheorems, WellFoundedInduction, TLAPS

(* While a process is at a secret, there is one. *)
MidItem == {"target", "copy", "verify", "delete"}

ControlOf(r) == r.pc \in MidItem => r.item \in DOMAIN Names

ControlOK == \A p \in Procs : ControlOf(proc[p])

Process == [pc : {"idle", "source", "target", "copy", "verify", "delete", "done"},
            from : Stores, delete : BOOLEAN, item : 1..Len(Names) + 1,
            value : Content, result : {"none", "ok", "error"}]

Inv == TypeOK /\ ControlOK

LEMMA NamesType == /\ Len(Names) \in Nat
                   /\ DOMAIN Names = 1..Len(Names)
                   /\ \A i \in DOMAIN Names : Names[i] \in Secret
BY ImportAssumption DEF Secret

LEMMA InitInv == Init => Inv
<1> SUFFICES ASSUME Init PROVE Inv OBVIOUS
<1>1. Idle \in Process /\ ControlOf(Idle)
  BY ImportAssumption, NamesType DEF Idle, Process, ControlOf, MidItem, Content
<1>2. held \in [Stores -> [Addrs -> Content]]
  BY DEF Init, Content
<1> QED BY <1>1, <1>2 DEF Init, Inv, TypeOK, ControlOK, Process

(* The secret a process is at, its address and both stores are real. *)
LEMMA CurrentType ==
    ASSUME Inv, NEW p \in Procs, proc[p].item \in DOMAIN Names
    PROVE  /\ Current(p) \in Secret /\ At(p) \in Addrs
           /\ From(p) \in Stores /\ To(p) \in Stores
<1>1. Current(p) \in Secret BY NamesType DEF Current
<1> QED BY <1>1, ImportAssumption DEF At, From, To, Inv, TypeOK

(* One process moves, within its type; the stores keep theirs. *)
LEMMA Moves ==
    ASSUME Inv, NEW p \in Procs, NEW r \in Process, ControlOf(r),
           proc' = [proc EXCEPT ![p] = r],
           held' \in [Stores -> [Addrs -> Content]], origin' = origin
    PROVE  Inv'
<1>1. proc' \in [Procs -> Process]
  BY DEF Inv, TypeOK, Process
<1>2. \A q \in Procs : ControlOf(proc'[q])
  BY DEF Inv, TypeOK, ControlOK
<1> QED BY <1>1, <1>2 DEF Inv, TypeOK, ControlOK, ControlOf, Process

(* The three ways a step leaves a process's record.  *)
LEMMA MovesTo ==
    ASSUME Inv, NEW p \in Procs,
           held' \in [Stores -> [Addrs -> Content]], origin' = origin,
           \/ \E l \in {"target", "copy", "verify", "delete"} :
                 Goto(p, l) /\ proc[p].item \in DOMAIN Names
           \/ \E res \in {"ok", "error"} : Finish(p, res)
           \/ NextItem(p) /\ proc[p].item \in DOMAIN Names
    PROVE  Inv'
<1>1. proc[p] \in Process BY DEF Inv, TypeOK, Process
<1>2. ASSUME NEW l \in MidItem, Goto(p, l), proc[p].item \in DOMAIN Names PROVE Inv'
  <2> DEFINE r == [proc[p] EXCEPT !.pc = l]
  <2>1. r \in Process /\ ControlOf(r) BY <1>1, <1>2 DEF Process, ControlOf, MidItem
  <2>2. proc' = [proc EXCEPT ![p] = r] BY <1>2 DEF Goto, Inv, TypeOK
  <2> QED BY <2>1, <2>2, Moves
<1>3. ASSUME NEW res \in {"ok", "error"}, Finish(p, res) PROVE Inv'
  <2> DEFINE r == [proc[p] EXCEPT !.pc = "done", !.result = res]
  <2>1. r \in Process /\ ControlOf(r) BY <1>1, <1>3 DEF Process, ControlOf, MidItem
  <2>2. proc' = [proc EXCEPT ![p] = r] BY <1>3 DEF Finish, Inv, TypeOK
  <2> QED BY <2>1, <2>2, Moves
<1>4. ASSUME NextItem(p), proc[p].item \in DOMAIN Names PROVE Inv'
  <2> DEFINE r == [proc[p] EXCEPT !.pc = "source", !.item = @ + 1, !.value = NoValue]
  <2>1. proc[p].item + 1 \in 1..Len(Names) + 1 /\ NoValue \in Content
    BY <1>4, NamesType DEF Content
  <2>2. r \in Process /\ ControlOf(r)
    BY <1>1, <2>1 DEF Process, ControlOf, MidItem
  <2>3. proc' = [proc EXCEPT ![p] = r] BY <1>4 DEF NextItem, Inv, TypeOK
  <2> QED BY <2>2, <2>3, Moves
<1> QED BY <1>2, <1>3, <1>4 DEF MidItem

(* A store's content is changed to something that can be there. *)
LEMMA HeldType ==
    ASSUME Inv, NEW s \in Stores, NEW a \in Addrs, NEW v \in Content,
           held' = [held EXCEPT ![s][a] = v]
    PROVE  held' \in [Stores -> [Addrs -> Content]]
BY DEF Inv, TypeOK

LEMMA NextInv == Inv /\ [Next]_vars => Inv'
<1> SUFFICES ASSUME Inv, [Next]_vars PROVE Inv' OBVIOUS
<1>1. CASE UNCHANGED vars
  BY <1>1 DEF vars, Inv, TypeOK, ControlOK, ControlOf
<1>2. ASSUME NEW p \in Procs, NEW from \in FromStores, NEW delete \in BOOLEAN,
             Begin(p, from, delete)
      PROVE  Inv'
  <2>1. PICK ok \in {TRUE, ~Fails("build")} :
          proc' = [proc EXCEPT ![p] = [Idle EXCEPT
                     !.from = from, !.delete = delete,
                     !.pc = IF ok /\ ~Refused(from, delete) THEN "source" ELSE "done",
                     !.result = IF ok /\ ~Refused(from, delete) THEN "none" ELSE "error"]]
    BY <1>2 DEF Begin
  <2> DEFINE r == [Idle EXCEPT
                     !.from = from, !.delete = delete,
                     !.pc = IF ok /\ ~Refused(from, delete) THEN "source" ELSE "done",
                     !.result = IF ok /\ ~Refused(from, delete) THEN "none" ELSE "error"]
  <2>2. Idle \in Process /\ from \in Stores
    BY ImportAssumption, NamesType DEF Idle, Process, Content
  <2>3. r \in Process /\ ControlOf(r)
    BY <2>2 DEF Process, ControlOf, MidItem
  <2> HIDE DEF r
  <2>4. proc' = [proc EXCEPT ![p] = r] BY <2>1 DEF r
  <2> QED BY <1>2, <2>3, <2>4, Moves DEF Begin, Inv, TypeOK
<1>3. ASSUME NEW p \in Procs, Return(p) \/ Crash(p) PROVE Inv'
  <2>1. Idle \in Process /\ ControlOf(Idle)
    BY ImportAssumption, NamesType DEF Idle, Process, ControlOf, MidItem, Content
  <2> QED BY <1>3, <2>1, Moves DEF Return, Crash, Inv, TypeOK
<1>4. ASSUME NEW p \in Procs, ReadSource(p) PROVE Inv'
  <2>1. CASE Finish(p, "error")
    BY <1>4, <2>1, MovesTo DEF ReadSource, Inv, TypeOK
  <2>2. CASE proc' = [proc EXCEPT ![p].pc = "target", ![p].value = held[From(p)][At(p)]]
    <3> DEFINE r == [proc[p] EXCEPT !.pc = "target", !.value = held[From(p)][At(p)]]
    <3>1. held[From(p)][At(p)] \in Content
      BY <1>4, CurrentType DEF ReadSource, Inv, TypeOK
    <3>2. r \in Process /\ ControlOf(r)
      BY <1>4, <3>1 DEF ReadSource, Process, ControlOf, Inv, TypeOK
    <3>3. proc' = [proc EXCEPT ![p] = r]
      BY <2>2 DEF Inv, TypeOK
    <3> QED BY <1>4, <3>2, <3>3, Moves DEF ReadSource, Inv, TypeOK
  <2> QED BY <1>4, <2>1, <2>2 DEF ReadSource
<1>5. ASSUME NEW p \in Procs, ReadTarget(p) PROVE Inv'
  <2>1. proc[p].item \in DOMAIN Names
    BY <1>5 DEF ReadTarget, Inv, ControlOK, ControlOf, MidItem
  <2>2. Finish(p, "error") \/ NextItem(p) \/ Goto(p, "copy") \/ Goto(p, "delete")
    BY <1>5 DEF ReadTarget
  <2>3. UNCHANGED <<held, origin>> BY <1>5 DEF ReadTarget
  <2> QED BY <2>1, <2>2, <2>3, MovesTo DEF Inv, TypeOK
<1>6. ASSUME NEW p \in Procs, Copy(p) PROVE Inv'
  <2>1. proc[p].item \in DOMAIN Names
    BY <1>6 DEF Copy, Inv, ControlOK, ControlOf, MidItem
  <2>2. Finish(p, "error") \/ NextItem(p) \/ Goto(p, "verify")
    BY <1>6 DEF Copy, AfterCopy
  <2>3. Stored(To(p), proc[p].value) \in Content /\ Mangled \in Content
    BY DEF Stored, Content, Inv, TypeOK
  <2>4. \/ UNCHANGED held
        \/ \E v \in Content : held' = [held EXCEPT ![To(p)][At(p)] = v]
    BY <1>6, <2>3 DEF Copy
  <2>5. held' \in [Stores -> [Addrs -> Content]]
    BY <2>1, <2>4, HeldType, CurrentType DEF Inv, TypeOK
  <2> QED BY <1>6, <2>1, <2>2, <2>5, MovesTo DEF Copy
<1>7. ASSUME NEW p \in Procs, Verify(p) PROVE Inv'
  <2>1. proc[p].item \in DOMAIN Names
    BY <1>7 DEF Verify, Inv, ControlOK, ControlOf, MidItem
  <2> QED BY <1>7, <2>1, MovesTo DEF Verify, Inv, TypeOK
<1>8. ASSUME NEW p \in Procs, DeleteSource(p) PROVE Inv'
  <2>1. proc[p].item \in DOMAIN Names
    BY <1>8 DEF DeleteSource, Inv, ControlOK, ControlOf, MidItem
  <2>2. \/ UNCHANGED held
        \/ held' = [held EXCEPT ![From(p)][At(p)] = NoValue]
    BY <1>8 DEF DeleteSource
  <2>3. held' \in [Stores -> [Addrs -> Content]]
    BY <2>1, <2>2, HeldType, CurrentType DEF Inv, TypeOK, Content
  <2> QED BY <1>8, <2>1, <2>3, MovesTo DEF DeleteSource
<1>9. ASSUME NEW p \in Procs, Completes(p) PROVE Inv'
  BY <1>9, MovesTo DEF Completes, Inv, TypeOK
<1> QED
  BY <1>1, <1>2, <1>3, <1>4, <1>5, <1>6, <1>7, <1>8, <1>9 DEF Next, Step

(* Whatever is imported from where and however it fails, every variable     *)
(* stays in its type; a loop position is never past the end of the plan.    *)
THEOREM TypeCorrect == Spec => []TypeOK
<1>1. Inv => TypeOK BY DEF Inv
<1> QED BY InitInv, NextInv, <1>1, PTL DEF Spec

-----------------------------------------------------------------------------
(* One process.  A value under way is still in the source; one about to be  *)
(* copied meets an empty destination, one about to be deleted is at its     *)
(* destination, which is another store.                                     *)
Active == MidItem \cup {"source"}

LoopOf(r, store) ==
    LET n == Names[r.item]
        a == AddrOf[n]
    IN /\ r.pc \in Active /\ r.delete => \A m \in Secret : Target[m] # r.from
       /\ r.pc \in MidItem => r.value = store[r.from][a]
       /\ r.pc \in {"copy", "verify", "delete"} => r.value # NoValue
       /\ r.pc = "copy" => store[Target[n]][a] = NoValue
       /\ r.pc \in {"verify", "delete"} => r.delete
       /\ r.pc = "delete" => store[Target[n]][a] = r.value

(* The secrets a deleting import is past: what their source still holds     *)
(* differs from what their destination holds.                               *)
Settled(n, from, store) ==
    store[from][AddrOf[n]] # NoValue =>
        store[Target[n]][AddrOf[n]] \notin {NoValue, store[from][AddrOf[n]]}

PassedOf(r, store) ==
    /\ r.pc = "done" /\ r.result = "ok" => r.item \notin DOMAIN Names
    /\ r.delete /\ (r.pc \in Active \/ (r.pc = "done" /\ r.result = "ok")) =>
          \A i \in DOMAIN Names : i < r.item => Settled(Names[i], r.from, store)

Alone(p) == LoopOf(proc[p], held) /\ PassedOf(proc[p], held) /\ NothingLost

(* A copy to an empty address takes nothing away.                           *)
LEMMA CopyLosesNothing ==
    ASSUME Inv, NothingLost, NEW t \in Stores, NEW a \in Addrs, NEW v \in Content,
           held[t][a] = NoValue, held' = [held EXCEPT ![t][a] = v], origin' = origin
    PROVE  NothingLost'
<1> SUFFICES ASSUME NEW s \in Stores, NEW b \in Addrs, origin[s][b] # NoValue
             PROVE  Survives(s, b)'
  BY DEF NothingLost
<1>1. PICK u \in {s} \cup {Target[n] : n \in {m \in Secret : AddrOf[m] = b}} :
        held[u][b] = origin[s][b]
  BY DEF NothingLost, Survives
<1>2. u \in Stores BY <1>1, ImportAssumption
<1>3. ~(u = t /\ b = a) BY <1>1
<1>4. held'[u][b] = held[u][b] BY <1>2, <1>3 DEF Inv, TypeOK
<1> QED BY <1>1, <1>4 DEF Survives

(* A deletion takes nothing away that the destination holds as well. *)
LEMMA DeleteLosesNothing ==
    ASSUME Inv, NothingLost, NEW n \in Secret, NEW from \in Stores,
           Target[n] # from, held[Target[n]][AddrOf[n]] = held[from][AddrOf[n]],
           held' = [held EXCEPT ![from][AddrOf[n]] = NoValue], origin' = origin
    PROVE  NothingLost'
<1> SUFFICES ASSUME NEW s \in Stores, NEW b \in Addrs, origin[s][b] # NoValue
             PROVE  Survives(s, b)'
  BY DEF NothingLost
<1> DEFINE places == {s} \cup {Target[m] : m \in {m \in Secret : AddrOf[m] = b}}
<1>1. PICK u \in places : held[u][b] = origin[s][b]
  BY DEF NothingLost, Survives
<1>2. u \in Stores /\ Target[n] \in Stores BY <1>1, ImportAssumption
<1>3. CASE u = from /\ b = AddrOf[n]
  <2>1. Target[n] \in places BY <1>3
  <2>2. held'[Target[n]][b] = origin[s][b]
    BY <1>1, <1>2, <1>3 DEF Inv, TypeOK
  <2> QED BY <2>1, <2>2 DEF Survives
<1>4. CASE ~(u = from /\ b = AddrOf[n])
  <2>1. held'[u][b] = held[u][b] BY <1>2, <1>4 DEF Inv, TypeOK
  <2> QED BY <1>1, <2>1 DEF Survives
<1> QED BY <1>3, <1>4

LEMMA InitAlone == ASSUME NEW p \in Procs, Init PROVE Alone(p)
<1>1. proc[p].pc = "idle" BY DEF Init, Idle
<1>2. NothingLost BY DEF Init, NothingLost, Survives
<1> QED BY <1>1, <1>2 DEF Alone, LoopOf, PassedOf, Active, MidItem

(* A process that failed, returned or died owes nothing. *)
LEMMA StoppedAlone ==
    ASSUME NEW p \in Procs, NEW r,
           r.pc = "idle" \/ (r.pc = "done" /\ r.result = "error")
    PROVE  LoopOf(r, held') /\ PassedOf(r, held')
BY DEF LoopOf, PassedOf, Active, MidItem

(* A process that goes on to the next secret has settled this one. *)
LEMMA NextAlone ==
    ASSUME Inv, NEW p \in Procs, NextItem(p), proc[p].pc \in MidItem,
           LoopOf(proc[p], held), proc[p].delete =>
             \A i \in DOMAIN Names : i <= proc[p].item => Settled(Names[i], From(p), held')
    PROVE  LoopOf(proc'[p], held') /\ PassedOf(proc'[p], held')
<1>1. /\ proc'[p] = [proc[p] EXCEPT !.pc = "source", !.item = @ + 1, !.value = NoValue]
      /\ proc[p] \in Process /\ proc[p].item \in Nat
  BY NamesType DEF NextItem, Inv, TypeOK, Process
<1>2. /\ proc'[p].pc = "source" /\ proc'[p].item = proc[p].item + 1
      /\ proc'[p].from = proc[p].from /\ proc'[p].delete = proc[p].delete
  BY <1>1 DEF Process
<1>3. LoopOf(proc'[p], held')
  BY <1>2 DEF LoopOf, Active, MidItem
<1>4. \A i \in DOMAIN Names : i < proc[p].item + 1 => i <= proc[p].item
  BY <1>1, NamesType
<1>5. PassedOf(proc'[p], held')
  BY <1>2, <1>4 DEF PassedOf, From
<1> QED BY <1>3, <1>5

LEMMA SettledByCopy ==
    ASSUME Inv, NEW n \in Secret, NEW from \in Stores, NEW t \in Stores,
           NEW a \in Addrs, NEW v, t # from, held[t][a] = NoValue,
           held' = [held EXCEPT ![t][a] = v], Settled(n, from, held)
    PROVE  Settled(n, from, held')
<1>1. AddrOf[n] \in Addrs /\ Target[n] \in Stores BY ImportAssumption
<1>2. held'[from][AddrOf[n]] = held[from][AddrOf[n]]
  BY <1>1 DEF Inv, TypeOK
<1>3. CASE Target[n] = t /\ AddrOf[n] = a
  BY <1>2, <1>3 DEF Settled
<1>4. CASE ~(Target[n] = t /\ AddrOf[n] = a)
  <2>1. held'[Target[n]][AddrOf[n]] = held[Target[n]][AddrOf[n]]
    BY <1>1, <1>4 DEF Inv, TypeOK
  <2> QED BY <1>2, <2>1 DEF Settled
<1> QED BY <1>3, <1>4

LEMMA SettledByDelete ==
    ASSUME Inv, NEW n \in Secret, NEW from \in Stores, NEW a \in Addrs,
           Target[n] # from, Settled(n, from, held) \/ AddrOf[n] = a,
           held' = [held EXCEPT ![from][a] = NoValue]
    PROVE  Settled(n, from, held')
<1>1. AddrOf[n] \in Addrs /\ Target[n] \in Stores BY ImportAssumption
<1>2. CASE AddrOf[n] = a
  <2>1. held'[from][AddrOf[n]] = NoValue BY <1>1, <1>2 DEF Inv, TypeOK
  <2> QED BY <2>1 DEF Settled
<1>3. CASE AddrOf[n] # a
  <2>1. /\ held'[from][AddrOf[n]] = held[from][AddrOf[n]]
        /\ held'[Target[n]][AddrOf[n]] = held[Target[n]][AddrOf[n]]
    BY <1>1, <1>3 DEF Inv, TypeOK
  <2> QED BY <1>3, <2>1 DEF Settled
<1> QED BY <1>2, <1>3

(* One lemma per group of steps. *)
LEMMA BeginAlone ==
    ASSUME Inv, NEW p \in Procs, NEW from \in FromStores, NEW delete \in BOOLEAN,
           Begin(p, from, delete)
    PROVE  LoopOf(proc'[p], held') /\ PassedOf(proc'[p], held')
<1>1. proc \in [Procs -> Process] BY DEF Inv, TypeOK, Process
<1>2. PICK ok \in {TRUE, ~Fails("build")} :
          proc' = [proc EXCEPT ![p] = [Idle EXCEPT
                     !.from = from, !.delete = delete,
                     !.pc = IF ok /\ ~Refused(from, delete) THEN "source" ELSE "done",
                     !.result = IF ok /\ ~Refused(from, delete) THEN "none" ELSE "error"]]
  BY DEF Begin
<1>3. CASE ~(ok /\ ~Refused(from, delete))
  <2>1. proc'[p].pc = "done" /\ proc'[p].result = "error"
    BY <1>1, <1>2, <1>3 DEF Idle
  <2> QED BY <2>1, StoppedAlone
<1>4. CASE ok /\ ~Refused(from, delete)
  <2>1. /\ proc'[p].pc = "source" /\ proc'[p].from = from
        /\ proc'[p].delete = delete /\ proc'[p].item = 1
    BY <1>1, <1>2, <1>4 DEF Idle
  <2>2. delete => \A m \in Secret : Target[m] # from
    BY <1>4 DEF Refused
  <2>3. LoopOf(proc'[p], held')
    BY <2>1, <2>2 DEF LoopOf, MidItem
  <2>4. \A i \in DOMAIN Names : ~(i < 1)
    BY NamesType
  <2> QED BY <2>1, <2>3, <2>4 DEF PassedOf
<1> QED BY <1>3, <1>4

LEMMA ReadSourceAlone ==
    ASSUME Inv, NEW p \in Procs, Alone(p), ReadSource(p)
    PROVE  LoopOf(proc'[p], held') /\ PassedOf(proc'[p], held')
<1>1. proc \in [Procs -> Process] BY DEF Inv, TypeOK, Process
<1>2. CASE Finish(p, "error")
  BY <1>1, <1>2, StoppedAlone DEF Finish, Process
<1>3. CASE proc' = [proc EXCEPT ![p].pc = "target", ![p].value = held[From(p)][At(p)]]
  <2>1. /\ proc'[p].pc = "target" /\ proc'[p].value = held[From(p)][At(p)]
        /\ proc'[p].from = proc[p].from /\ proc'[p].delete = proc[p].delete
        /\ proc'[p].item = proc[p].item
    BY <1>1, <1>3 DEF Process
  <2>2. held' = held /\ proc[p].pc = "source" BY DEF ReadSource
  <2>3. LoopOf(proc'[p], held')
    BY <2>1, <2>2 DEF Alone, LoopOf, Active, MidItem, From, At, Current
  <2>4. PassedOf(proc'[p], held')
    BY <2>1, <2>2 DEF Alone, PassedOf, Active, MidItem
  <2> QED BY <2>3, <2>4
<1> QED BY <1>2, <1>3 DEF ReadSource

LEMMA GotoAlone ==
    ASSUME Inv, NEW p \in Procs, NEW l, Goto(p, l)
    PROVE  /\ proc'[p].pc = l /\ proc'[p].from = proc[p].from
           /\ proc'[p].delete = proc[p].delete /\ proc'[p].item = proc[p].item
           /\ proc'[p].value = proc[p].value /\ proc'[p].result = proc[p].result
<1>1. proc \in [Procs -> Process] BY DEF Inv, TypeOK, Process
<1> QED BY <1>1 DEF Goto, Process

LEMMA ReadTargetAlone ==
    ASSUME Inv, NEW p \in Procs, Alone(p), ReadTarget(p)
    PROVE  LoopOf(proc'[p], held') /\ PassedOf(proc'[p], held')
<1>1. /\ proc \in [Procs -> Process] /\ proc[p].pc = "target" /\ held' = held
      /\ proc[p].item \in DOMAIN Names /\ proc[p].item \in Nat
  BY NamesType DEF Inv, TypeOK, Process, ReadTarget, ControlOK, ControlOf, MidItem
<1>2. LoopOf(proc[p], held) /\ PassedOf(proc[p], held) BY DEF Alone
<1>3. proc[p].value = held[From(p)][At(p)]
  BY <1>1, <1>2 DEF LoopOf, MidItem, From, At, Current
<1>4. CASE Finish(p, "error")
  BY <1>1, <1>4, StoppedAlone DEF Finish, Process
<1>5. CASE proc[p].value # NoValue /\ Missing(p) /\ Goto(p, "copy")
  <2>1. LoopOf(proc'[p], held')
    BY <1>1, <1>2, <1>5, GotoAlone DEF LoopOf, Active, MidItem, Missing, To, At, Current
  <2>2. PassedOf(proc'[p], held')
    BY <1>1, <1>2, <1>5, GotoAlone DEF PassedOf, Active, MidItem
  <2> QED BY <2>1, <2>2
<1>6. CASE proc[p].value # NoValue /\ Agrees(p) /\ Goto(p, "delete")
  <2>1. LoopOf(proc'[p], held')
    BY <1>1, <1>2, <1>6, GotoAlone DEF LoopOf, Active, MidItem, Agrees, To, At, Current
  <2>2. PassedOf(proc'[p], held')
    BY <1>1, <1>2, <1>6, GotoAlone DEF PassedOf, Active, MidItem
  <2> QED BY <2>1, <2>2
<1>7. CASE /\ NextItem(p)
           /\ proc[p].value = NoValue \/ (~Missing(p) /\ ~Agrees(p))
  <2>1. proc[p].delete => Settled(Names[proc[p].item], From(p), held)
    BY <1>3, <1>7 DEF Settled, Missing, Agrees, To, At, Current
  <2>2. proc[p].delete =>
          \A i \in DOMAIN Names : i < proc[p].item => Settled(Names[i], From(p), held)
    BY <1>1, <1>2 DEF PassedOf, Active, MidItem, From
  <2>3. \A i \in DOMAIN Names : i <= proc[p].item => i < proc[p].item \/ i = proc[p].item
    BY <1>1, NamesType
  <2> QED BY <1>1, <1>2, <1>7, <2>1, <2>2, <2>3, NextAlone DEF MidItem
<1> QED BY <1>4, <1>5, <1>6, <1>7 DEF ReadTarget

LEMMA CopyAlone ==
    ASSUME Inv, NEW p \in Procs, Alone(p), Copy(p)
    PROVE  LoopOf(proc'[p], held') /\ PassedOf(proc'[p], held') /\ NothingLost'
<1>1. /\ proc \in [Procs -> Process] /\ proc[p].pc = "copy" /\ origin' = origin
      /\ proc[p].item \in DOMAIN Names
  BY DEF Inv, TypeOK, Process, Copy, ControlOK, ControlOf, MidItem
<1>2. LoopOf(proc[p], held) /\ PassedOf(proc[p], held) /\ NothingLost BY DEF Alone
<1>3. held[To(p)][At(p)] = NoValue
  BY <1>1, <1>2 DEF LoopOf, To, At, Current
<1>4. To(p) \in Stores /\ At(p) \in Addrs /\ From(p) \in Stores
  BY <1>1, CurrentType
<1>5. Stored(To(p), proc[p].value) \in Content /\ Mangled \in Content
  BY DEF Stored, Content, Inv, TypeOK
<1>6. \/ UNCHANGED held
      \/ \E v \in Content : held' = [held EXCEPT ![To(p)][At(p)] = v]
  BY <1>5 DEF Copy
<1>7. NothingLost'
  <2>1. CASE UNCHANGED held
    BY <1>1, <1>2, <2>1 DEF NothingLost, Survives
  <2>2. CASE \E v \in Content : held' = [held EXCEPT ![To(p)][At(p)] = v]
    BY <1>1, <1>2, <1>3, <1>4, <2>2, CopyLosesNothing
  <2> QED BY <1>6, <2>1, <2>2
<1>8. CASE Finish(p, "error")
  BY <1>1, <1>7, <1>8, StoppedAlone DEF Finish, Process
<1>9. CASE AfterCopy(p) /\ ~proc[p].delete
  <2>1. NextItem(p) BY <1>9 DEF AfterCopy
  <2> QED BY <1>1, <1>2, <1>7, <1>9, <2>1, NextAlone DEF MidItem
<1>10. CASE AfterCopy(p) /\ proc[p].delete
           /\ held' = [held EXCEPT ![To(p)][At(p)] = Stored(To(p), proc[p].value)]
  <2>1. Goto(p, "verify") BY <1>10 DEF AfterCopy
  <2>2. \A m \in Secret : Target[m] # From(p)
    BY <1>1, <1>2, <1>10 DEF LoopOf, Active, MidItem, From
  <2>3. To(p) # From(p) BY <1>1, <2>2, CurrentType DEF To
  <2>4. held'[From(p)] = held[From(p)]
    BY <1>4, <1>10, <2>3 DEF Inv, TypeOK
  <2>5. LoopOf(proc'[p], held')
    BY <1>1, <1>2, <2>1, <2>4, <1>10, GotoAlone DEF LoopOf, Active, MidItem, From
  <2>6. \A i \in DOMAIN Names : i < proc[p].item => Settled(Names[i], From(p), held)
    BY <1>1, <1>2, <1>10 DEF PassedOf, Active, MidItem, From
  <2>7. \A i \in DOMAIN Names : i < proc[p].item => Settled(Names[i], From(p), held')
    BY <1>3, <1>4, <1>10, <2>3, <2>6, NamesType, SettledByCopy
  <2>8. PassedOf(proc'[p], held')
    BY <2>1, <2>7, GotoAlone DEF PassedOf, From
  <2> QED BY <1>7, <2>5, <2>8
<1> QED BY <1>8, <1>9, <1>10 DEF Copy

LEMMA VerifyAlone ==
    ASSUME Inv, NEW p \in Procs, Alone(p), Verify(p)
    PROVE  LoopOf(proc'[p], held') /\ PassedOf(proc'[p], held')
<1>1. proc \in [Procs -> Process] /\ proc[p].pc = "verify" /\ held' = held
  BY DEF Inv, TypeOK, Process, Verify
<1>2. LoopOf(proc[p], held) /\ PassedOf(proc[p], held) BY DEF Alone
<1>3. CASE Finish(p, "error")
  BY <1>1, <1>3, StoppedAlone DEF Finish, Process
<1>4. CASE held[To(p)][At(p)] = proc[p].value /\ Goto(p, "delete")
  <2>1. LoopOf(proc'[p], held')
    BY <1>1, <1>2, <1>4, GotoAlone DEF LoopOf, Active, MidItem, To, At, Current
  <2>2. PassedOf(proc'[p], held')
    BY <1>1, <1>2, <1>4, GotoAlone DEF PassedOf, Active, MidItem
  <2> QED BY <2>1, <2>2
<1> QED BY <1>3, <1>4 DEF Verify

LEMMA DeleteAlone ==
    ASSUME Inv, NEW p \in Procs, Alone(p), DeleteSource(p)
    PROVE  LoopOf(proc'[p], held') /\ PassedOf(proc'[p], held') /\ NothingLost'
<1>1. /\ proc \in [Procs -> Process] /\ proc[p].pc = "delete" /\ origin' = origin
      /\ proc[p].item \in DOMAIN Names /\ proc[p].item \in Nat
  BY NamesType DEF Inv, TypeOK, Process, DeleteSource, ControlOK, ControlOf, MidItem
<1>2. LoopOf(proc[p], held) /\ PassedOf(proc[p], held) /\ NothingLost BY DEF Alone
<1>3. /\ \A m \in Secret : Target[m] # From(p)
      /\ proc[p].delete /\ held[To(p)][At(p)] = held[From(p)][At(p)]
  BY <1>1, <1>2 DEF LoopOf, Active, MidItem, From, To, At, Current
<1>4. Current(p) \in Secret /\ At(p) \in Addrs /\ From(p) \in Stores
  BY <1>1, CurrentType
<1>5. UNCHANGED held \/ held' = [held EXCEPT ![From(p)][At(p)] = NoValue]
  BY DEF DeleteSource
<1>6. NothingLost'
  <2>1. CASE UNCHANGED held
    BY <1>1, <1>2, <2>1 DEF NothingLost, Survives
  <2>2. CASE held' = [held EXCEPT ![From(p)][At(p)] = NoValue]
    BY <1>1, <1>2, <1>3, <1>4, <2>2, DeleteLosesNothing DEF At, To
  <2> QED BY <1>5, <2>1, <2>2
<1>7. CASE Finish(p, "error")
  BY <1>1, <1>6, <1>7, StoppedAlone DEF Finish, Process
<1>8. CASE NextItem(p) /\ held' = [held EXCEPT ![From(p)][At(p)] = NoValue]
  <2>1. \A i \in DOMAIN Names : i < proc[p].item => Settled(Names[i], From(p), held)
    BY <1>1, <1>2, <1>3 DEF PassedOf, Active, MidItem, From
  <2>2. \A i \in DOMAIN Names : i <= proc[p].item =>
          Settled(Names[i], From(p), held) \/ AddrOf[Names[i]] = At(p)
    <3>1. \A i \in DOMAIN Names : i <= proc[p].item => i < proc[p].item \/ i = proc[p].item
      BY <1>1, NamesType
    <3> QED BY <2>1, <3>1 DEF At, Current
  <2>3. \A i \in DOMAIN Names : i <= proc[p].item => Settled(Names[i], From(p), held')
    BY <1>3, <1>4, <1>8, <2>2, NamesType, SettledByDelete
  <2> QED BY <1>1, <1>2, <1>6, <1>8, <2>3, NextAlone DEF MidItem
<1> QED BY <1>7, <1>8 DEF DeleteSource

LEMMA CompletesAlone ==
    ASSUME Inv, NEW p \in Procs, Alone(p), Completes(p)
    PROVE  LoopOf(proc'[p], held') /\ PassedOf(proc'[p], held')
<1>1. /\ proc \in [Procs -> Process] /\ proc[p].pc = "source" /\ held' = held
      /\ proc[p].item \notin DOMAIN Names
  BY DEF Inv, TypeOK, Process, Completes
<1>2. /\ proc'[p].pc = "done" /\ proc'[p].from = proc[p].from
      /\ proc'[p].delete = proc[p].delete /\ proc'[p].item = proc[p].item
  BY <1>1 DEF Completes, Finish, Process
<1>3. LoopOf(proc'[p], held') BY <1>2 DEF LoopOf, Active, MidItem
<1>4. PassedOf(proc'[p], held')
  BY <1>1, <1>2 DEF Alone, PassedOf, Active
<1> QED BY <1>3, <1>4

LEMMA NextAlways ==
    ASSUME NEW p \in Procs, Procs = {p}, Inv, Alone(p), [Next]_vars
    PROVE  Alone(p)'
<1>1. ASSUME UNCHANGED <<held, origin>> PROVE NothingLost'
  BY <1>1 DEF Alone, NothingLost, Survives
<1>2. CASE UNCHANGED vars
  BY <1>2 DEF vars, Alone, LoopOf, PassedOf, NothingLost, Survives, Settled
<1>3. ASSUME NEW from \in FromStores, NEW delete \in BOOLEAN, Begin(p, from, delete)
      PROVE  Alone(p)'
  BY <1>1, <1>3, BeginAlone DEF Begin, Alone
<1>4. CASE ReadSource(p) \/ ReadTarget(p) \/ Verify(p) \/ Completes(p)
  BY <1>1, <1>4, ReadSourceAlone, ReadTargetAlone, VerifyAlone, CompletesAlone
     DEF ReadSource, ReadTarget, Verify, Completes, Alone
<1>5. CASE Copy(p) \/ DeleteSource(p)
  BY <1>5, CopyAlone, DeleteAlone DEF Alone
<1>6. CASE Return(p) \/ Crash(p)
  <2>1. proc'[p].pc = "idle" /\ UNCHANGED <<held, origin>>
    BY <1>6 DEF Return, Crash, Idle, Inv, TypeOK
  <2> QED BY <1>1, <2>1, StoppedAlone DEF Alone
<1> QED BY <1>2, <1>3, <1>4, <1>5, <1>6 DEF Next, Step
-----------------------------------------------------------------------------
LEMMA AloneAlways ==
    ASSUME NEW p \in Procs, Procs = {p}
    PROVE  Spec => [](Inv /\ Alone(p))
<1>1. Init => Inv /\ Alone(p) BY InitInv, InitAlone
<1>2. Inv /\ Alone(p) /\ [Next]_vars => (Inv /\ Alone(p))'
  BY NextInv, NextAlways
<1> QED BY <1>1, <1>2, PTL DEF Spec

(* One importing process, with every failure, crash and rerun: every value  *)
(* a store held at first stays there or reaches a destination of a secret   *)
(* with its address.  The source is deleted only from a store that is no    *)
(* secret's destination, and only while the destination holds the value.    *)
THEOREM NothingIsLost ==
    ASSUME NEW p \in Procs, Procs = {p}
    PROVE  Spec => []NothingLost
<1>1. Alone(p) => NothingLost BY DEF Alone
<1> QED BY AloneAlways, <1>1, PTL

(* One importing process whose import with `delete_source` succeeds has     *)
(* left in the source only values that differ from their destinations.      *)
THEOREM SuccessMeansComplete ==
    ASSUME NEW p \in Procs, Procs = {p}
    PROVE  Spec => []SuccessIsComplete
<1>1. Inv /\ Alone(p) => SuccessIsComplete
  <2> SUFFICES ASSUME Inv, Alone(p), proc[p].pc = "done", proc[p].result = "ok",
                      proc[p].delete, NEW n \in Secret
               PROVE  Settled(n, proc[p].from, held)
    BY DEF SuccessIsComplete, Settled
  <2>1. proc[p].item \notin DOMAIN Names /\ proc[p].item \in 1..Len(Names) + 1
    BY DEF Alone, PassedOf, Inv, TypeOK
  <2>2. PICK i \in DOMAIN Names : n = Names[i]
    BY DEF Secret
  <2>3. i < proc[p].item
    BY <2>1, NamesType
  <2> QED BY <2>2, <2>3 DEF Alone, PassedOf
<1> QED BY AloneAlways, <1>1, PTL

DestinationKeptStep ==
    \A p \in Procs, s \in Stores, a \in Addrs :
       (proc'[p] # proc[p] /\ held'[s][a] # held[s][a]) =>
          \/ held[s][a] = NoValue
          \/ s = proc[p].from /\ proc[p].delete /\ held'[s][a] = NoValue

(* One importing process changes an address only from nothing, or takes     *)
(* away the source value it was told to delete.                             *)
THEOREM DestinationIsKept ==
    ASSUME NEW p \in Procs, Procs = {p}
    PROVE  Spec => DestinationKept
<1>1. Inv /\ Alone(p) /\ [Next]_vars => DestinationKeptStep
  <2> SUFFICES ASSUME Inv, Alone(p), [Next]_vars, NEW s \in Stores, NEW a \in Addrs,
                      held'[s][a] # held[s][a]
               PROVE  \/ held[s][a] = NoValue
                      \/ s = proc[p].from /\ proc[p].delete /\ held'[s][a] = NoValue
    BY DEF DestinationKeptStep
  <2>1. Copy(p) \/ DeleteSource(p)
    BY DEF Next, Step, vars, Begin, ReadSource, ReadTarget, Verify, Completes, Return, Crash
  <2>2. /\ proc[p].item \in DOMAIN Names
        /\ proc[p].pc = "copy" \/ proc[p].pc = "delete"
    BY <2>1 DEF Copy, DeleteSource, Inv, ControlOK, ControlOf, MidItem
  <2>3. To(p) \in Stores /\ At(p) \in Addrs /\ From(p) \in Stores
    BY <2>2, CurrentType
  <2>4. CASE Copy(p)
    <3>1. \E v : held' = [held EXCEPT ![To(p)][At(p)] = v]
      BY <2>4 DEF Copy
    <3>2. s = To(p) /\ a = At(p)
      BY <2>3, <3>1 DEF Inv, TypeOK
    <3>3. held[To(p)][At(p)] = NoValue
      BY <2>4 DEF Copy, Alone, LoopOf, To, At, Current
    <3> QED BY <3>2, <3>3
  <2>5. CASE DeleteSource(p)
    <3>1. held' = [held EXCEPT ![From(p)][At(p)] = NoValue]
      BY <2>5 DEF DeleteSource
    <3>2. s = From(p) /\ held'[s][a] = NoValue
      BY <2>3, <3>1 DEF Inv, TypeOK
    <3>3. proc[p].delete
      BY <2>5 DEF DeleteSource, Alone, LoopOf
    <3> QED BY <3>2, <3>3 DEF From
  <2> QED BY <2>1, <2>4, <2>5
<1> QED BY AloneAlways, <1>1, PTL DEF Spec, DestinationKept, DestinationKeptStep

-----------------------------------------------------------------------------
(***************************************************************************)
(* Specs and addresses.                                                    *)
(***************************************************************************)

Usable(p) == p \notin {Nobody, Rejected}

MovePlanned(v) ==
    /\ Usable(other)
    /\ \E a \in Addresses :
           v = [plan |-> "move", at |-> a,
                goes |-> Deletes(source) /\ ~SameEntry(source, other, a)]

CachePlanned(v) ==
    /\ Usable(other)
    /\ v = [plan |-> "cache", fingerprint |-> Uri(source),
            goes |-> /\ StorageIdentity(source) # StorageIdentity(other)
                     /\ Deletes(other)]

SignInPlanned(v) ==
    /\ source.kind \in SignsIn
    /\ \E c \in Declarations(source), e \in Environments(source) :
           v = [plan |-> "sign in", declared |-> c, as |-> SignedInAs(source, c, e)]

ProbePlanned(v) ==
    /\ Usable(other) /\ source.kind = other.kind /\ source.kind \in Probes
    /\ \E c \in Declarations(source), d \in Declarations(other),
          e \in Environments(source) :
           v = [plan |-> "probe",
                shared |-> AuthScopeKey(source, c, e) = AuthScopeKey(other, d, e),
                as |-> <<SignedInAs(source, c, e), SignedInAs(other, d, e)>>]

\* What was opened, in which order, and that the verdict is still about it.
AddressingInv ==
    /\ source \in {Nobody} \cup {FromSpec(spec) : spec \in Specs}
    /\ other \in {Nobody} \cup {FromSpec(spec) : spec \in Specs}
    /\ other # Nobody => Usable(source)
    /\ verdict # Nobody =>
         /\ Usable(source)
         /\ \/ MovePlanned(verdict)
            \/ CachePlanned(verdict)
            \/ SignInPlanned(verdict)
            \/ ProbePlanned(verdict)

(* At first nobody is opened. *)
LEMMA AddressingInitially == AddressingInit => AddressingInv
BY DEF AddressingInit, AddressingInv

(* A spec is opened before anything is planned with it. *)
LEMMA SourceOpens ==
    ASSUME AddressingInv, NEW spec \in Specs, OpenSource(spec)
    PROVE  AddressingInv'
<1>1. other = Nobody /\ verdict = Nobody
  BY DEF AddressingInv, OpenSource, Usable
<1>2. source' \in {FromSpec(s) : s \in Specs} /\ other' = Nobody /\ verdict' = Nobody
  BY <1>1 DEF OpenSource
<1>. QED BY <1>2 DEF AddressingInv

(* The second one is opened beside the first; a sign-in of the first that   *)
(* was planned before is still about it.                                    *)
LEMMA OtherOpens ==
    ASSUME AddressingInv, NEW spec \in Specs, OpenOther(spec)
    PROVE  AddressingInv'
<1>1. source' = source /\ verdict' = verdict /\ other = Nobody /\ Usable(source)
  BY DEF OpenOther, Usable
<1>2. other' \in {FromSpec(s) : s \in Specs}
  BY DEF OpenOther
<1>3. verdict # Nobody => SignInPlanned(verdict)
  BY <1>1 DEF AddressingInv, MovePlanned, CachePlanned, ProbePlanned, Usable
<1>4. verdict # Nobody => SignInPlanned(verdict)'
  BY <1>1, <1>3 DEF SignInPlanned
<1>. QED BY <1>1, <1>2, <1>4 DEF AddressingInv, Usable

(* Every plan is recorded with the providers it compared. *)
LEMMA PlansAreRecorded ==
    ASSUME AddressingInv,
           (\E a \in Addresses : PlanMove(a)) \/ PlanCache \/ SignIn \/ ShareProbe
    PROVE  AddressingInv'
<1>1. source' = source /\ other' = other /\ Usable(source)
  BY DEF PlanMove, PlanCache, SignIn, ShareProbe, Chosen, AddressingInv, Usable
<1>. SUFFICES verdict' # Nobody =>
         (MovePlanned(verdict) \/ CachePlanned(verdict)
            \/ SignInPlanned(verdict) \/ ProbePlanned(verdict))'
  BY <1>1 DEF AddressingInv, Usable
<1>2. (\E a \in Addresses : PlanMove(a)) => MovePlanned(verdict)'
  BY <1>1 DEF PlanMove, Chosen, MovePlanned, Usable
<1>3. PlanCache => CachePlanned(verdict)'
  BY <1>1 DEF PlanCache, Chosen, CachePlanned, Usable
<1>4. SignIn => SignInPlanned(verdict)'
  BY <1>1 DEF SignIn, SignInPlanned
<1>5. ShareProbe => ProbePlanned(verdict)'
  BY <1>1 DEF ShareProbe, Chosen, ProbePlanned, Usable
<1>. QED BY <1>2, <1>3, <1>4, <1>5

(* No step disturbs it. *)
LEMMA AddressingSteps == AddressingInv /\ [AddressingNext]_addressingVars => AddressingInv'
<1>. SUFFICES ASSUME AddressingInv, [AddressingNext]_addressingVars PROVE AddressingInv'
  OBVIOUS
<1>1. CASE UNCHANGED addressingVars
  BY <1>1 DEF addressingVars, AddressingInv, MovePlanned, CachePlanned, SignInPlanned,
              ProbePlanned
<1>2. CASE AddressingNext
  BY <1>2, SourceOpens, OtherOpens, PlansAreRecorded DEF AddressingNext
<1>. QED BY <1>1, <1>2

(* It always holds. *)
LEMMA AddressingHolds == AddressingSpec => []AddressingInv
BY AddressingInitially, AddressingSteps, PTL DEF AddressingSpec

(* Two instances in one scope of a probe present the same.                  *)
LEMMA ScopesAreIdentities ==
    ASSUME NEW p, NEW q, NEW c, NEW d, NEW e, p.kind = q.kind, p.kind \in Probes,
           AuthScopeKey(p, c, e) = AuthScopeKey(q, d, e)
    PROVE  SignedInAs(p, c, e) = SignedInAs(q, d, e)
<1>1. CASE p.kind = "onepassword"
  <2>1. /\ AuthScopeKey(p, c, e)[2] = <<p.at[1], OnepasswordToken(p, c, e)>>
        /\ AuthScopeKey(q, d, e)[2] = <<q.at[1], OnepasswordToken(q, d, e)>>
    BY <1>1 DEF AuthScopeKey
  <2>2. p.at[1] = q.at[1] /\ OnepasswordToken(p, c, e) = OnepasswordToken(q, d, e)
    BY <2>1
  <2>3. OnepasswordIdentity(p, c, e) = OnepasswordIdentity(q, d, e)
    BY <2>2 DEF OnepasswordIdentity
  <2>. QED BY <1>1, <2>3 DEF SignedInAs
<1>2. CASE p.kind = "dashlane"
  <2>1. /\ AuthScopeKey(p, c, e)[2] = <<Material(p, c, e, "service_device_keys")>>
        /\ AuthScopeKey(q, d, e)[2] = <<Material(q, d, e, "service_device_keys")>>
    BY <1>2 DEF AuthScopeKey
  <2>2. Material(p, c, e, "service_device_keys") = Material(q, d, e, "service_device_keys")
    BY <2>1
  <2>3. DashlaneIdentity(p, c, e) = DashlaneIdentity(q, d, e)
    BY <2>2 DEF DashlaneIdentity
  <2>. QED BY <1>2, <2>3 DEF SignedInAs
<1>3. CASE p.kind = "lastpass"
  BY <1>3 DEF SignedInAs
<1>. QED BY <1>1, <1>2, <1>3 DEF Probes

(* A value that is declared is the one presented, whatever the environment. *)
LEMMA DeclaredIsPresented ==
    ASSUME NEW p, NEW c, NEW e, NEW n \in GivenNames(c)
    PROVE  Material(p, c, e, n) = c[n] /\ Material(p, c, e, n) # None
BY DEF Material, CredentialOrEnvs, GivenNames

(* In an empty environment nothing else is. *)
LEMMA NothingIsAmbient ==
    ASSUME NEW p, NEW c, NEW n, n \notin GivenNames(c)
    PROVE  Material(p, c, Nothing, n) = None
BY DEF Material, CredentialOrEnvs, GivenNames, FirstSet, Nothing

(* What is declared is among what the provider reads. *)
LEMMA DeclaredIsRead ==
    ASSUME NEW p, NEW c \in Declarations(p), NEW n \in GivenNames(c)
    PROVE  n \in DOMAIN Inputs(p)
BY DEF Declarations, GivenNames

\* The kinds that read a credential as they are configured.
Reads(p) ==
    \/ p.kind = "akv" /\ p.options["auth"] = <<"env">>
    \/ p.kind \in {"vault", "openbao"} /\ p.options["auth"] \in {<<"token">>, <<"approle">>}
    \/ p.kind \in {"infisical", "onepassword", "dashlane", "bws", "scaleway", "keeper", "kdbx"}

(* A provider that was given a credential is one that reads some. *)
LEMMA GivenToReaders ==
    ASSUME NEW p, p.kind \in SignsIn, NEW c \in Declarations(p), GivenNames(c) # {}
    PROVE  Reads(p)
<1>1. DOMAIN Inputs(p) # {}
  BY DeclaredIsRead
<1>2. DOMAIN Nothing = {}
  BY DEF Nothing
<1>. QED BY <1>1, <1>2 DEF Reads, Inputs, SignsIn

\* What OneIdentity asks of a sign-in with some credentials declared.
Decided(p, c, e) ==
    /\ SignedInAs(p, c, e) = Rejected \/ SignedInAs(p, c, e).material # Nothing
    /\ ~Assembled(p, c) /\ SignedInAs(p, c, Nothing) # Rejected
           => SignedInAs(p, c, e) = SignedInAs(p, c, Nothing)

(* An identity that presents something is none of a session. *)
LEMMA MaterialIsNotNothing ==
    ASSUME NEW how, NEW m, DOMAIN m # {}
    PROVE  Identity(how, m).material # Nothing
BY DEF Identity, Nothing

(* A service principal. *)
LEMMA AkvSettles ==
    ASSUME NEW p, NEW c \in Declarations(p), NEW e, p.kind = "akv", Reads(p),
           GivenNames(c) # {}
    PROVE  Decided(p, c, e)
<1>. DEFINE given(x) == {n \in DOMAIN Inputs(p) : Material(p, c, x, n) # None}
            presented(x) == [n \in given(x) |-> Material(p, c, x, n)]
<1>1. p.options["auth"] = <<"env">>
  BY DEF Reads
<1>2. \A x : GivenNames(c) \subseteq given(x)
  BY DeclaredIsRead, DeclaredIsPresented
<1>3. \A x : SignedInAs(p, c, x) =
                IF given(x) # DOMAIN Inputs(p) THEN Rejected
                ELSE Identity(<<"principal">>, presented(x))
  <2>. SUFFICES ASSUME NEW x
                PROVE  SignedInAs(p, c, x) =
                          IF given(x) # DOMAIN Inputs(p) THEN Rejected
                          ELSE Identity(<<"principal">>, presented(x))
    OBVIOUS
  <2>1. given(x) # {}
    BY <1>2
  <2>2. SignedInAs(p, c, x) = AkvIdentity(p, c, x)
    BY DEF SignedInAs
  <2>. QED BY <1>1, <2>1, <2>2 DEF AkvIdentity
<1>4. SignedInAs(p, c, e) # Rejected => SignedInAs(p, c, e).material # Nothing
  <2>1. DOMAIN presented(e) # {}
    BY <1>2
  <2>. QED BY <1>3, <2>1, MaterialIsNotNothing
<1>5. SignedInAs(p, c, Nothing) # Rejected => SignedInAs(p, c, e) = SignedInAs(p, c, Nothing)
  <2>. SUFFICES ASSUME given(Nothing) = DOMAIN Inputs(p)
                PROVE  SignedInAs(p, c, e) = SignedInAs(p, c, Nothing)
    BY <1>3
  <2>1. GivenNames(c) = DOMAIN Inputs(p)
    BY NothingIsAmbient, DeclaredIsRead
  <2>2. given(e) = DOMAIN Inputs(p)
    BY <1>2, <2>1
  <2>3. \A n \in DOMAIN Inputs(p) : Material(p, c, e, n) = Material(p, c, Nothing, n)
    BY <2>1, DeclaredIsPresented
  <2>4. presented(e) = presented(Nothing)
    BY <2>2, <2>3
  <2>. QED BY <1>3, <2>2, <2>4
<1>. QED BY <1>4, <1>5 DEF Decided

(* A token, or both halves of a machine identity. *)
LEMMA InfisicalSettles ==
    ASSUME NEW p, NEW c \in Declarations(p), NEW e, p.kind = "infisical",
           GivenNames(c) # {}
    PROVE  Decided(p, c, e)
<1>. DEFINE halves == {"client_id", "client_secret"}
            login(x) == [n \in halves |-> Material(p, c, x, n)]
            token(x) == [token |-> Material(p, c, x, "token")]
<1>1. \A x : SignedInAs(p, c, x) =
                IF Material(p, c, x, "token") # None THEN Identity(<<"token">>, token(x))
                ELSE IF \E n \in halves : Material(p, c, x, n) = None THEN Rejected
                ELSE Identity(<<"login">>, login(x))
  <2>. SUFFICES ASSUME NEW x
                PROVE  SignedInAs(p, c, x) =
                          IF Material(p, c, x, "token") # None THEN Identity(<<"token">>, token(x))
                          ELSE IF \E n \in halves : Material(p, c, x, n) = None THEN Rejected
                          ELSE Identity(<<"login">>, login(x))
    OBVIOUS
  <2>1. SignedInAs(p, c, x) = InfisicalIdentity(p, c, x)
    BY DEF SignedInAs
  <2>2. CASE Material(p, c, x, "token") # None
    BY <2>1, <2>2 DEF InfisicalIdentity
  <2>3. CASE Material(p, c, x, "token") = None /\ \E n \in halves : Material(p, c, x, n) = None
    BY <2>1, <2>3 DEF InfisicalIdentity
  <2>4. CASE Material(p, c, x, "token") = None /\ ~\E n \in halves : Material(p, c, x, n) = None
    <3>1. InfisicalIdentity(p, c, x) = Identity(<<"login">>, login(x))
      BY <2>4 DEF InfisicalIdentity
    <3>. QED BY <2>1, <2>4, <3>1
  <2>. QED BY <2>2, <2>3, <2>4
<1>2. DOMAIN login(e) # {} /\ DOMAIN token(e) # {}
  OBVIOUS
<1>3. SignedInAs(p, c, e) = Rejected \/ SignedInAs(p, c, e).material # Nothing
  BY <1>1, <1>2, MaterialIsNotNothing
<1>4. ~Assembled(p, c) => "token" \in GivenNames(c)
  <2>1. "token" \in DOMAIN Inputs(p)
    BY DEF Inputs
  <2>. QED BY <2>1 DEF Assembled
<1>5. "token" \in GivenNames(c) => SignedInAs(p, c, e) = SignedInAs(p, c, Nothing)
  <2>. SUFFICES ASSUME "token" \in GivenNames(c)
                PROVE  SignedInAs(p, c, e) = SignedInAs(p, c, Nothing)
    OBVIOUS
  <2>1. \A x : Material(p, c, x, "token") = c["token"] /\ Material(p, c, x, "token") # None
    BY DeclaredIsPresented
  <2>2. token(e) = token(Nothing)
    BY <2>1
  <2>. QED BY <1>1, <2>1, <2>2
<1>. QED BY <1>3, <1>4, <1>5 DEF Decided

(* A token of Vault or OpenBao, else the file of one. *)
LEMMA KvTokenSettles ==
    ASSUME NEW p, NEW c \in Declarations(p), NEW e, p.kind \in {"vault", "openbao"},
           p.options["auth"] = <<"token">>, GivenNames(c) # {}
    PROVE  Decided(p, c, e)
<1>1. DOMAIN Inputs(p) = {"token"}
  BY DEF Inputs
<1>2. "token" \in GivenNames(c)
  BY <1>1, DeclaredIsRead
<1>3. \A x : SignedInAs(p, c, x) = KvTokenIdentity(p, c, x)
  BY DEF SignedInAs, KvSignIn
<1>4. \A x : SignedInAs(p, c, x) = Identity(<<"token">>, [token |-> c["token"]])
  <2>. SUFFICES ASSUME NEW x
                PROVE  KvTokenIdentity(p, c, x) = Identity(<<"token">>, [token |-> c["token"]])
    BY <1>3
  <2>1. Material(p, c, x, "token") = c["token"] /\ c["token"] # None
    BY <1>2, DeclaredIsPresented
  <2>. QED BY <2>1 DEF KvTokenIdentity
<1>5. DOMAIN [token |-> c["token"]] # {}
  OBVIOUS
<1>. QED BY <1>4, <1>5, MaterialIsNotNothing DEF Decided

(* A role and, when there is one, its secret. *)
LEMMA KvApproleSettles ==
    ASSUME NEW p, NEW c \in Declarations(p), NEW e, p.kind \in {"vault", "openbao"},
           p.options["auth"] = <<"approle">>, GivenNames(c) # {}
    PROVE  Decided(p, c, e)
<1>. DEFINE given(x) == {n \in DOMAIN Inputs(p) : Material(p, c, x, n) # None}
            presented(x) == [n \in given(x) |-> Material(p, c, x, n)]
<1>1. \A x : GivenNames(c) \subseteq given(x)
  BY DeclaredIsRead, DeclaredIsPresented
<1>2. \A x : SignedInAs(p, c, x) = KvApproleIdentity(p, c, x)
  BY DEF SignedInAs, KvSignIn
<1>3. \A x : SignedInAs(p, c, x) =
                IF "role_id" \notin given(x) THEN Rejected
                ELSE Identity(<<"approle">> \o LoginMount(p), presented(x))
  BY <1>2 DEF KvApproleIdentity
<1>4. SignedInAs(p, c, e) # Rejected => SignedInAs(p, c, e).material # Nothing
  <2>1. DOMAIN presented(e) # {}
    BY <1>1
  <2>. QED BY <1>3, <2>1, MaterialIsNotNothing
<1>5. ~Assembled(p, c) => SignedInAs(p, c, e) = SignedInAs(p, c, Nothing)
  <2>. SUFFICES ASSUME GivenNames(c) = DOMAIN Inputs(p)
                PROVE  SignedInAs(p, c, e) = SignedInAs(p, c, Nothing)
    BY DEF Assembled
  <2>1. given(e) = DOMAIN Inputs(p) /\ given(Nothing) = DOMAIN Inputs(p)
    BY <1>1
  <2>2. \A n \in DOMAIN Inputs(p) : Material(p, c, e, n) = Material(p, c, Nothing, n)
    BY DeclaredIsPresented
  <2>3. presented(e) = presented(Nothing)
    BY <2>1, <2>2
  <2>. QED BY <1>3, <2>1, <2>3
<1>. QED BY <1>4, <1>5 DEF Decided

(* The token of the spec or the declared one. *)
LEMMA OnepasswordSettles ==
    ASSUME NEW p, NEW c \in Declarations(p), NEW e, p.kind = "onepassword",
           GivenNames(c) # {}
    PROVE  Decided(p, c, e)
<1>. DEFINE token == OnepasswordToken(p, c, e)
<1>1. DOMAIN Inputs(p) = {"service_account_token"}
  BY DEF Inputs
<1>2. "service_account_token" \in GivenNames(c)
  BY <1>1, DeclaredIsRead
<1>3. token # None /\ OnepasswordToken(p, c, Nothing) = token
  BY <1>2, DeclaredIsPresented DEF OnepasswordToken, OrElse
<1>4. \A x : SignedInAs(p, c, x) = OnepasswordIdentity(p, c, x)
  BY DEF SignedInAs
<1>5. /\ SignedInAs(p, c, e) = Identity(<<"token">> \o p.at[1], [token |-> token])
      /\ SignedInAs(p, c, Nothing) = Identity(<<"token">> \o p.at[1], [token |-> token])
  BY <1>3, <1>4 DEF OnepasswordIdentity
<1>6. DOMAIN [token |-> token] # {}
  OBVIOUS
<1>. QED BY <1>5, <1>6, MaterialIsNotNothing DEF Decided

(* Device keys. *)
LEMMA DashlaneSettles ==
    ASSUME NEW p, NEW c \in Declarations(p), NEW e, p.kind = "dashlane",
           GivenNames(c) # {}
    PROVE  Decided(p, c, e)
<1>. DEFINE keys == c["service_device_keys"]
<1>1. DOMAIN Inputs(p) = {"service_device_keys"}
  BY DEF Inputs
<1>2. "service_device_keys" \in GivenNames(c)
  BY <1>1, DeclaredIsRead
<1>3. \A x : SignedInAs(p, c, x) = DashlaneIdentity(p, c, x)
  BY DEF SignedInAs
<1>4. \A x : SignedInAs(p, c, x) = Identity(<<"device">>, [keys |-> keys])
  BY <1>2, <1>3, DeclaredIsPresented DEF DashlaneIdentity
<1>5. DOMAIN [keys |-> keys] # {}
  OBVIOUS
<1>. QED BY <1>4, <1>5, MaterialIsNotNothing DEF Decided

(* The application of a Keeper Secrets Manager. *)
LEMMA KeeperSettles ==
    ASSUME NEW p, NEW c \in Declarations(p), NEW e, p.kind = "keeper",
           GivenNames(c) # {}
    PROVE  Decided(p, c, e)
<1>. DEFINE storage(x) == IF Material(p, c, x, "config") # None THEN Material(p, c, x, "config")
                          ELSE <<"file">> \o Option(p, "config_file")
            token(x) == IF Material(p, c, x, "token") = None THEN Nothing
                        ELSE [token |-> Material(p, c, x, "token")]
            presented(x) == With([config |-> storage(x)], token(x))
<1>1. DOMAIN Inputs(p) = {"config", "token"}
  BY DEF Inputs
<1>2. \A x : SignedInAs(p, c, x) = Identity(<<"application">>, presented(x))
  <2>. SUFFICES ASSUME NEW x
                PROVE  SignedInAs(p, c, x) = Identity(<<"application">>, presented(x))
    OBVIOUS
  <2>1. SignedInAs(p, c, x) = KeeperIdentity(p, c, x)
    BY DEF SignedInAs
  <2>. QED BY <2>1 DEF KeeperIdentity
<1>3. DOMAIN presented(e) # {}
  <2>1. "config" \in DOMAIN presented(e)
    BY DEF With
  <2>. QED BY <2>1
<1>4. ~Assembled(p, c) => SignedInAs(p, c, e) = SignedInAs(p, c, Nothing)
  <2>. SUFFICES ASSUME GivenNames(c) = {"config", "token"}
                PROVE  SignedInAs(p, c, e) = SignedInAs(p, c, Nothing)
    BY <1>1 DEF Assembled
  <2>1. \A n \in {"config", "token"} :
           \A x : Material(p, c, x, n) = c[n] /\ Material(p, c, x, n) # None
    BY DeclaredIsPresented
  <2>2. storage(e) = storage(Nothing) /\ token(e) = token(Nothing)
    BY <2>1
  <2>3. presented(e) = presented(Nothing)
    BY <2>2
  <2>. HIDE DEF presented
  <2>. QED BY <1>2, <2>3
<1>. QED BY <1>2, <1>3, <1>4, MaterialIsNotNothing DEF Decided

(* A single key. *)
LEMMA KeySettles ==
    ASSUME NEW p, NEW c \in Declarations(p), NEW e, p.kind \in {"bws", "scaleway"},
           GivenNames(c) # {}
    PROVE  Decided(p, c, e)
<1>. DEFINE name == IF p.kind = "bws" THEN "access_token" ELSE "secret_key"
<1>1. DOMAIN Inputs(p) = {name}
  BY DEF Inputs
<1>2. name \in GivenNames(c)
  BY <1>1, DeclaredIsRead
<1>3. \A x : SignedInAs(p, c, x) = KeyIdentity(p, c, x, name)
  BY DEF SignedInAs
<1>4. \A x : SignedInAs(p, c, x) = Identity(<<"key">>, [key |-> c[name]])
  <2>1. \A x : Material(p, c, x, name) = c[name] /\ Material(p, c, x, name) # None
    BY <1>2, DeclaredIsPresented
  <2>. HIDE DEF name
  <2>. QED BY <1>3, <2>1 DEF KeyIdentity
<1>5. DOMAIN [key |-> c[name]] # {}
  OBVIOUS
<1>. QED BY <1>4, <1>5, MaterialIsNotNothing DEF Decided

(* The password of a database, and its key file. *)
LEMMA KdbxSettles ==
    ASSUME NEW p, NEW c \in Declarations(p), NEW e, p.kind = "kdbx", GivenNames(c) # {}
    PROVE  Decided(p, c, e)
<1>. DEFINE opened == [password |-> c["password"], keyfile |-> Option(p, "keyfile")]
            presented == [n \in {m \in DOMAIN opened : opened[m] # None} |-> opened[n]]
<1>1. DOMAIN Inputs(p) = {"password"}
  BY DEF Inputs
<1>2. "password" \in GivenNames(c)
  BY <1>1, DeclaredIsRead
<1>3. \A x : SignedInAs(p, c, x) = KdbxIdentity(p, c, x)
  BY DEF SignedInAs
<1>4. \A x : Material(p, c, x, "password") = c["password"]
  BY <1>2, DeclaredIsPresented
<1>5. c["password"] # None
  BY <1>2 DEF GivenNames
<1>6. \A x : SignedInAs(p, c, x) = Identity(<<"database">>, presented)
  BY <1>3, <1>4, <1>5 DEF KdbxIdentity
<1>7. DOMAIN presented # {}
  <2>1. "password" \in DOMAIN presented
    BY <1>5
  <2>. QED BY <2>1
<1>. QED BY <1>6, <1>7, MaterialIsNotNothing DEF Decided

(* What is declared settles who one is, for every provider that reads any. *)
LEMMA DeclaredSettles ==
    ASSUME NEW p, NEW c \in Declarations(p), NEW e, p.kind \in SignsIn, GivenNames(c) # {}
    PROVE  Decided(p, c, e)
BY GivenToReaders, AkvSettles, InfisicalSettles, KvTokenSettles, KvApproleSettles,
   OnepasswordSettles, DashlaneSettles, KeeperSettles, KeySettles, KdbxSettles DEF Reads

(* Which plan a verdict is, its name says. *)
LEMMA PlansAreNamed ==
    ASSUME NEW v
    PROVE  /\ MovePlanned(v) => v.plan = "move"
           /\ CachePlanned(v) => v.plan = "cache"
           /\ SignInPlanned(v) => v.plan = "sign in"
           /\ ProbePlanned(v) => v.plan = "probe"
<1>1. MovePlanned(v) => v.plan = "move"
  BY DEF MovePlanned
<1>2. CachePlanned(v) => v.plan = "cache"
  BY DEF CachePlanned
<1>3. SignInPlanned(v) => v.plan = "sign in"
  <2>. SUFFICES ASSUME SignInPlanned(v) PROVE v.plan = "sign in"
    OBVIOUS
  <2>1. PICK c, e : v = [plan |-> "sign in", declared |-> c, as |-> SignedInAs(source, c, e)]
    BY DEF SignInPlanned
  <2>. QED BY <2>1
<1>4. ProbePlanned(v) => v.plan = "probe"
  BY DEF ProbePlanned
<1>. QED BY <1>1, <1>2, <1>3, <1>4

(***************************************************************************)
(* Whatever specs, credentials and environments there are, no command      *)
(* reads or writes as somebody else: instances that share a probe present  *)
(* the same, and what is declared is neither overruled by the environment  *)
(* nor made up for by a session.                                           *)
(***************************************************************************)
THEOREM IdentitiesAreOne == AddressingSpec => []OneIdentity
<1>1. AddressingInv => ProbesAnswerForTheirs
  <2>. SUFFICES ASSUME AddressingInv, verdict # Nobody, verdict.plan = "probe", verdict.shared
                PROVE  verdict.as[1] = verdict.as[2]
    BY DEF ProbesAnswerForTheirs
  <2>1. ProbePlanned(verdict)
    BY PlansAreNamed DEF AddressingInv
  <2>2. PICK c \in Declarations(source), d \in Declarations(other), e \in Environments(source) :
               verdict = [plan |-> "probe",
                          shared |-> AuthScopeKey(source, c, e) = AuthScopeKey(other, d, e),
                          as |-> <<SignedInAs(source, c, e), SignedInAs(other, d, e)>>]
    BY <2>1 DEF ProbePlanned
  <2>3. AuthScopeKey(source, c, e) = AuthScopeKey(other, d, e)
    BY <2>2
  <2>4. SignedInAs(source, c, e) = SignedInAs(other, d, e)
    BY <2>1, <2>3, ScopesAreIdentities DEF ProbePlanned
  <2>. QED BY <2>2, <2>4
<1>2. ASSUME AddressingInv, verdict # Nobody, verdict.plan = "sign in",
             GivenNames(verdict.declared) # {}
      PROVE  /\ verdict.as = Rejected \/ verdict.as.material # Nothing
             /\ ~Assembled(source, verdict.declared)
                  /\ SignedInAs(source, verdict.declared, Nothing) # Rejected
                    => verdict.as = SignedInAs(source, verdict.declared, Nothing)
  <2>1. SignInPlanned(verdict)
    BY <1>2, PlansAreNamed DEF AddressingInv
  <2>2. PICK c \in Declarations(source), e \in Environments(source) :
               verdict = [plan |-> "sign in", declared |-> c, as |-> SignedInAs(source, c, e)]
    BY <2>1 DEF SignInPlanned
  <2>3. Decided(source, c, e)
    BY <1>2, <2>1, <2>2, DeclaredSettles DEF SignInPlanned
  <2>. QED BY <2>2, <2>3 DEF Decided
<1>3. AddressingInv => OneIdentity
  BY <1>1, <1>2 DEF OneIdentity, NeverTheSession, DeclaredDecides
<1>. QED BY <1>3, AddressingHolds, PTL

\* The kinds of providers there are.
Kinds ==
    {"keyring", "pass", "gopass", "lastpass", "protonpass", "dotenv", "age", "kdbx", "sops", "env", "systemd-credential", "awsps", "awssm", "akv", "gcsm", "scaleway", "infisical", "bw", "bws", "onepassword", "keeper", "dashlane", "vault", "openbao"}

(* What is opened is of the kind its scheme names. *)
LEMMA ConfigKinds ==
    ASSUME NEW url
    PROVE  /\ KeyringConfig(url) # Rejected => KeyringConfig(url).kind = "keyring"
           /\ PassConfig(url) # Rejected => PassConfig(url).kind = "pass"
           /\ GopassConfig(url) # Rejected => GopassConfig(url).kind = "gopass"
           /\ LastpassConfig(url) # Rejected => LastpassConfig(url).kind = "lastpass"
           /\ ProtonpassConfig(url) # Rejected => ProtonpassConfig(url).kind = "protonpass"
           /\ DotenvConfig(url) # Rejected => DotenvConfig(url).kind = "dotenv"
           /\ AgeConfig(url) # Rejected => AgeConfig(url).kind = "age"
           /\ KdbxConfig(url) # Rejected => KdbxConfig(url).kind = "kdbx"
           /\ SopsConfig(url) # Rejected => SopsConfig(url).kind = "sops"
           /\ EnvConfig(url) # Rejected => EnvConfig(url).kind = "env"
           /\ SystemdConfig(url) # Rejected => SystemdConfig(url).kind = "systemd-credential"
           /\ AwspsConfig(url) # Rejected => AwspsConfig(url).kind = "awsps"
           /\ AwssmConfig(url) # Rejected => AwssmConfig(url).kind = "awssm"
           /\ AkvConfig(url) # Rejected => AkvConfig(url).kind = "akv"
           /\ GcsmConfig(url) # Rejected => GcsmConfig(url).kind = "gcsm"
           /\ ScalewayConfig(url) # Rejected => ScalewayConfig(url).kind = "scaleway"
           /\ InfisicalConfig(url) # Rejected => InfisicalConfig(url).kind = "infisical"
           /\ BwConfig(url) # Rejected => BwConfig(url).kind = "bw"
           /\ BwsConfig(url) # Rejected => BwsConfig(url).kind = "bws"
           /\ OnepasswordConfig(url) # Rejected => OnepasswordConfig(url).kind = "onepassword"
           /\ KeeperConfig(url) # Rejected => KeeperConfig(url).kind = "keeper"
           /\ DashlaneConfig(url) # Rejected => DashlaneConfig(url).kind = "dashlane"
           /\ \A product : KvConfig(url, product) # Rejected => KvConfig(url, product).kind = product
<1>1. KeyringConfig(url) # Rejected => KeyringConfig(url).kind = "keyring"
  BY DEF KeyringConfig, Opened
<1>2. PassConfig(url) # Rejected => PassConfig(url).kind = "pass"
  BY DEF PassConfig, Opened
<1>3. GopassConfig(url) # Rejected => GopassConfig(url).kind = "gopass"
  BY DEF GopassConfig, Opened
<1>4. LastpassConfig(url) # Rejected => LastpassConfig(url).kind = "lastpass"
  BY DEF LastpassConfig, Opened
<1>5. ProtonpassConfig(url) # Rejected => ProtonpassConfig(url).kind = "protonpass"
  BY DEF ProtonpassConfig, Opened
<1>6. DotenvConfig(url) # Rejected => DotenvConfig(url).kind = "dotenv"
  BY DEF DotenvConfig, Opened
<1>7. AgeConfig(url) # Rejected => AgeConfig(url).kind = "age"
  BY DEF AgeConfig, Opened
<1>8. KdbxConfig(url) # Rejected => KdbxConfig(url).kind = "kdbx"
  BY DEF KdbxConfig, Opened
<1>9. SopsConfig(url) # Rejected => SopsConfig(url).kind = "sops"
  BY DEF SopsConfig, Opened
<1>10. EnvConfig(url) # Rejected => EnvConfig(url).kind = "env"
  BY DEF EnvConfig, Opened
<1>11. SystemdConfig(url) # Rejected => SystemdConfig(url).kind = "systemd-credential"
  BY DEF SystemdConfig, Opened
<1>12. AwspsConfig(url) # Rejected => AwspsConfig(url).kind = "awsps"
  BY DEF AwspsConfig, Opened
<1>13. AwssmConfig(url) # Rejected => AwssmConfig(url).kind = "awssm"
  BY DEF AwssmConfig, Opened
<1>14. AkvConfig(url) # Rejected => AkvConfig(url).kind = "akv"
  BY DEF AkvConfig, Opened
<1>15. GcsmConfig(url) # Rejected => GcsmConfig(url).kind = "gcsm"
  BY DEF GcsmConfig, Opened
<1>16. ScalewayConfig(url) # Rejected => ScalewayConfig(url).kind = "scaleway"
  BY DEF ScalewayConfig, Opened
<1>17. InfisicalConfig(url) # Rejected => InfisicalConfig(url).kind = "infisical"
  BY DEF InfisicalConfig, Opened
<1>18. BwConfig(url) # Rejected => BwConfig(url).kind = "bw"
  BY DEF BwConfig, Opened
<1>19. BwsConfig(url) # Rejected => BwsConfig(url).kind = "bws"
  BY DEF BwsConfig, Opened
<1>20. OnepasswordConfig(url) # Rejected => OnepasswordConfig(url).kind = "onepassword"
  BY DEF OnepasswordConfig, Opened
<1>21. KeeperConfig(url) # Rejected => KeeperConfig(url).kind = "keeper"
  BY DEF KeeperConfig, Opened
<1>22. DashlaneConfig(url) # Rejected => DashlaneConfig(url).kind = "dashlane"
  BY DEF DashlaneConfig, Opened
<1>23. \A product : KvConfig(url, product) # Rejected => KvConfig(url, product).kind = product
  BY DEF KvConfig, Opened
<1>. QED BY <1>1, <1>2, <1>3, <1>4, <1>5, <1>6, <1>7, <1>8, <1>9, <1>10, <1>11, <1>12,
          <1>13, <1>14, <1>15, <1>16, <1>17, <1>18, <1>19, <1>20, <1>21, <1>22, <1>23

(* So a provider of a kind is what this kind makes of its URL. *)
LEMMA OpenedByKind ==
    ASSUME NEW url, NEW p, p = FromUrl(url), p # Rejected
    PROVE  /\ p.kind = "keyring" => p = KeyringConfig(url)
           /\ p.kind = "pass" => p = PassConfig(url)
           /\ p.kind = "gopass" => p = GopassConfig(url)
           /\ p.kind = "lastpass" => p = LastpassConfig(url)
           /\ p.kind = "protonpass" => p = ProtonpassConfig(url)
           /\ p.kind = "dotenv" => p = DotenvConfig(url)
           /\ p.kind = "age" => p = AgeConfig(url)
           /\ p.kind = "kdbx" => p = KdbxConfig(url)
           /\ p.kind = "sops" => p = SopsConfig(url)
           /\ p.kind = "env" => p = EnvConfig(url)
           /\ p.kind = "systemd-credential" => p = SystemdConfig(url)
           /\ p.kind = "awsps" => p = AwspsConfig(url)
           /\ p.kind = "awssm" => p = AwssmConfig(url)
           /\ p.kind = "akv" => p = AkvConfig(url)
           /\ p.kind = "gcsm" => p = GcsmConfig(url)
           /\ p.kind = "scaleway" => p = ScalewayConfig(url)
           /\ p.kind = "infisical" => p = InfisicalConfig(url)
           /\ p.kind = "bw" => p = BwConfig(url)
           /\ p.kind = "bws" => p = BwsConfig(url)
           /\ p.kind = "onepassword" => p = OnepasswordConfig(url)
           /\ p.kind = "keeper" => p = KeeperConfig(url)
           /\ p.kind = "dashlane" => p = DashlaneConfig(url)
           /\ p.kind \in {"vault", "openbao"} => p = KvConfig(url, p.kind)
           /\ p.kind \in Kinds
<1>1. url # Rejected
  BY DEF FromUrl
<1>2. url.scheme = "keyring" => p = KeyringConfig(url) /\ p.kind = "keyring"
  BY <1>1, ConfigKinds DEF FromUrl
<1>3. url.scheme = "pass" => p = PassConfig(url) /\ p.kind = "pass"
  BY <1>1, ConfigKinds DEF FromUrl
<1>4. url.scheme = "gopass" => p = GopassConfig(url) /\ p.kind = "gopass"
  BY <1>1, ConfigKinds DEF FromUrl
<1>5. url.scheme = "lastpass" => p = LastpassConfig(url) /\ p.kind = "lastpass"
  BY <1>1, ConfigKinds DEF FromUrl
<1>6. url.scheme = "protonpass" => p = ProtonpassConfig(url) /\ p.kind = "protonpass"
  BY <1>1, ConfigKinds DEF FromUrl
<1>7. url.scheme = "dotenv" => p = DotenvConfig(url) /\ p.kind = "dotenv"
  BY <1>1, ConfigKinds DEF FromUrl
<1>8. url.scheme = "age" => p = AgeConfig(url) /\ p.kind = "age"
  BY <1>1, ConfigKinds DEF FromUrl
<1>9. url.scheme = "kdbx" => p = KdbxConfig(url) /\ p.kind = "kdbx"
  BY <1>1, ConfigKinds DEF FromUrl
<1>10. url.scheme = "sops" => p = SopsConfig(url) /\ p.kind = "sops"
  BY <1>1, ConfigKinds DEF FromUrl
<1>11. url.scheme = "env" => p = EnvConfig(url) /\ p.kind = "env"
  BY <1>1, ConfigKinds DEF FromUrl
<1>12. url.scheme = "systemd-credential" => p = SystemdConfig(url) /\ p.kind = "systemd-credential"
  BY <1>1, ConfigKinds DEF FromUrl
<1>13. url.scheme = "awsps" => p = AwspsConfig(url) /\ p.kind = "awsps"
  BY <1>1, ConfigKinds DEF FromUrl
<1>14. url.scheme = "awssm" => p = AwssmConfig(url) /\ p.kind = "awssm"
  BY <1>1, ConfigKinds DEF FromUrl
<1>15. url.scheme = "akv" => p = AkvConfig(url) /\ p.kind = "akv"
  BY <1>1, ConfigKinds DEF FromUrl
<1>16. url.scheme = "gcsm" => p = GcsmConfig(url) /\ p.kind = "gcsm"
  BY <1>1, ConfigKinds DEF FromUrl
<1>17. url.scheme = "scaleway" => p = ScalewayConfig(url) /\ p.kind = "scaleway"
  BY <1>1, ConfigKinds DEF FromUrl
<1>18. url.scheme = "infisical" => p = InfisicalConfig(url) /\ p.kind = "infisical"
  BY <1>1, ConfigKinds DEF FromUrl
<1>19. url.scheme = "bw" => p = BwConfig(url) /\ p.kind = "bw"
  BY <1>1, ConfigKinds DEF FromUrl
<1>20. url.scheme = "bws" => p = BwsConfig(url) /\ p.kind = "bws"
  BY <1>1, ConfigKinds DEF FromUrl
<1>21. url.scheme \in {"op", "onepassword", "onepassword+token"} => p = OnepasswordConfig(url) /\ p.kind = "onepassword"
  BY <1>1, ConfigKinds DEF FromUrl
<1>22. url.scheme = "keeper" => p = KeeperConfig(url) /\ p.kind = "keeper"
  BY <1>1, ConfigKinds DEF FromUrl
<1>23. url.scheme = "dashlane" => p = DashlaneConfig(url) /\ p.kind = "dashlane"
  BY <1>1, ConfigKinds DEF FromUrl
<1>24. url.scheme \in {"vault", "openbao"} => p = KvConfig(url, url.scheme) /\ p.kind = url.scheme
  BY <1>1, ConfigKinds DEF FromUrl
<1>25. url.scheme \in Kinds \cup {"op", "onepassword+token"}
  BY <1>1 DEF FromUrl, Kinds
<1>. QED BY <1>2, <1>3, <1>4, <1>5, <1>6, <1>7, <1>8, <1>9, <1>10, <1>11, <1>12,
          <1>13, <1>14, <1>15, <1>16, <1>17, <1>18, <1>19, <1>20, <1>21, <1>22, <1>23,
          <1>24, <1>25 DEF Kinds

(* The least of some positions. *)
LEMMA LeastPosition ==
    ASSUME NEW T, T \subseteq Nat, T # {}
    PROVE  Min(T) \in T /\ \A m \in T : Min(T) <= m
<1>. DEFINE R == OpToRel(<, Nat)
<1>1. IsWellFoundedOn(R, Nat)
  BY NatLessThanWellFounded
<1>2. PICK x \in T : \A y \in T : <<y, x>> \notin R
  <2>. HIDE DEF R
  <2>. QED BY <1>1, WFMin, Zenon
<1>3. ASSUME NEW y \in T PROVE y >= x
  <2>1. ~(y < x) BY <1>2 DEF OpToRel
  <2>. QED BY <2>1
<1>4. \E y \in T : \A z \in T : z >= y
  BY <1>3
<1>5. Min(T) = CHOOSE y \in T : \A z \in T : y =< z
  BY DEF Min
<1>. QED BY <1>4, <1>5

(* And the greatest. *)
LEMMA GreatestPosition ==
    ASSUME NEW n \in Nat, NEW T, T \subseteq 1..n, T # {}
    PROVE  Max(T) \in T /\ \A m \in T : m <= Max(T)
<1>. DEFINE U == {n - i : i \in T}
<1>1. U \subseteq Nat /\ U # {}
  <2>1. \A i \in T : n - i \in Nat
    OBVIOUS
  <2>2. PICK i \in T : TRUE
    OBVIOUS
  <2>3. n - i \in U
    OBVIOUS
  <2>. QED BY <2>1, <2>3
<1>. HIDE DEF U
<1>2. Min(U) \in U /\ \A m \in U : Min(U) <= m
  BY <1>1, LeastPosition
<1>3. PICK x \in T : Min(U) = n - x
  BY <1>2 DEF U
<1>4. \A y \in T : n - y \in U /\ y \in 1..n
  BY DEF U
<1>5. \A y \in T : x >= y
  BY <1>2, <1>3, <1>4
<1>6. Max(T) = CHOOSE y \in T : \A z \in T : y >= z
  BY DEF Max
<1>7. \A y \in T : y \in Nat
  OBVIOUS
<1>. QED BY <1>5, <1>6, <1>7

(* Where a token first stands in a text that holds it. *)
LEMMA FirstStands ==
    ASSUME NEW text \in Text, NEW token, Holds(text, token)
    PROVE  /\ Until(text, token) \in 1..Len(text)
           /\ text[Until(text, token)] = token
           /\ \A j \in 1..(Until(text, token) - 1) : text[j] # token
<1>. DEFINE set == {i \in 1..Len(text) : text[i] = token}
<1>1. set # {} /\ set \subseteq Nat
  BY DEF Holds, Text
<1>2. Until(text, token) = Min(set)
  BY <1>1 DEF Until, SelectInSeq
<1>. HIDE DEF set
<1>3. Min(set) \in set /\ \A m \in set : Min(set) <= m
  BY <1>1, LeastPosition
<1>. DEFINE i == Until(text, token)
<1>4. i \in 1..Len(text) /\ text[i] = token
  BY <1>2, <1>3 DEF set
<1>5. ASSUME NEW j \in 1..(i - 1) PROVE text[j] # token
  <2>1. Len(text) \in Nat
    BY DEF Text
  <2>2. j \in 1..Len(text) /\ ~(i <= j)
    BY <1>4, <2>1
  <2>3. j \notin set
    BY <1>2, <1>3, <2>2
  <2>. QED BY <2>2, <2>3 DEF set
<1>. QED BY <1>4, <1>5

(* What stands before a token does not hold it. *)
LEMMA SplitAtToken ==
    ASSUME NEW text \in Text, NEW token
    PROVE  /\ Before(text, token) \in Text /\ ~Holds(Before(text, token), token)
           /\ StartingAt(text, token) \in Text
<1>1. Before(text, token) \in Text /\ ~Holds(Before(text, token), token)
  <2>1. CASE Holds(text, token)
    <3>. DEFINE i == Until(text, token)
    <3>1. i \in 1..Len(text) /\ text[i] = token /\ \A j \in 1..(i - 1) : text[j] # token
      BY <2>1, FirstStands
    <3>2. Before(text, token) = SubSeq(text, 1, i - 1)
      BY <2>1 DEF Before
    <3>. HIDE DEF i
    <3>3. SubSeq(text, 1, i - 1) \in Text /\ Len(SubSeq(text, 1, i - 1)) = i - 1
          /\ \A j \in 1..(i - 1) : SubSeq(text, 1, i - 1)[j] = text[j]
      BY <3>1 DEF Text
    <3>4. ~Holds(SubSeq(text, 1, i - 1), token)
      BY <3>1, <3>3 DEF Holds, Text
    <3>. QED BY <3>2, <3>3, <3>4
  <2>2. CASE ~Holds(text, token)
    BY <2>2 DEF Before
  <2>. QED BY <2>1, <2>2
<1>2. StartingAt(text, token) \in Text
  <2>1. Len(Before(text, token)) \in Nat /\ Len(text) \in Nat
    BY <1>1 DEF Text
  <2>. QED BY <2>1 DEF StartingAt, Text
<1>. QED BY <1>1, <1>2

(* The parts of a URL. *)
LEMMA UrlsAreTexts ==
    ASSUME NEW spec \in Specs, NEW url, url = Url(spec.scheme, spec.text, spec.query),
           url # Rejected
    PROVE  /\ url.user \in Text /\ url.host \in Text /\ url.path \in Text
           /\ url.query = spec.query /\ url.scheme = spec.scheme
           /\ ~Holds(url.host, "/")
<1>. DEFINE authority == Before(spec.text, "/")
            set == {i \in 1..Len(authority) : authority[i] = "@"}
            at == SelectLastInSeq(authority, LAMBDA t : t = "@")
            user == SubSeq(authority, 1, at - 1)
            host == SubSeq(authority, at + 1, Len(authority))
<1>1. spec.text \in Text
  BY AddressingAssumption
<1>2. authority \in Text /\ ~Holds(authority, "/") /\ StartingAt(spec.text, "/") \in Text
  BY <1>1, SplitAtToken
<1>3. url = [scheme |-> spec.scheme, user |-> user, host |-> host,
             path |-> StartingAt(spec.text, "/"), query |-> spec.query]
  BY DEF Url
<1>. HIDE DEF authority
<1>4. at \in 0..Len(authority)
  <2>1. at = IF set # {} THEN Max(set) ELSE 0
    BY DEF SelectLastInSeq
  <2>2. Len(authority) \in Nat
    BY <1>2 DEF Text
  <2>3. set # {} => Max(set) \in set
    BY <2>2, GreatestPosition
  <2>. QED BY <2>1, <2>2, <2>3
<1>. HIDE DEF at
<1>5. user \in Text /\ host \in Text
  BY <1>2, <1>4 DEF Text
<1>6. ~Holds(host, "/")
  <2>1. Len(host) = Len(authority) - at /\ \A i \in 1..Len(host) : host[i] = authority[at + i]
    BY <1>2, <1>4 DEF Text
  <2>. QED BY <1>2, <1>4, <1>5, <2>1 DEF Holds, Text
<1>. QED BY <1>2, <1>3, <1>5, <1>6

(* The tokens of a text, with those the code itself puts into one. *)
Tokens == STRING \cup {"/", ".env", "app.infisical.com", "secrets.enc", ".yaml"}

(* A text is a sequence of them. *)
LEMMA TextsAreTokens ==
    ASSUME NEW x \in Text
    PROVE  x \in Seq(Tokens)
<1>1. STRING \subseteq Tokens
  BY DEF Tokens
<1>2. x \in Seq(STRING)
  BY DEF Text
<1>3. \A S, T : S \subseteq T /\ x \in Seq(S) => x \in Seq(T)
  OBVIOUS
<1>. QED BY <1>1, <1>2, <1>3, Zenon

(* Put together they are a sequence of tokens, not empty unless both are. *)
LEMMA JoinsAreTokens ==
    ASSUME NEW x \in Seq(Tokens), NEW y \in Seq(Tokens)
    PROVE  /\ x \o y \in Seq(Tokens)
           /\ x # None \/ y # None => x \o y # None
<1>1. x \o y \in Seq(Tokens) /\ (x \o y = <<>> <=> x = <<>> /\ y = <<>>)
  BY ConcatProperties, ConcatEmptySeq
<1>. QED BY <1>1 DEF None

(* A single token is one. *)
LEMMA SingletonsAreSequences ==
    ASSUME NEW S, NEW t \in S
    PROVE  <<t>> \in Seq(S) /\ <<t>> # <<>>
<1>1. Len(<<t>>) = 1 /\ Len(<<>>) = 0
  OBVIOUS
<1>2. <<t>> \in Seq(S)
  OBVIOUS
<1>. QED BY <1>1, <1>2

(* A path taken from a directory is a path. *)
LEMMA RebasedIsAPath ==
    ASSUME NEW path \in Seq(Tokens), path # None
    PROVE  Rebased(path, Base) # None
<1>1. Base \in Seq(Tokens) /\ Base # None
  BY AddressingAssumption, TextsAreTokens
<1>2. <<"/">> \in Seq(Tokens) /\ <<"/">> # None
  <2>1. "/" \in Tokens
    BY DEF Tokens
  <2>. QED BY <2>1, SingletonsAreSequences DEF None
<1>3. Base \o <<"/">> \in Seq(Tokens) /\ Base \o <<"/">> # None
  BY <1>1, <1>2, JoinsAreTokens
<1>4. (Base \o <<"/">>) \o path # None
  BY <1>3, JoinsAreTokens
<1>. QED BY <1>4 DEF Rebased

(* Whatever a dotenv spec says, its file has a path. *)
LEMMA DotenvHasAPath ==
    ASSUME NEW spec \in Specs, NEW p, p = FromSpec(spec), p # Rejected, p.kind = "dotenv"
    PROVE  p.at # None
<1>. DEFINE url == Url(spec.scheme, spec.text, spec.query)
            path == PathOr(url, <<".env">>)
<1>1. p = FromUrl(url)
  BY DEF FromSpec
<1>2. url # Rejected
  BY <1>1 DEF FromUrl
<1>3. p = DotenvConfig(url)
  BY <1>1, OpenedByKind
<1>4. url.host \in Seq(Tokens) /\ url.path \in Seq(Tokens)
  BY <1>2, UrlsAreTexts, TextsAreTokens
<1>5. path \in Seq(Tokens) /\ path # None
  <2>1. CASE url.path \notin {None, <<"/">>}
    <3>1. url.host \o url.path \in Seq(Tokens) /\ url.host \o url.path # None
      BY <1>4, <2>1, JoinsAreTokens
    <3>2. path = url.host \o url.path
      BY <2>1 DEF PathOr, HostAndPath
    <3>. HIDE DEF path, url
    <3>. QED BY <3>1, <3>2
  <2>2. CASE url.path \in {None, <<"/">>}
    <3>1. path = IF url.host = None THEN <<".env">> ELSE url.host
      BY <2>2 DEF PathOr, OrElse
    <3>. HIDE DEF path, url
    <3>2. <<".env">> \in Seq(Tokens) /\ <<".env">> # None
      <4>1. ".env" \in Tokens
        BY DEF Tokens
      <4>. QED BY <4>1, SingletonsAreSequences DEF None
    <3>. QED BY <1>4, <3>1, <3>2
  <2>. QED BY <2>1, <2>2
<1>6. p.at = Rebased(ExpandTilde(path), Base)
  BY <1>3 DEF DotenvConfig, Opened
<1>. HIDE DEF path
<1>7. ExpandTilde(path) \in Seq(Tokens) /\ ExpandTilde(path) # None
  <2>1. Home \in Seq(Tokens) /\ Home # None
    BY AddressingAssumption, TextsAreTokens
  <2>2. Tail(path) \in Seq(Tokens)
    BY <1>5 DEF None
  <2>3. Home \o Tail(path) \in Seq(Tokens) /\ Home \o Tail(path) # None
    BY <2>1, <2>2, JoinsAreTokens
  <2>. QED BY <1>5, <2>3 DEF ExpandTilde
<1>. QED BY <1>6, <1>7, RebasedIsAPath

(* The name a container goes by. *)
ContainerName(p) == IF p.kind \in {"vault", "openbao"} THEN "kv" ELSE p.kind

(* It is the first part of what the container is. *)
LEMMA ContainersAreNamed ==
    ASSUME NEW p, p.kind \in Kinds
    PROVE  Container(p)[1] = ContainerName(p)
BY DEF Container, ContainerName, Kinds

(* The first place of an address, in its container. *)
LEMMA FirstPlace ==
    ASSUME NEW p, NEW a, p.kind \in Kinds, Places(p, a) # Rejected
    PROVE  /\ p.kind # "sops" =>
                /\ ResolveCoords(p, a) # Rejected
                /\ Head(Places(p, a)) = <<Container(p), Entry(p, a, ResolveCoords(p, a))>>
           /\ Head(Places(p, a))[1][1] = ContainerName(p)
<1>. DEFINE c == ResolveCoords(p, a)
            e == Entry(p, a, c)
<1>1. CASE p.kind = "sops"
  <2>. DEFINE paths == SopsLookupPaths(p, a)
  <2>1. Places(p, a) = [i \in DOMAIN paths |-> << <<"sops", SopsFile(p, a)>>, paths[i] >>]
    BY <1>1 DEF Places, SopsPlaces
  <2>2. 1 \in DOMAIN paths
    <3>1. \/ \E x, y : paths = << <<x, y>> >>
          \/ \E x : paths = << <<x>> >>
          \/ \E x, y, z : paths = << <<x, y>>, <<z>> >>
          \/ \E x, y, z : paths = << <<x, y, z>>, <<y, z>>, <<z>> >>
      BY DEF SopsLookupPaths
    <3>. HIDE DEF paths
    <3>2. \A x, y : paths = << <<x, y>> >> => 1 \in DOMAIN paths
      OBVIOUS
    <3>3. \A x : paths = << <<x>> >> => 1 \in DOMAIN paths
      OBVIOUS
    <3>4. \A x, y, z : paths = << <<x, y>>, <<z>> >> => 1 \in DOMAIN paths
      OBVIOUS
    <3>5. \A x, y, z : paths = << <<x, y, z>>, <<y, z>>, <<z>> >> => 1 \in DOMAIN paths
      OBVIOUS
    <3>. QED BY <3>1, <3>2, <3>3, <3>4, <3>5
  <2>. HIDE DEF paths
  <2>3. Places(p, a)[1] = << <<"sops", SopsFile(p, a)>>, paths[1] >>
    BY <2>1, <2>2
  <2>4. Head(Places(p, a)) = Places(p, a)[1]
    BY <2>1, <2>2
  <2>. QED BY <1>1, <2>3, <2>4 DEF ContainerName
<1>2. CASE p.kind # "sops"
  <2>1. c # Rejected /\ Places(p, a) = << <<Container(p), e>> >>
    BY <1>2 DEF Places
  <2>. HIDE DEF c, e
  <2>2. Head(Places(p, a)) = <<Container(p), e>>
    BY <2>1
  <2>3. Head(Places(p, a))[1][1] = ContainerName(p)
    BY <2>2, ContainersAreNamed
  <2>. QED BY <2>1, <2>2, <2>3 DEF c, e
<1>. QED BY <1>1, <1>2

(* Two stores that can drop what they hold, in one container, are the same  *)
(* store.                                                                   *)
LEMMA OneContainerOneStore ==
    ASSUME NEW p, NEW q, p.kind \in Kinds, q.kind \in Kinds, Deletes(p),
           Container(p) = Container(q),
           p.kind = "dotenv" => p.at # None, q.kind = "dotenv" => q.at # None,
           p.kind = "pass" /\ q.kind = "pass" => (p.at = None <=> q.at = None)
    PROVE  /\ SameStore(p, q)
           /\ \/ p.kind = q.kind
              \/ p.kind \in {"vault", "openbao"} /\ q.kind \in {"vault", "openbao"}
<1>1. ContainerName(p) = ContainerName(q)
  BY ContainersAreNamed
<1>2. \/ p.kind = q.kind
      \/ p.kind \in {"vault", "openbao"} /\ q.kind \in {"vault", "openbao"}
  BY <1>1 DEF ContainerName, Kinds
<1>3. CASE p.kind \in {"keyring", "gopass"}
  BY <1>2, <1>3 DEF SameStore, PhysicalStorePath, EntryContainerIdentity
<1>4. CASE p.kind = "pass"
  <2>1. Container(p)[2] = PhysicalFile(PassStore(p)) /\ Container(q)[2] = PhysicalFile(PassStore(q))
    BY <1>2, <1>4 DEF Container
  <2>2. PhysicalStorePath(p) = p.at /\ PhysicalStorePath(q) = q.at
    BY <1>2, <1>4 DEF PhysicalStorePath
  <2>3. CASE p.at = None /\ q.at = None
    BY <1>2, <1>4, <2>2, <2>3 DEF SameStore, EntryContainerIdentity
  <2>4. CASE p.at # None /\ q.at # None
    <3>1. PhysicalFile(p.at) = PhysicalFile(q.at)
      BY <2>1, <2>4 DEF PassStore, OrElse
    <3>. QED BY <1>2, <2>2, <2>4, <3>1 DEF SameStore
  <2>. QED BY <1>2, <1>4, <2>3, <2>4
<1>5. CASE p.kind = "dotenv"
  <2>1. PhysicalFile(p.at) = PhysicalFile(q.at)
    <3>1. Container(p)[2] = PhysicalFile(p.at) /\ Container(q)[2] = PhysicalFile(q.at)
      BY <1>2, <1>5 DEF Container
    <3>. QED BY <3>1
  <2>. QED BY <1>2, <1>5, <2>1 DEF SameStore, PhysicalStorePath
<1>6. CASE p.kind = "keeper"
  <2>1. Container(p)[2] = p.at /\ Container(q)[2] = q.at
    BY <1>2, <1>6 DEF Container
  <2>. QED BY <1>2, <1>6, <2>1 DEF SameStore, PhysicalStorePath, EntryContainerIdentity
<1>7. CASE p.kind \in {"vault", "openbao"}
  <2>1. Container(p)[2] = p.at /\ Container(q)[2] = q.at
    BY <1>2, <1>7 DEF Container
  <2>2. KvStorageIdentity(p) = KvStorageIdentity(q)
    BY <2>1 DEF KvStorageIdentity, BaseUri
  <2>3. StorageIdentity(p) = StorageIdentity(q)
    BY <1>2, <1>7, <2>2 DEF StorageIdentity
  <2>. QED BY <1>2, <1>7, <2>3 DEF SameStore, PhysicalStorePath, EntryContainerIdentity
<1>. QED BY <1>2, <1>3, <1>4, <1>5, <1>6, <1>7 DEF Deletes

(* There, an address that leads to the same entry is resolved alike. *)
LEMMA OneEntryOneItem ==
    ASSUME NEW p, NEW q, NEW a, p.kind \in Kinds, q.kind \in Kinds, Deletes(p),
           \/ p.kind = q.kind
           \/ p.kind \in {"vault", "openbao"} /\ q.kind \in {"vault", "openbao"},
           ResolveCoords(p, a) # Rejected, ResolveCoords(q, a) # Rejected,
           Entry(p, a, ResolveCoords(p, a)) = Entry(q, a, ResolveCoords(q, a))
    PROVE  ResolveCoords(p, a) = ResolveCoords(q, a)
<1>. DEFINE c == ResolveCoords(p, a)
            d == ResolveCoords(q, a)
<1>1. CASE a.form = "native"
  BY <1>1 DEF ResolveCoords
<1>2. CASE a.form # "native"
  <2>1. c = ConventionAddress(p, a) /\ d = ConventionAddress(q, a)
    BY <1>2 DEF ResolveCoords
  <2>2. CASE p.kind \in {"dotenv", "keeper", "vault", "openbao"}
    BY <2>1, <2>2 DEF ConventionAddress
  <2>3. CASE p.kind \in {"keyring", "pass", "gopass"}
    <3>1. c = Item(Fill(Layout(p), a)) /\ d = Item(Fill(Layout(q), a))
      BY <2>1, <2>3 DEF ConventionAddress
    <3>2. Entry(p, a, c)[1] = c.item /\ Entry(q, a, d)[1] = d.item
      <4>. HIDE DEF c, d
      <4>. QED BY <2>3 DEF Entry, KeyringEntry
    <3>3. c.item = Fill(Layout(p), a) /\ d.item = Fill(Layout(q), a)
      <4>. HIDE DEF c, d
      <4>. QED BY <3>1 DEF Item, Coords
    <3>. QED BY <3>1, <3>2, <3>3
  <2>. QED BY <2>2, <2>3 DEF Deletes
<1>. QED BY <1>1, <1>2

(* What was opened and is usable is of a known kind; a dotenv file has a    *)
(* path.                                                                    *)
LEMMA UsableIsKnown ==
    ASSUME NEW p, p \in {Nobody} \cup {FromSpec(spec) : spec \in Specs}, Usable(p)
    PROVE  p.kind \in Kinds /\ (p.kind = "dotenv" => p.at # None)
<1>1. PICK spec \in Specs : p = FromSpec(spec)
  BY DEF Usable
<1>2. p = FromUrl(Url(spec.scheme, spec.text, spec.query)) /\ p # Rejected
  BY <1>1 DEF FromSpec, Usable
<1>. QED BY <1>1, <1>2, OpenedByKind, DotenvHasAPath

(* A planned move never deletes the entry it writes. *)
LEMMA MovesAreApart ==
    ASSUME AddressingInv, Both, ~HalfNamed
    PROVE  MovesSpareOwnEntry
<1>. SUFFICES ASSUME verdict # Nobody, verdict.plan = "move", verdict.goes
              PROVE  LET from == Places(source, verdict.at)
                         to == Places(other, verdict.at)
                     IN from # Rejected /\ to # Rejected => Head(from) # Head(to)
  BY DEF MovesSpareOwnEntry
<1>1. PICK a \in Addresses :
          verdict = [plan |-> "move", at |-> a,
                     goes |-> Deletes(source) /\ ~SameEntry(source, other, a)]
  BY PlansAreNamed DEF AddressingInv, MovePlanned
<1>2. verdict.at = a /\ Deletes(source) /\ ~SameEntry(source, other, a)
  BY <1>1, Zenon
<1>. SUFFICES ASSUME Places(source, a) # Rejected, Places(other, a) # Rejected,
                     Head(Places(source, a)) = Head(Places(other, a))
              PROVE  FALSE
  BY <1>2
<1>. DEFINE c == ResolveCoords(source, a)
            d == ResolveCoords(other, a)
<1>3. /\ source.kind \in Kinds /\ (source.kind = "dotenv" => source.at # None)
      /\ other.kind \in Kinds /\ (other.kind = "dotenv" => other.at # None)
  BY UsableIsKnown DEF AddressingInv, Both, Usable
<1>4. source.kind # "sops" /\ other.kind # "sops"
  <2>1. ContainerName(source) = ContainerName(other)
    BY <1>3, FirstPlace
  <2>. QED BY <1>2, <2>1 DEF ContainerName, Deletes
<1>5. /\ c # Rejected /\ d # Rejected
      /\ <<Container(source), Entry(source, a, c)>> = <<Container(other), Entry(other, a, d)>>
  BY <1>3, <1>4, FirstPlace
<1>6. Container(source) = Container(other) /\ Entry(source, a, c) = Entry(other, a, d)
  BY <1>5
<1>7. /\ SameStore(source, other)
      /\ \/ source.kind = other.kind
         \/ source.kind \in {"vault", "openbao"} /\ other.kind \in {"vault", "openbao"}
  BY <1>2, <1>3, <1>6, OneContainerOneStore DEF HalfNamed
<1>8. c = d
  BY <1>2, <1>3, <1>5, <1>6, <1>7, OneEntryOneItem
<1>. QED BY <1>2, <1>7, <1>8 DEF SameEntry

(* A planned cache is another Vault or OpenBao store than its source. *)
LEMMA KvCachesAreApart ==
    ASSUME AddressingInv, Both, source.kind \in {"vault", "openbao"}
    PROVE  CachesAreApart
<1>. SUFFICES ASSUME verdict # Nobody, verdict.plan = "cache", verdict.goes,
                     NEW a \in Addresses, Places(source, a) # Rejected,
                     Places(source, a) = Places(other, a)
              PROVE  FALSE
  BY DEF CachesAreApart
<1>1. StorageIdentity(source) # StorageIdentity(other)
  <2>1. CachePlanned(verdict)
    BY PlansAreNamed DEF AddressingInv
  <2>2. verdict.goes = (/\ StorageIdentity(source) # StorageIdentity(other)
                        /\ Deletes(other))
    BY <2>1, Zenon DEF CachePlanned
  <2>. QED BY <2>2
<1>2. source.kind \in Kinds /\ other.kind \in Kinds
  BY UsableIsKnown DEF AddressingInv, Both, Usable
<1>3. ContainerName(other) = "kv"
  BY <1>2, FirstPlace DEF ContainerName
<1>4. other.kind \in {"vault", "openbao"}
  BY <1>2, <1>3 DEF ContainerName, Kinds
<1>5. Container(source) = Container(other)
  <2>1. <<Container(source), Entry(source, a, ResolveCoords(source, a))>>
          = <<Container(other), Entry(other, a, ResolveCoords(other, a))>>
    BY <1>2, <1>4, FirstPlace
  <2>. QED BY <2>1
<1>6. source.at = other.at
  <2>1. Container(source)[2] = source.at /\ Container(other)[2] = other.at
    BY <1>4 DEF Container
  <2>. QED BY <1>5, <2>1
<1>. QED BY <1>1, <1>4, <1>6 DEF StorageIdentity, KvStorageIdentity, BaseUri

(***************************************************************************)
(* No planned move deletes the entry it writes, and no planned cache of    *)
(* Vault or OpenBao overwrites its source, whatever the specs, addresses,  *)
(* environment and file system.                                            *)
(***************************************************************************)
THEOREM CounterpartsAreDistinct == AddressingSpec => []OwnEntryIsSpared
<1>1. AddressingInv => OwnEntryIsSpared
  BY MovesAreApart, KvCachesAreApart DEF OwnEntryIsSpared
<1>. QED BY <1>1, AddressingHolds, PTL

(* The parts of a provider as it was opened. *)
LEMMA OpeningKeeps ==
    ASSUME NEW p, NEW kind, NEW at, NEW layout, NEW options,
           p = Opened(kind, at, layout, options)
    PROVE  p.kind = kind /\ p.at = at /\ p.layout = layout /\ p.options = options
BY DEF Opened

(* What each kind keeps of its spec, and that there is nothing else to it. *)
LEMMA KindsKeep ==
    ASSUME NEW url, NEW p, p = FromUrl(url), p # Rejected
    PROVE  /\ p.kind = "keyring" => p = Opened("keyring", None, p.layout, Nothing)
           /\ p.kind = "pass" => p = Opened("pass", p.at, p.layout, Nothing)
           /\ p.kind = "gopass" => p = Opened("gopass", None, p.layout, Nothing)
           /\ p.kind = "protonpass" => p = Opened("protonpass", p.at, p.layout, Nothing)
           /\ p.kind = "dotenv" => p = Opened("dotenv", p.at, None, Nothing)
           /\ p.kind = "age" => p = Opened("age", p.at, None, p.options)
           /\ p.kind = "kdbx" => p = Opened("kdbx", p.at, p.layout, p.options)
           /\ p.kind = "sops" => p = Opened("sops", p.at, p.layout, p.options)
           /\ p.kind = "env" => p = Opened("env", None, None, Nothing)
           /\ p.kind = "systemd-credential" => p = Opened("systemd-credential", None, None, Nothing)
           /\ p.kind = "awsps" => p = Opened("awsps", p.at, p.layout, p.options)
           /\ p.kind = "awssm" => p = Opened("awssm", p.at, None, p.options)
           /\ p.kind = "akv" => p = Opened("akv", p.at, None, p.options)
           /\ p.kind = "gcsm" => p = Opened("gcsm", p.at, None, Nothing)
           /\ p.kind = "scaleway" => p = Opened("scaleway", p.at, None, p.options)
           /\ p.kind = "infisical" => p = Opened("infisical", p.at, None, p.options)
           /\ p.kind = "bw" => p = Opened("bw", p.at, None, p.options)
           /\ p.kind = "bws" => p = Opened("bws", p.at, None, Nothing)
           /\ p.kind = "onepassword" => p = Opened("onepassword", p.at, None, p.options)
           /\ p.kind = "keeper" => p = Opened("keeper", p.at, None, p.options)
           /\ p.kind = "dashlane" => p = Opened("dashlane", p.at, None, Nothing)
           /\ p.kind \in {"vault", "openbao"} => p = Opened(p.kind, p.at, None, p.options)
<1>1. ASSUME p.kind = "keyring" PROVE p = Opened("keyring", None, p.layout, Nothing)
  <2>1. p = KeyringConfig(url)
    BY <1>1, OpenedByKind
  <2>2. \E y : p = Opened("keyring", None, y, Nothing)
    BY <2>1, Zenon DEF KeyringConfig
  <2>. QED BY <2>2, OpeningKeeps
<1>2. ASSUME p.kind = "pass" PROVE p = Opened("pass", p.at, p.layout, Nothing)
  <2>1. p = PassConfig(url)
    BY <1>2, OpenedByKind
  <2>2. \E x, y : p = Opened("pass", x, y, Nothing)
    BY <2>1, Zenon DEF PassConfig
  <2>. QED BY <2>2, OpeningKeeps
<1>3. ASSUME p.kind = "gopass" PROVE p = Opened("gopass", None, p.layout, Nothing)
  <2>1. p = GopassConfig(url)
    BY <1>3, OpenedByKind
  <2>2. \E y : p = Opened("gopass", None, y, Nothing)
    BY <2>1, Zenon DEF GopassConfig
  <2>. QED BY <2>2, OpeningKeeps
<1>4. ASSUME p.kind = "protonpass" PROVE p = Opened("protonpass", p.at, p.layout, Nothing)
  <2>1. p = ProtonpassConfig(url)
    BY <1>4, OpenedByKind
  <2>2. \E x, y : p = Opened("protonpass", x, y, Nothing)
    BY <2>1, Zenon DEF ProtonpassConfig
  <2>. QED BY <2>2, OpeningKeeps
<1>5. ASSUME p.kind = "dotenv" PROVE p = Opened("dotenv", p.at, None, Nothing)
  <2>1. p = DotenvConfig(url)
    BY <1>5, OpenedByKind
  <2>2. \E x : p = Opened("dotenv", x, None, Nothing)
    BY <2>1, Zenon DEF DotenvConfig
  <2>. QED BY <2>2, OpeningKeeps
<1>6. ASSUME p.kind = "age" PROVE p = Opened("age", p.at, None, p.options)
  <2>1. p = AgeConfig(url)
    BY <1>6, OpenedByKind
  <2>2. \E x, z : p = Opened("age", x, None, z)
    BY <2>1, Zenon DEF AgeConfig
  <2>. QED BY <2>2, OpeningKeeps
<1>7. ASSUME p.kind = "kdbx" PROVE p = Opened("kdbx", p.at, p.layout, p.options)
  <2>1. p = KdbxConfig(url)
    BY <1>7, OpenedByKind
  <2>2. \E x, y, z : p = Opened("kdbx", x, y, z)
    BY <2>1, Zenon DEF KdbxConfig
  <2>. QED BY <2>2, OpeningKeeps
<1>8. ASSUME p.kind = "sops" PROVE p = Opened("sops", p.at, p.layout, p.options)
  <2>1. p = SopsConfig(url)
    BY <1>8, OpenedByKind
  <2>2. \E x, y, z : p = Opened("sops", x, y, z)
    BY <2>1, Zenon DEF SopsConfig
  <2>. QED BY <2>2, OpeningKeeps
<1>9. p.kind = "env" => p = Opened("env", None, None, Nothing)
  BY OpenedByKind DEF EnvConfig
<1>10. p.kind = "systemd-credential" => p = Opened("systemd-credential", None, None, Nothing)
  BY OpenedByKind DEF SystemdConfig
<1>11. ASSUME p.kind = "awsps" PROVE p = Opened("awsps", p.at, p.layout, p.options)
  <2>1. p = AwspsConfig(url)
    BY <1>11, OpenedByKind
  <2>2. \E x, y, z : p = Opened("awsps", x, y, z)
    BY <2>1, Zenon DEF AwspsConfig
  <2>. QED BY <2>2, OpeningKeeps
<1>12. ASSUME p.kind = "awssm" PROVE p = Opened("awssm", p.at, None, p.options)
  <2>1. p = AwssmConfig(url)
    BY <1>12, OpenedByKind
  <2>2. \E x, z : p = Opened("awssm", x, None, z)
    BY <2>1, Zenon DEF AwssmConfig
  <2>. QED BY <2>2, OpeningKeeps
<1>13. ASSUME p.kind = "akv" PROVE p = Opened("akv", p.at, None, p.options)
  <2>1. p = AkvConfig(url)
    BY <1>13, OpenedByKind
  <2>2. \E x, z : p = Opened("akv", x, None, z)
    BY <2>1, Zenon DEF AkvConfig
  <2>. QED BY <2>2, OpeningKeeps
<1>14. ASSUME p.kind = "gcsm" PROVE p = Opened("gcsm", p.at, None, Nothing)
  <2>1. p = GcsmConfig(url)
    BY <1>14, OpenedByKind
  <2>2. \E x : p = Opened("gcsm", x, None, Nothing)
    BY <2>1, Zenon DEF GcsmConfig
  <2>. QED BY <2>2, OpeningKeeps
<1>15. ASSUME p.kind = "scaleway" PROVE p = Opened("scaleway", p.at, None, p.options)
  <2>1. p = ScalewayConfig(url)
    BY <1>15, OpenedByKind
  <2>2. \E x, z : p = Opened("scaleway", x, None, z)
    BY <2>1, Zenon DEF ScalewayConfig
  <2>. QED BY <2>2, OpeningKeeps
<1>16. ASSUME p.kind = "infisical" PROVE p = Opened("infisical", p.at, None, p.options)
  <2>1. p = InfisicalConfig(url)
    BY <1>16, OpenedByKind
  <2>2. \E x, z : p = Opened("infisical", x, None, z)
    BY <2>1, Zenon DEF InfisicalConfig
  <2>. QED BY <2>2, OpeningKeeps
<1>17. ASSUME p.kind = "bw" PROVE p = Opened("bw", p.at, None, p.options)
  <2>1. p = BwConfig(url)
    BY <1>17, OpenedByKind
  <2>2. \E x, z : p = Opened("bw", x, None, z)
    BY <2>1, Zenon DEF BwConfig
  <2>. QED BY <2>2, OpeningKeeps
<1>18. ASSUME p.kind = "bws" PROVE p = Opened("bws", p.at, None, Nothing)
  <2>1. p = BwsConfig(url)
    BY <1>18, OpenedByKind
  <2>2. \E x : p = Opened("bws", x, None, Nothing)
    BY <2>1, Zenon DEF BwsConfig
  <2>. QED BY <2>2, OpeningKeeps
<1>19. ASSUME p.kind = "onepassword" PROVE p = Opened("onepassword", p.at, None, p.options)
  <2>1. p = OnepasswordConfig(url)
    BY <1>19, OpenedByKind
  <2>2. \E x, z : p = Opened("onepassword", x, None, z)
    BY <2>1, Zenon DEF OnepasswordConfig
  <2>. QED BY <2>2, OpeningKeeps
<1>20. ASSUME p.kind = "keeper" PROVE p = Opened("keeper", p.at, None, p.options)
  <2>1. p = KeeperConfig(url)
    BY <1>20, OpenedByKind
  <2>2. \E x, z : p = Opened("keeper", x, None, z)
    BY <2>1, Zenon DEF KeeperConfig
  <2>. QED BY <2>2, OpeningKeeps
<1>21. ASSUME p.kind = "dashlane" PROVE p = Opened("dashlane", p.at, None, Nothing)
  <2>1. p = DashlaneConfig(url)
    BY <1>21, OpenedByKind
  <2>2. \E x : p = Opened("dashlane", x, None, Nothing)
    BY <2>1, Zenon DEF DashlaneConfig
  <2>. QED BY <2>2, OpeningKeeps
<1>22. ASSUME p.kind \in {"vault", "openbao"} PROVE p = Opened(p.kind, p.at, None, p.options)
  <2>1. p = KvConfig(url, p.kind)
    BY <1>22, OpenedByKind
  <2>2. \E x, z : p = Opened(p.kind, x, None, z)
    BY <2>1, Zenon DEF KvConfig
  <2>. QED BY <2>2, OpeningKeeps
<1>. QED BY <1>1, <1>2, <1>3, <1>4, <1>5, <1>6, <1>7, <1>8, <1>9, <1>10, <1>11,
          <1>12, <1>13, <1>14, <1>15, <1>16, <1>17, <1>18, <1>19, <1>20, <1>21, <1>22

\* The kinds without a container of their own, without a layout, and without
\* options.
Placeless == {"keyring", "gopass", "env", "systemd-credential"}
Unlaid == {"dotenv", "age", "env", "systemd-credential", "awssm", "akv",
          "gcsm", "scaleway", "infisical", "bw", "bws", "onepassword",
          "keeper", "dashlane", "vault", "openbao"}
Optionless == {"keyring", "pass", "gopass", "protonpass", "dotenv", "env",
           "systemd-credential", "gcsm", "bws", "dashlane"}

(* Which parts a provider of a kind has; what it has not is the same in all. *)
LEMMA PartsKept ==
    ASSUME NEW url, NEW p, p = FromUrl(url), p # Rejected, p.kind # "lastpass"
    PROVE  /\ p = Opened(p.kind, p.at, p.layout, p.options)
           /\ p.kind \in Placeless => p.at = None
           /\ p.kind \in Unlaid => p.layout = None
           /\ p.kind \in Optionless => p.options = Nothing
<1>1. p.kind \in Kinds
  BY OpenedByKind
<1>. DEFINE Kept == /\ p = Opened(p.kind, p.at, p.layout, p.options)
                    /\ p.kind \in Placeless => p.at = None
                    /\ p.kind \in Unlaid => p.layout = None
                    /\ p.kind \in Optionless => p.options = Nothing
<1>2. CASE p.kind = "keyring"
  <2>1. p = Opened("keyring", None, p.layout, Nothing)
    BY <1>2, KindsKeep
  <2>2. p.at = None /\ p.options = Nothing
    BY <2>1, OpeningKeeps
  <2>. QED BY <1>2, <2>1, <2>2 DEF Unlaid
<1>3. CASE p.kind = "pass"
  <2>1. p = Opened("pass", p.at, p.layout, Nothing)
    BY <1>3, KindsKeep
  <2>2. p.options = Nothing
    BY <2>1, OpeningKeeps
  <2>. QED BY <1>3, <2>1, <2>2 DEF Placeless, Unlaid
<1>4. CASE p.kind = "gopass"
  <2>1. p = Opened("gopass", None, p.layout, Nothing)
    BY <1>4, KindsKeep
  <2>2. p.at = None /\ p.options = Nothing
    BY <2>1, OpeningKeeps
  <2>. QED BY <1>4, <2>1, <2>2 DEF Unlaid
<1>5. CASE p.kind = "protonpass"
  <2>1. p = Opened("protonpass", p.at, p.layout, Nothing)
    BY <1>5, KindsKeep
  <2>2. p.options = Nothing
    BY <2>1, OpeningKeeps
  <2>. QED BY <1>5, <2>1, <2>2 DEF Placeless, Unlaid
<1>6. CASE p.kind = "dotenv"
  <2>1. p = Opened("dotenv", p.at, None, Nothing)
    BY <1>6, KindsKeep
  <2>2. p.layout = None /\ p.options = Nothing
    BY <2>1, OpeningKeeps
  <2>. QED BY <1>6, <2>1, <2>2 DEF Placeless
<1>7. CASE p.kind = "age"
  <2>1. p = Opened("age", p.at, None, p.options)
    BY <1>7, KindsKeep
  <2>2. p.layout = None
    BY <2>1, OpeningKeeps
  <2>. QED BY <1>7, <2>1, <2>2 DEF Placeless, Optionless
<1>8. CASE p.kind = "kdbx"
  BY <1>8, KindsKeep DEF Placeless, Unlaid, Optionless
<1>9. CASE p.kind = "sops"
  BY <1>9, KindsKeep DEF Placeless, Unlaid, Optionless
<1>10. CASE p.kind = "env"
  <2>1. p = Opened("env", None, None, Nothing)
    BY <1>10, KindsKeep
  <2>2. p.at = None /\ p.layout = None /\ p.options = Nothing
    BY <2>1, OpeningKeeps
  <2>. QED BY <1>10, <2>1, <2>2
<1>11. CASE p.kind = "systemd-credential"
  <2>1. p = Opened("systemd-credential", None, None, Nothing)
    BY <1>11, KindsKeep
  <2>2. p.at = None /\ p.layout = None /\ p.options = Nothing
    BY <2>1, OpeningKeeps
  <2>. QED BY <1>11, <2>1, <2>2
<1>12. CASE p.kind = "awsps"
  BY <1>12, KindsKeep DEF Placeless, Unlaid, Optionless
<1>13. CASE p.kind = "awssm"
  <2>1. p = Opened("awssm", p.at, None, p.options)
    BY <1>13, KindsKeep
  <2>2. p.layout = None
    BY <2>1, OpeningKeeps
  <2>. QED BY <1>13, <2>1, <2>2 DEF Placeless, Optionless
<1>14. CASE p.kind = "akv"
  <2>1. p = Opened("akv", p.at, None, p.options)
    BY <1>14, KindsKeep
  <2>2. p.layout = None
    BY <2>1, OpeningKeeps
  <2>. QED BY <1>14, <2>1, <2>2 DEF Placeless, Optionless
<1>15. CASE p.kind = "gcsm"
  <2>1. p = Opened("gcsm", p.at, None, Nothing)
    BY <1>15, KindsKeep
  <2>2. p.layout = None /\ p.options = Nothing
    BY <2>1, OpeningKeeps
  <2>. QED BY <1>15, <2>1, <2>2 DEF Placeless
<1>16. CASE p.kind = "scaleway"
  <2>1. p = Opened("scaleway", p.at, None, p.options)
    BY <1>16, KindsKeep
  <2>2. p.layout = None
    BY <2>1, OpeningKeeps
  <2>. QED BY <1>16, <2>1, <2>2 DEF Placeless, Optionless
<1>17. CASE p.kind = "infisical"
  <2>1. p = Opened("infisical", p.at, None, p.options)
    BY <1>17, KindsKeep
  <2>2. p.layout = None
    BY <2>1, OpeningKeeps
  <2>. QED BY <1>17, <2>1, <2>2 DEF Placeless, Optionless
<1>18. CASE p.kind = "bw"
  <2>1. p = Opened("bw", p.at, None, p.options)
    BY <1>18, KindsKeep
  <2>2. p.layout = None
    BY <2>1, OpeningKeeps
  <2>. QED BY <1>18, <2>1, <2>2 DEF Placeless, Optionless
<1>19. CASE p.kind = "bws"
  <2>1. p = Opened("bws", p.at, None, Nothing)
    BY <1>19, KindsKeep
  <2>2. p.layout = None /\ p.options = Nothing
    BY <2>1, OpeningKeeps
  <2>. QED BY <1>19, <2>1, <2>2 DEF Placeless
<1>20. CASE p.kind = "onepassword"
  <2>1. p = Opened("onepassword", p.at, None, p.options)
    BY <1>20, KindsKeep
  <2>2. p.layout = None
    BY <2>1, OpeningKeeps
  <2>. QED BY <1>20, <2>1, <2>2 DEF Placeless, Optionless
<1>21. CASE p.kind = "keeper"
  <2>1. p = Opened("keeper", p.at, None, p.options)
    BY <1>21, KindsKeep
  <2>2. p.layout = None
    BY <2>1, OpeningKeeps
  <2>. QED BY <1>21, <2>1, <2>2 DEF Placeless, Optionless
<1>22. CASE p.kind = "dashlane"
  <2>1. p = Opened("dashlane", p.at, None, Nothing)
    BY <1>22, KindsKeep
  <2>2. p.layout = None /\ p.options = Nothing
    BY <2>1, OpeningKeeps
  <2>. QED BY <1>22, <2>1, <2>2 DEF Placeless
<1>23. CASE p.kind \in {"vault", "openbao"}
  <2>1. p = Opened(p.kind, p.at, None, p.options)
    BY <1>23, KindsKeep
  <2>2. p.layout = None
    BY <2>1, OpeningKeeps
  <2>. QED BY <1>23, <2>1, <2>2 DEF Placeless, Optionless
<1>. QED BY <1>1, <1>2, <1>3, <1>4, <1>5, <1>6, <1>7, <1>8, <1>9, <1>10, <1>11, <1>12,
          <1>13, <1>14, <1>15, <1>16, <1>17, <1>18, <1>19, <1>20, <1>21, <1>22, <1>23 DEF Kinds

(* Two providers of a kind are the same when the parts the kind has are.     *)
LEMMA PartsTell ==
    ASSUME NEW url1, NEW url2, NEW p, NEW q, p = FromUrl(url1), q = FromUrl(url2),
           p # Rejected, q # Rejected, p.kind = q.kind, p.kind # "lastpass",
           p.at = q.at \/ p.kind \in Placeless,
           p.layout = q.layout \/ p.kind \in Unlaid,
           p.options = q.options \/ p.kind \in Optionless
    PROVE  p = q
<1>1. /\ p = Opened(p.kind, p.at, p.layout, p.options)
      /\ p.kind \in Placeless => p.at = None
      /\ p.kind \in Unlaid => p.layout = None
      /\ p.kind \in Optionless => p.options = Nothing
  BY PartsKept
<1>2. /\ q = Opened(q.kind, q.at, q.layout, q.options)
      /\ q.kind \in Placeless => q.at = None
      /\ q.kind \in Unlaid => q.layout = None
      /\ q.kind \in Optionless => q.options = Nothing
  BY PartsKept
<1>. QED BY <1>1, <1>2

(* A map, which is its entries. *)
Map(f) == f = [n \in DOMAIN f |-> f[n]]

(* The options a query gives are among those asked for. *)
LEMMA GivenIsAMap ==
    ASSUME NEW url, NEW names
    PROVE  Map(Given(url, names)) /\ DOMAIN Given(url, names) \subseteq names
BY DEF Map, Given

(* Two maps put together. *)
LEMMA WithIsAMap ==
    ASSUME NEW f, NEW g
    PROVE  Map(With(f, g)) /\ DOMAIN With(f, g) = DOMAIN f \cup DOMAIN g
BY DEF Map, With

(* Two maps put together can be told apart again where they share no name: *)
(* the names of the one are outside a set, those of the other in it.       *)
LEMMA WithTells ==
    ASSUME NEW T, NEW f1, NEW f2, NEW g1, NEW g2,
           Map(f1), Map(f2), Map(g1), Map(g2),
           DOMAIN f1 \cap T = {}, DOMAIN f2 \cap T = {},
           DOMAIN g1 \subseteq T, DOMAIN g2 \subseteq T,
           With(f1, g1) = With(f2, g2) \/ With(g1, f1) = With(g2, f2)
    PROVE  f1 = f2 /\ g1 = g2
<1>1. PICK h : \/ h = With(f1, g1) /\ h = With(f2, g2)
               \/ h = With(g1, f1) /\ h = With(g2, f2)
  OBVIOUS
<1>2. DOMAIN h = DOMAIN f1 \cup DOMAIN g1 /\ DOMAIN h = DOMAIN f2 \cup DOMAIN g2
  <2>1. /\ DOMAIN With(f1, g1) = DOMAIN f1 \cup DOMAIN g1
        /\ DOMAIN With(g1, f1) = DOMAIN g1 \cup DOMAIN f1
        /\ DOMAIN With(f2, g2) = DOMAIN f2 \cup DOMAIN g2
        /\ DOMAIN With(g2, f2) = DOMAIN g2 \cup DOMAIN f2
    BY WithIsAMap
  <2>2. CASE h = With(f1, g1) /\ h = With(f2, g2)
    BY <2>1, <2>2, Zenon
  <2>3. CASE h = With(g1, f1) /\ h = With(g2, f2)
    <3>1. DOMAIN h = DOMAIN g1 \cup DOMAIN f1 /\ DOMAIN h = DOMAIN g2 \cup DOMAIN f2
      BY <2>1, <2>3, Zenon
    <3>. QED BY <3>1
  <2>. QED BY <1>1, <2>2, <2>3
<1>3. \A n \in DOMAIN f1 : h[n] = f1[n]
  BY <1>1 DEF With
<1>4. \A n \in DOMAIN f2 : h[n] = f2[n]
  BY <1>1 DEF With
<1>5. \A n \in DOMAIN g1 : h[n] = g1[n]
  BY <1>1 DEF With
<1>6. \A n \in DOMAIN g2 : h[n] = g2[n]
  BY <1>1 DEF With
<1>7. DOMAIN f1 = DOMAIN f2 /\ DOMAIN g1 = DOMAIN g2
  BY <1>2
<1>8. f1 = f2
  <2>1. f1 = [n \in DOMAIN f1 |-> f1[n]] /\ f2 = [n \in DOMAIN f2 |-> f2[n]]
    BY DEF Map
  <2>2. \A n \in DOMAIN f1 : f1[n] = f2[n]
    BY <1>3, <1>4, <1>7
  <2>. QED BY <1>7, <2>1, <2>2
<1>9. g1 = g2
  <2>1. g1 = [n \in DOMAIN g1 |-> g1[n]] /\ g2 = [n \in DOMAIN g2 |-> g2[n]]
    BY DEF Map
  <2>2. \A n \in DOMAIN g1 : g1[n] = g2[n]
    BY <1>5, <1>6, <1>7
  <2>. QED BY <1>7, <2>1, <2>2
<1>. QED BY <1>8, <1>9

(* One entry, and none, are maps. *)
LEMMA EntriesAreMaps ==
    ASSUME NEW x
    PROVE  /\ Map([prefix |-> x]) /\ DOMAIN [prefix |-> x] = {"prefix"}
           /\ Map([template |-> x]) /\ DOMAIN [template |-> x] = {"template"}
           /\ Map([org |-> x]) /\ DOMAIN [org |-> x] = {"org"}
           /\ Map([tls |-> x]) /\ DOMAIN [tls |-> x] = {"tls"}
           /\ Map(Nothing) /\ DOMAIN Nothing = {}
BY DEF Map, Nothing

(* The parts of two texts put together. *)
LEMMA ConcatParts ==
    ASSUME NEW S, NEW u \in Seq(S), NEW y \in Seq(S)
    PROVE  /\ u \o y \in Seq(S) /\ Len(u \o y) = Len(u) + Len(y)
           /\ \A i \in 1..Len(u) : (u \o y)[i] = u[i]
           /\ \A i \in 1..Len(y) : (u \o y)[Len(u) + i] = y[i]
<1>1. u \o y \in Seq(S) /\ Len(u \o y) = Len(u) + Len(y)
  OBVIOUS
<1>2. ASSUME NEW i \in 1..Len(u) PROVE (u \o y)[i] = u[i]
  OBVIOUS
<1>3. ASSUME NEW i \in 1..Len(y) PROVE (u \o y)[Len(u) + i] = y[i]
  <2>1. Len(u) + i > Len(u) /\ Len(u) + i <= Len(u) + Len(y) /\ Len(u) + i - Len(u) = i
    OBVIOUS
  <2>. QED BY <2>1
<1>. QED BY <1>1, <1>2, <1>3

(* And of two texts joined by a "/". *)
LEMMA JoinParts ==
    ASSUME NEW S, NEW x \in Seq(S), NEW y \in Seq(S), "/" \in S,
           NEW t, t = x \o <<"/">> \o y
    PROVE  /\ t \in Seq(S) /\ Len(t) = Len(x) + 1 + Len(y)
           /\ \A i \in 1..Len(x) : t[i] = x[i]
           /\ t[Len(x) + 1] = "/"
           /\ \A i \in 1..Len(y) : t[Len(x) + 1 + i] = y[i]
<1>. DEFINE u == x \o <<"/">>
<1>1. <<"/">> \in Seq(S) /\ Len(<<"/">>) = 1 /\ <<"/">>[1] = "/"
  OBVIOUS
<1>2. /\ u \in Seq(S) /\ Len(u) = Len(x) + 1
      /\ \A i \in 1..Len(x) : u[i] = x[i]
      /\ u[Len(x) + 1] = "/"
  BY <1>1
<1>3. t = u \o y
  OBVIOUS
<1>. HIDE DEF u
<1>4. u \in Seq(S)
  BY <1>2
<1>5. t \in Seq(S) /\ Len(t) = Len(u) + Len(y)
  BY <1>3, <1>4, ConcatParts
<1>6. \A i \in 1..Len(u) : t[i] = u[i]
  BY <1>3, <1>4, ConcatParts
<1>7. \A i \in 1..Len(y) : t[Len(u) + i] = y[i]
  BY <1>3, <1>4, ConcatParts
<1>8. (\A i \in 1..Len(x) : i \in 1..Len(u)) /\ Len(x) + 1 \in 1..Len(u)
  BY <1>2
<1>9. \A i \in 1..Len(x) : t[i] = x[i]
  BY <1>2, <1>6, <1>8
<1>10. t[Len(x) + 1] = "/"
  BY <1>2, <1>6, <1>8
<1>. QED BY <1>2, <1>5, <1>7, <1>9, <1>10

(* What stands on either side of the first "/" of a text is told by it. *)
LEMMA JoinTells ==
    ASSUME NEW S, NEW x1 \in Seq(S), NEW x2 \in Seq(S), NEW y1 \in Seq(S), NEW y2 \in Seq(S),
           "/" \in S, ~Holds(x1, "/"), ~Holds(x2, "/"),
           x1 \o <<"/">> \o y1 = x2 \o <<"/">> \o y2
    PROVE  x1 = x2 /\ y1 = y2
<1>1. PICK t : t = x1 \o <<"/">> \o y1
  OBVIOUS
<1>2. t = x2 \o <<"/">> \o y2
  BY <1>1
<1>3. /\ Len(t) = Len(x1) + 1 + Len(y1)
      /\ \A i \in 1..Len(x1) : t[i] = x1[i]
      /\ t[Len(x1) + 1] = "/"
      /\ \A i \in 1..Len(y1) : t[Len(x1) + 1 + i] = y1[i]
  BY <1>1, JoinParts
<1>4. /\ Len(t) = Len(x2) + 1 + Len(y2)
      /\ \A i \in 1..Len(x2) : t[i] = x2[i]
      /\ t[Len(x2) + 1] = "/"
      /\ \A i \in 1..Len(y2) : t[Len(x2) + 1 + i] = y2[i]
  BY <1>2, JoinParts
<1>5. Len(x1) = Len(x2)
  <2>1. ~(Len(x1) < Len(x2))
    <3>. SUFFICES ASSUME Len(x1) < Len(x2) PROVE FALSE
      OBVIOUS
    <3>1. Len(x1) + 1 \in 1..Len(x2)
      OBVIOUS
    <3>2. x2[Len(x1) + 1] = "/"
      BY <1>3, <1>4, <3>1
    <3>. QED BY <3>1, <3>2 DEF Holds
  <2>2. ~(Len(x2) < Len(x1))
    <3>. SUFFICES ASSUME Len(x2) < Len(x1) PROVE FALSE
      OBVIOUS
    <3>1. Len(x2) + 1 \in 1..Len(x1)
      OBVIOUS
    <3>2. x1[Len(x2) + 1] = "/"
      BY <1>3, <1>4, <3>1
    <3>. QED BY <3>1, <3>2 DEF Holds
  <2>. QED BY <2>1, <2>2
<1>6. x1 = x2
  <2>1. \A i \in 1..Len(x1) : x1[i] = x2[i]
    BY <1>3, <1>4, <1>5
  <2>. QED BY <1>5, <2>1
<1>7. Len(y1) = Len(y2) /\ \A i \in 1..Len(y1) : y1[i] = y2[i]
  BY <1>3, <1>4, <1>5
<1>8. y1 = y2
  BY <1>7
<1>. QED BY <1>6, <1>8

(* A text without the "/" at its ends is a part of it. *)
LEMMA TrimsAreTokens ==
    ASSUME NEW text \in Seq(Tokens)
    PROVE  /\ TrimLeft(text) \in Seq(Tokens) /\ TrimRight(text) \in Seq(Tokens)
           /\ Trim(text) \in Seq(Tokens)
<1>1. ASSUME NEW x \in Seq(Tokens)
      PROVE  TrimLeft(x) \in Seq(Tokens) /\ TrimRight(x) \in Seq(Tokens)
  <2>. DEFINE set == NotSlash(x)
  <2>1. CASE set = {}
    BY <2>1 DEF TrimLeft, TrimRight, None
  <2>2. CASE set # {}
    <3>1. set \subseteq 1..Len(x) /\ Len(x) \in Nat
      BY DEF NotSlash
    <3>2. Min(set) \in 1..Len(x)
      <4>1. set \subseteq Nat
        BY <3>1
      <4>. HIDE DEF set
      <4>2. Min(set) \in set
        BY <2>2, <4>1, LeastPosition
      <4>. QED BY <3>1, <4>2
    <3>3. Max(set) \in 1..Len(x)
      <4>. HIDE DEF set
      <4>1. Max(set) \in set
        BY <2>2, <3>1, GreatestPosition
      <4>. QED BY <3>1, <4>1
    <3>4. TrimLeft(x) = SubSeq(x, Min(set), Len(x)) /\ TrimRight(x) = SubSeq(x, 1, Max(set))
      BY <2>2 DEF TrimLeft, TrimRight
    <3>. HIDE DEF set
    <3>. QED BY <3>1, <3>2, <3>3, <3>4
  <2>. QED BY <2>1, <2>2
<1>. QED BY <1>1 DEF Trim

(* A URL has a user only where it has a host. *)
LEMMA NoHostNoUser ==
    ASSUME NEW spec \in Specs, NEW url, url = Url(spec.scheme, spec.text, spec.query),
           url # Rejected, url.host = None
    PROVE  url.user = None
<1>. DEFINE authority == Before(spec.text, "/")
            set == {i \in 1..Len(authority) : authority[i] = "@"}
            at == SelectLastInSeq(authority, LAMBDA t : t = "@")
            user == SubSeq(authority, 1, at - 1)
            host == SubSeq(authority, at + 1, Len(authority))
<1>1. url.user = user /\ url.host = host /\ ~(Holds(authority, "@") /\ host = None)
  BY DEF Url
<1>2. authority \in Text
  BY SplitAtToken, AddressingAssumption
<1>. HIDE DEF authority
<1>3. set = {}
  <2>1. DOMAIN authority = 1..Len(authority)
    BY <1>2 DEF Text
  <2>. QED BY <1>1, <2>1 DEF Holds
<1>4. at = 0
  <2>1. at = IF set # {} THEN Max(set) ELSE 0
    BY DEF SelectLastInSeq
  <2>. QED BY <1>3, <2>1
<1>. HIDE DEF at
<1>5. user = <<>>
  BY <1>2, <1>4 DEF Text
<1>. QED BY <1>1, <1>5 DEF None

(* The options of these kinds leave the name free that the URI adds. *)
LEMMA OptionsLeaveRoom ==
    ASSUME NEW url, NEW p, p = FromUrl(url), p # Rejected
    PROVE  /\ p.kind = "kdbx" => Map(p.options) /\ DOMAIN p.options \cap {"prefix"} = {}
           /\ p.kind = "awsps" => Map(p.options) /\ DOMAIN p.options \cap {"template"} = {}
           /\ p.kind = "bw" => Map(p.options) /\ DOMAIN p.options \cap {"org"} = {}
           /\ p.kind \in {"infisical", "vault", "openbao"} =>
                Map(p.options) /\ DOMAIN p.options \cap {"tls"} = {}
<1>1. ASSUME p.kind = "kdbx"
      PROVE  Map(p.options) /\ DOMAIN p.options \cap {"prefix"} = {}
  <2>1. p = KdbxConfig(url)
    BY <1>1, OpenedByKind
  <2>2. \E x, y : p = Opened("kdbx", x, y, [n \in DOMAIN Given(url, {"keyfile"})
                                     |-> Rebased(Given(url, {"keyfile"})[n], Base)])
    BY <2>1, Zenon DEF KdbxConfig
  <2>3. p.options = [n \in DOMAIN Given(url, {"keyfile"})
                        |-> Rebased(Given(url, {"keyfile"})[n], Base)]
    BY <2>2, OpeningKeeps
  <2>4. DOMAIN Given(url, {"keyfile"}) \subseteq {"keyfile"}
    BY GivenIsAMap
  <2>. QED BY <2>3, <2>4 DEF Map
<1>2. ASSUME p.kind = "awsps"
      PROVE  Map(p.options) /\ DOMAIN p.options \cap {"template"} = {}
  <2>1. p = AwspsConfig(url)
    BY <1>2, OpenedByKind
  <2>. DEFINE prefix == [prefix |-> Trim(QueryValue(url, "prefix"))]
              given == Given(url, {"kms_key_id", "tier"})
  <2>2. \E x, y : p = Opened("awsps", x, y, With(prefix, given))
    BY <2>1, Zenon DEF AwspsConfig
  <2>3. DOMAIN prefix = {"prefix"} /\ DOMAIN given \subseteq {"kms_key_id", "tier"}
    BY GivenIsAMap
  <2>. HIDE DEF prefix, given
  <2>4. p.options = With(prefix, given)
    BY <2>2, OpeningKeeps
  <2>5. Map(p.options) /\ DOMAIN p.options = DOMAIN prefix \cup DOMAIN given
    BY <2>4, WithIsAMap
  <2>. QED BY <2>3, <2>5
<1>3. ASSUME p.kind = "bw"
      PROVE  Map(p.options) /\ DOMAIN p.options \cap {"org"} = {}
  <2>1. p = BwConfig(url)
    BY <1>3, OpenedByKind
  <2>2. \E x : p = Opened("bw", x, None, Given(url, {"folder", "type", "field", "server"}))
    BY <2>1, Zenon DEF BwConfig
  <2>3. p.options = Given(url, {"folder", "type", "field", "server"})
    BY <2>2, OpeningKeeps
  <2>4. DOMAIN Given(url, {"folder", "type", "field", "server"})
          \subseteq {"folder", "type", "field", "server"}
    BY GivenIsAMap
  <2>5. Map(p.options)
    BY <2>3, GivenIsAMap
  <2>. QED BY <2>3, <2>4, <2>5
<1>4. ASSUME p.kind = "infisical"
      PROVE  Map(p.options) /\ DOMAIN p.options \cap {"tls"} = {}
  <2>1. p = InfisicalConfig(url)
    BY <1>4, OpenedByKind
  <2>. DEFINE folder == TrimRight(QueryValue(url, "path"))
              path == [path |-> IF QueryValue(url, "path") = None THEN <<"/", "secretspec">>
                                ELSE IF folder # None /\ Head(folder) = "/" THEN folder
                                ELSE <<"/">> \o folder]
              given == Given(url, {"env"})
  <2>2. \E x : p = Opened("infisical", x, None, With(path, given))
    BY <2>1, Zenon DEF InfisicalConfig
  <2>3. DOMAIN path = {"path"} /\ DOMAIN given \subseteq {"env"}
    BY GivenIsAMap
  <2>. HIDE DEF path, given
  <2>4. p.options = With(path, given)
    BY <2>2, OpeningKeeps
  <2>5. Map(p.options) /\ DOMAIN p.options = DOMAIN path \cup DOMAIN given
    BY <2>4, WithIsAMap
  <2>. QED BY <2>3, <2>5
<1>5. ASSUME p.kind \in {"vault", "openbao"}
      PROVE  Map(p.options) /\ DOMAIN p.options \cap {"tls"} = {}
  <2>1. p = KvConfig(url, p.kind)
    BY <1>5, OpenedByKind
  <2>. DEFINE auth == OrElse(QueryValue(url, "auth"), <<"token">>)
              v1 == QueryValue(url, "kv") \in {<<"1">>, <<"v1">>}
              mount == Trim(QueryValue(url, "auth_mount"))
              role == OrElse(QueryValue(url, "role"), PreferredEnv(RoleEnvs(p.kind)))
              audience == IF "audience" \in DOMAIN url.query THEN url.query["audience"]
                          ELSE PreferredEnv(AudienceEnvs(p.kind))
              first == [auth |-> auth, kv |-> IF v1 THEN <<"1">> ELSE <<"2">>]
              kept == Given(url, IF mount = auth THEN {} ELSE {"auth_mount"})
              jwt == IF auth = <<"jwt">> THEN [role |-> role, audience |-> audience]
                     ELSE Nothing
  <2>2. \E x : p = Opened(p.kind, x, None, With(With(first, kept), jwt))
    BY <2>1, Zenon DEF KvConfig
  <2>3. DOMAIN kept \subseteq {"auth_mount"}
    <3>1. DOMAIN kept \subseteq IF mount = auth THEN {} ELSE {"auth_mount"}
      BY GivenIsAMap
    <3>. QED BY <3>1
  <2>4. DOMAIN jwt \subseteq {"role", "audience"} /\ DOMAIN first = {"auth", "kv"}
    BY DEF Nothing
  <2>. HIDE DEF kept, jwt, first
  <2>5. p.options = With(With(first, kept), jwt)
    BY <2>2, OpeningKeeps
  <2>6. DOMAIN p.options = (DOMAIN first \cup DOMAIN kept) \cup DOMAIN jwt
    <3>1. DOMAIN With(first, kept) = DOMAIN first \cup DOMAIN kept
      BY WithIsAMap
    <3>. DEFINE both == With(first, kept)
    <3>2. p.options = With(both, jwt) /\ DOMAIN both = DOMAIN first \cup DOMAIN kept
      BY <2>5, <3>1
    <3>. HIDE DEF both
    <3>3. DOMAIN With(both, jwt) = DOMAIN both \cup DOMAIN jwt
      BY WithIsAMap
    <3>. QED BY <3>2, <3>3
  <2>7. Map(p.options)
    BY <2>5, WithIsAMap
  <2>. QED BY <2>3, <2>4, <2>6, <2>7
<1>. QED BY <1>1, <1>2, <1>3, <1>4, <1>5

(* Where the containers of these kinds are, part by part. *)
LEMMA WhereaboutsKeep ==
    ASSUME NEW spec \in Specs, NEW p, p = FromSpec(spec), p # Rejected
    PROVE  /\ p.kind = "protonpass" =>
                /\ p.at \in Seq(Tokens) /\ ~Holds(p.at, "/") /\ p.layout \in Seq(Tokens)
           /\ p.kind \in {"awsps", "awssm"} =>
                /\ p.at = <<p.at[1], p.at[2]>>
                /\ p.at[2] = None => p.at[1] = None
           /\ p.kind = "infisical" =>
                /\ p.at = <<p.at[1], p.at[2], p.at[3]>>
                /\ p.at[1] \in {<<"http">>, <<"https">>}
                /\ p.at[2] \in Seq(Tokens) /\ ~Holds(p.at[2], "/")
                /\ p.at[3] \in Seq(Tokens)
           /\ p.kind \in {"vault", "openbao"} =>
                /\ p.at = <<p.at[1], p.at[2], p.at[3], p.at[4]>>
                /\ p.at[1] \in {<<"http">>, <<"https">>}
           /\ p.kind \in {"bw", "bws", "onepassword"} => p.at = <<p.at[1], p.at[2]>>
           /\ p.kind = "onepassword" =>
                (Option(p, "token") = None => p.options = Nothing)
<1>. DEFINE url == Url(spec.scheme, spec.text, spec.query)
<1>1. p = FromUrl(url)
  BY DEF FromSpec
<1>2. url # Rejected
  BY <1>1 DEF FromUrl
<1>3. url.host \in Seq(Tokens) /\ url.path \in Seq(Tokens) /\ ~Holds(url.host, "/")
  BY <1>2, UrlsAreTexts, TextsAreTokens
<1>4. url.host = None => url.user = None
  BY <1>2, NoHostNoUser
<1>. HIDE DEF url
<1>5. ASSUME p.kind = "protonpass"
      PROVE  p.at \in Seq(Tokens) /\ ~Holds(p.at, "/") /\ p.layout \in Seq(Tokens)
  <2>1. p = Opened("protonpass", url.host, TrimLeft(url.path), Nothing)
    BY <1>1, <1>5, OpenedByKind DEF ProtonpassConfig
  <2>2. p.at = url.host /\ p.layout = TrimLeft(url.path)
    BY <2>1, OpeningKeeps
  <2>. QED BY <1>3, <2>2, TrimsAreTokens
<1>6. ASSUME p.kind \in {"awsps", "awssm"}
      PROVE  p.at = <<p.at[1], p.at[2]>> /\ (p.at[2] = None => p.at[1] = None)
  <2>1. p.kind = "awsps" => p = AwspsConfig(url)
    BY <1>1, OpenedByKind
  <2>2. p.kind = "awssm" => p = AwssmConfig(url)
    BY <1>1, OpenedByKind
  <2>3. p = AwspsConfig(url) => \E y, z : p = Opened("awsps", <<url.user, url.host>>, y, z)
    BY Zenon DEF AwspsConfig, Account
  <2>4. p = AwssmConfig(url) => \E y, z : p = Opened("awssm", <<url.user, url.host>>, y, z)
    BY Zenon DEF AwssmConfig, Account
  <2>5. p.at = <<url.user, url.host>>
    BY <1>6, <2>1, <2>2, <2>3, <2>4, OpeningKeeps
  <2>. QED BY <1>4, <2>5
<1>7. ASSUME p.kind = "infisical"
      PROVE  /\ p.at = <<p.at[1], p.at[2], p.at[3]>>
             /\ p.at[1] \in {<<"http">>, <<"https">>}
             /\ p.at[2] \in Seq(Tokens) /\ ~Holds(p.at[2], "/")
             /\ p.at[3] \in Seq(Tokens)
  <2>. DEFINE project == Trim(url.path)
              tls == IF "tls" \in DOMAIN url.query THEN url.query["tls"] ELSE <<"true">>
              plain == tls \in {<<"false">>, <<"0">>}
              scheme == IF plain THEN <<"http">> ELSE <<"https">>
              domain == OrElse(Variable("INFISICAL_DOMAIN"), Variable("INFISICAL_API_URL"))
              host == OrElse(url.host, OrElse(domain, <<"app.infisical.com">>))
  <2>1. p = InfisicalConfig(url)
    BY <1>1, <1>7, OpenedByKind
  <2>2. ~Holds(host, "/") /\ \E z : p = Opened("infisical", <<scheme, host, project>>, None, z)
    BY <2>1, Zenon DEF InfisicalConfig
  <2>3. p.at = <<scheme, host, project>>
    BY <2>2, OpeningKeeps
  <2>4. project \in Seq(Tokens)
    BY <1>3, TrimsAreTokens
  <2>5. \A name : Variable(name) \in Seq(Tokens)
    <3>1. \A name \in DOMAIN Env : Env[name] \in Seq(Tokens)
      BY AddressingAssumption, TextsAreTokens
    <3>. QED BY <3>1 DEF Variable, None
  <2>6. <<"app.infisical.com">> \in Seq(Tokens)
    <3>1. "app.infisical.com" \in Tokens
      BY DEF Tokens
    <3>. QED BY <3>1, SingletonsAreSequences
  <2>7. host \in Seq(Tokens)
    BY <1>3, <2>5, <2>6 DEF OrElse
  <2>8. scheme \in {<<"http">>, <<"https">>}
    OBVIOUS
  <2>. HIDE DEF project, scheme, host
  <2>. QED BY <2>2, <2>3, <2>4, <2>7, <2>8
<1>8. ASSUME p.kind \in {"vault", "openbao"}
      PROVE  /\ p.at = <<p.at[1], p.at[2], p.at[3], p.at[4]>>
             /\ p.at[1] \in {<<"http">>, <<"https">>}
  <2>1. p = KvConfig(url, p.kind)
    BY <1>1, <1>8, OpenedByKind
  <2>. DEFINE plain == QueryValue(url, "tls") \in {<<"false">>, <<"0">>}
              written == IF url.host # None
                         THEN <<IF plain THEN "http" ELSE "https">> \o url.host
                         ELSE PreferredEnv(AddressEnvs(p.kind))
              o == Head(written)
              x == OrElse(url.user, PreferredEnv(NamespaceEnvs(p.kind)))
              y == Tail(written)
              w == OrElse(Trim(url.path), <<"secret">>)
  <2>2. o \in {"http", "https"}
    <3>1. o \notin {"http", "https"} => KvConfig(url, p.kind) = Rejected
      BY Zenon DEF KvConfig
    <3>. HIDE DEF o
    <3>. QED BY <2>1, <3>1
  <2>3. \E z : p = Opened(p.kind, << <<o>>, x, y, w>>, None, z)
    BY <2>1, Zenon DEF KvConfig
  <2>. HIDE DEF o, x, y, w
  <2>4. p.at = << <<o>>, x, y, w>>
    BY <2>3, OpeningKeeps
  <2>5. <<o>> \in {<<"http">>, <<"https">>}
    BY <2>2
  <2>. QED BY <2>4, <2>5
<1>9. ASSUME p.kind \in {"bw", "bws", "onepassword"}
      PROVE  p.at = <<p.at[1], p.at[2]>>
  <2>1. /\ p.kind = "bw" => p = BwConfig(url)
        /\ p.kind = "bws" => p = BwsConfig(url)
        /\ p.kind = "onepassword" => p = OnepasswordConfig(url)
    BY <1>1, OpenedByKind
  <2>2. p = BwConfig(url) => \E u, v, y, z : p = Opened("bw", <<u, v>>, y, z)
    BY <1>1, Zenon DEF BwConfig
  <2>3. p = BwsConfig(url) => \E u, v, y, z : p = Opened("bws", <<u, v>>, y, z)
    BY <1>1, Zenon DEF BwsConfig
  <2>4. p = OnepasswordConfig(url) => \E u, v, y, z : p = Opened("onepassword", <<u, v>>, y, z)
    BY <1>1, Zenon DEF OnepasswordConfig
  <2>5. \E k, u, v, y, z : p = Opened(k, <<u, v>>, y, z)
    BY <1>9, <2>1, <2>2, <2>3, <2>4
  <2>6. PICK k, u, v, y, z : p = Opened(k, <<u, v>>, y, z)
    BY <2>5
  <2>7. p.at = <<u, v>>
    BY <2>6, OpeningKeeps
  <2>. QED BY <2>7
<1>10. ASSUME p.kind = "onepassword", Option(p, "token") = None
       PROVE  p.options = Nothing
  <2>1. p = OnepasswordConfig(url)
    BY <1>1, <1>10, OpenedByKind
  <2>2. PICK t, u, x : p = Opened("onepassword", x, None,
                                 IF t /\ u # None THEN [token |-> u] ELSE Nothing)
    BY <2>1, Zenon DEF OnepasswordConfig
  <2>3. p.options = IF t /\ u # None THEN [token |-> u] ELSE Nothing
    BY <2>2, OpeningKeeps
  <2>4. CASE t /\ u # None
    <3>1. p.options = [token |-> u]
      BY <2>3, <2>4
    <3>2. Option(p, "token") = u
      BY <3>1 DEF Option
    <3>. QED BY <1>10, <2>4, <3>2
  <2>. QED BY <2>3, <2>4
<1>. QED BY <1>5, <1>6, <1>7, <1>8, <1>9, <1>10

(* A path that names no secret, or a folder without placeholders and a     *)
(* layout that has its first one before any "/".                           *)
Pointed(at, layout) ==
    \/ /\ at \in Seq(Tokens) /\ layout = None
       /\ \A i \in 1..Len(at) : at[i] \notin Placeholders
    \/ /\ at \in Seq(Tokens) /\ layout \in Seq(Tokens) /\ layout # None
       /\ \A i \in 1..Len(at) : at[i] \notin Placeholders
       /\ \E f \in 1..Len(layout) :
              /\ layout[f] \in Placeholders
              /\ \A j \in 1..(f - 1) : layout[j] # "/"

\* The text both are printed as.
PointedText(at, layout) ==
    IF layout = None THEN at
    ELSE IF at = None THEN layout ELSE at \o <<"/">> \o layout

(* A folder, and the "/" after it, hold no placeholder. *)
LEMMA FolderBegins ==
    ASSUME NEW at \in Seq(Tokens), NEW layout \in Seq(Tokens), NEW t,
           t = at \o <<"/">> \o layout,
           \A i \in 1..Len(at) : at[i] \notin Placeholders
    PROVE  t[Len(at) + 1] = "/" /\ \A i \in 1..(Len(at) + 1) : t[i] \notin Placeholders
<1>1. "/" \in Tokens /\ "/" \notin Placeholders
  BY DEF Tokens, Placeholders
<1>2. t[Len(at) + 1] = "/" /\ \A i \in 1..Len(at) : t[i] = at[i]
  BY <1>1, JoinParts
<1>3. ASSUME NEW i \in 1..(Len(at) + 1) PROVE t[i] \notin Placeholders
  <2>1. i \in 1..Len(at) \/ i = Len(at) + 1
    OBVIOUS
  <2>. QED BY <1>1, <1>2, <2>1
<1>. QED BY <1>2, <1>3

(* Of a folder that is printed before it, nothing is taken for the layout.  *)
LEMMA FolderStands ==
    ASSUME NEW at \in Seq(Tokens), NEW layout \in Seq(Tokens), NEW t,
           t = at \o <<"/">> \o layout, NEW f \in 1..Len(layout),
           \A i \in 1..Len(at) : at[i] \notin Placeholders,
           layout[f] \in Placeholders, \A j \in 1..(f - 1) : layout[j] # "/"
    PROVE  /\ t[Len(at) + 1 + f] \in Placeholders /\ Len(at) + 1 + f \in 1..Len(t)
           /\ \A i \in (Len(at) + 2)..(Len(at) + f) : t[i] # "/"
<1>1. "/" \in Tokens
  BY DEF Tokens
<1>2. /\ Len(t) = Len(at) + 1 + Len(layout)
      /\ \A i \in 1..Len(layout) : t[Len(at) + 1 + i] = layout[i]
  BY <1>1, JoinParts
<1>3. t[Len(at) + 1 + f] \in Placeholders /\ Len(at) + 1 + f \in 1..Len(t)
  BY <1>2
<1>4. ASSUME NEW i \in (Len(at) + 2)..(Len(at) + f) PROVE t[i] # "/"
  <2>. DEFINE j == i - (Len(at) + 1)
  <2>1. j \in 1..(f - 1) /\ j \in 1..Len(layout) /\ i = Len(at) + 1 + j
    OBVIOUS
  <2>. HIDE DEF j
  <2>2. t[Len(at) + 1 + j] = layout[j] /\ layout[j] # "/"
    BY <1>2, <2>1
  <2>. QED BY <2>1, <2>2
<1>. QED BY <1>3, <1>4

(* One of two such texts does not end its folder before the other.         *)
LEMMA FoldersEndAlike ==
    ASSUME NEW at1 \in Seq(Tokens), NEW layout1 \in Seq(Tokens),
           NEW at2 \in Seq(Tokens), NEW layout2 \in Seq(Tokens),
           NEW t, t = at1 \o <<"/">> \o layout1, t = at2 \o <<"/">> \o layout2,
           NEW f \in 1..Len(layout1), NEW g \in 1..Len(layout2),
           \A i \in 1..Len(at1) : at1[i] \notin Placeholders,
           \A i \in 1..Len(at2) : at2[i] \notin Placeholders,
           layout1[f] \in Placeholders, \A j \in 1..(f - 1) : layout1[j] # "/",
           layout2[g] \in Placeholders, \A j \in 1..(g - 1) : layout2[j] # "/"
    PROVE  ~(Len(at1) < Len(at2))
<1>1. /\ t[Len(at1) + 1 + f] \in Placeholders
      /\ \A i \in (Len(at1) + 2)..(Len(at1) + f) : t[i] # "/"
  BY FolderStands
<1>2. /\ t[Len(at2) + 1] = "/"
      /\ \A i \in 1..(Len(at2) + 1) : t[i] \notin Placeholders
  BY FolderBegins
<1>. SUFFICES ASSUME Len(at1) < Len(at2) PROVE FALSE
  OBVIOUS
<1>3. Len(at1) \in Nat /\ Len(at2) \in Nat /\ f \in Nat
  OBVIOUS
<1>4. Len(at1) + 1 + f \notin 1..(Len(at2) + 1)
  BY <1>1, <1>2
<1>5. Len(at2) + 1 \in (Len(at1) + 2)..(Len(at1) + f)
  BY <1>3, <1>4
<1>. QED BY <1>1, <1>2, <1>5

(* What is printed as one text is one folder and one layout. *)
LEMMA PointedTells ==
    ASSUME NEW at1, NEW layout1, NEW at2, NEW layout2,
           Pointed(at1, layout1), Pointed(at2, layout2),
           PointedText(at1, layout1) = PointedText(at2, layout2)
    PROVE  at1 = at2 /\ layout1 = layout2
<1>1. ASSUME NEW a1, NEW l1, NEW a2, NEW l2, Pointed(a1, l1), Pointed(a2, l2),
             PointedText(a1, l1) = PointedText(a2, l2), l1 = None
      PROVE  l2 = None
  <2>. SUFFICES ASSUME l2 # None PROVE FALSE
    OBVIOUS
  <2>1. a1 \in Seq(Tokens) /\ \A i \in 1..Len(a1) : a1[i] \notin Placeholders
    BY <1>1 DEF Pointed
  <2>2. PointedText(a1, l1) = a1
    BY <1>1 DEF PointedText
  <2>3. /\ a2 \in Seq(Tokens) /\ l2 \in Seq(Tokens)
        /\ \A i \in 1..Len(a2) : a2[i] \notin Placeholders
    BY <1>1 DEF Pointed
  <2>4. PICK f \in 1..Len(l2) : l2[f] \in Placeholders /\ \A j \in 1..(f - 1) : l2[j] # "/"
    BY <1>1 DEF Pointed
  <2>5. CASE a2 = None
    <3>1. a1 = l2
      BY <1>1, <2>2, <2>5 DEF PointedText
    <3>. QED BY <2>1, <2>4, <3>1
  <2>6. CASE a2 # None
    <3>1. a1 = a2 \o <<"/">> \o l2
      BY <1>1, <2>2, <2>6 DEF PointedText
    <3>2. a1[Len(a2) + 1 + f] \in Placeholders /\ Len(a2) + 1 + f \in 1..Len(a1)
      BY <2>3, <2>4, <3>1, FolderStands
    <3>. QED BY <2>1, <3>2
  <2>. QED BY <2>5, <2>6
<1>2. ASSUME NEW a1, NEW l1, NEW a2, NEW l2, Pointed(a1, l1), Pointed(a2, l2),
             PointedText(a1, l1) = PointedText(a2, l2), l1 # None, l2 # None, a1 = None
      PROVE  a2 = None
  <2>. SUFFICES ASSUME a2 # None PROVE FALSE
    OBVIOUS
  <2>1. PICK f \in 1..Len(l1) : l1[f] \in Placeholders /\ \A j \in 1..(f - 1) : l1[j] # "/"
    BY <1>2 DEF Pointed
  <2>3. /\ a2 \in Seq(Tokens) /\ l2 \in Seq(Tokens) /\ l1 \in Seq(Tokens)
        /\ \A i \in 1..Len(a2) : a2[i] \notin Placeholders
    BY <1>2 DEF Pointed
  <2>4. l1 = a2 \o <<"/">> \o l2
    BY <1>2 DEF PointedText
  <2>5. l1[Len(a2) + 1] = "/" /\ \A i \in 1..(Len(a2) + 1) : l1[i] \notin Placeholders
    BY <2>3, <2>4, FolderBegins
  <2>6. Len(a2) \in Nat /\ f \in Nat /\ f >= 1
    BY <2>3
  <2>7. f \notin 1..(Len(a2) + 1)
    BY <2>1, <2>5
  <2>8. Len(a2) + 1 \in 1..(f - 1)
    BY <2>6, <2>7
  <2>. QED BY <2>1, <2>5, <2>8
<1>3. CASE layout1 = None
  <2>1. layout2 = None
    BY <1>1, <1>3
  <2>. QED BY <1>3, <2>1 DEF PointedText
<1>4. CASE layout1 # None /\ at1 = None
  <2>1. layout2 # None
    BY <1>1, <1>4
  <2>2. at2 = None
    BY <1>2, <1>4, <2>1
  <2>. QED BY <1>4, <2>1, <2>2 DEF PointedText
<1>5. CASE layout1 # None /\ at1 # None
  <2>1. layout2 # None
    BY <1>1, <1>5
  <2>2. at2 # None
    BY <1>2, <1>5, <2>1
  <2>3. PICK t : t = at1 \o <<"/">> \o layout1
    OBVIOUS
  <2>4. t = at2 \o <<"/">> \o layout2
    BY <1>5, <2>1, <2>2, <2>3 DEF PointedText
  <2>5. /\ at1 \in Seq(Tokens) /\ layout1 \in Seq(Tokens)
        /\ \A i \in 1..Len(at1) : at1[i] \notin Placeholders
    BY <1>5 DEF Pointed
  <2>6. /\ at2 \in Seq(Tokens) /\ layout2 \in Seq(Tokens)
        /\ \A i \in 1..Len(at2) : at2[i] \notin Placeholders
    BY <2>1 DEF Pointed
  <2>7. PICK f \in 1..Len(layout1) :
            layout1[f] \in Placeholders /\ \A j \in 1..(f - 1) : layout1[j] # "/"
    BY <1>5 DEF Pointed
  <2>8. PICK g \in 1..Len(layout2) :
            layout2[g] \in Placeholders /\ \A j \in 1..(g - 1) : layout2[j] # "/"
    BY <2>1 DEF Pointed
  <2>9. ~(Len(at1) < Len(at2))
    BY <2>3, <2>4, <2>5, <2>6, <2>7, <2>8, FoldersEndAlike
  <2>10. ~(Len(at2) < Len(at1))
    BY <2>3, <2>4, <2>5, <2>6, <2>7, <2>8, FoldersEndAlike
  <2>11. Len(at1) = Len(at2)
    BY <2>5, <2>6, <2>9, <2>10
  <2>12. "/" \in Tokens
    BY DEF Tokens
  <2>13. /\ Len(t) = Len(at1) + 1 + Len(layout1)
         /\ \A i \in 1..Len(at1) : t[i] = at1[i]
         /\ \A i \in 1..Len(layout1) : t[Len(at1) + 1 + i] = layout1[i]
    BY <2>3, <2>5, <2>12, JoinParts
  <2>14. /\ Len(t) = Len(at2) + 1 + Len(layout2)
         /\ \A i \in 1..Len(at2) : t[i] = at2[i]
         /\ \A i \in 1..Len(layout2) : t[Len(at2) + 1 + i] = layout2[i]
    BY <2>4, <2>6, <2>12, JoinParts
  <2>15. \A i \in 1..Len(at1) : at1[i] = at2[i]
    BY <2>11, <2>13, <2>14
  <2>16. Len(layout1) = Len(layout2) /\ \A i \in 1..Len(layout1) : layout1[i] = layout2[i]
    <3>1. Len(at1) \in Nat /\ Len(layout1) \in Nat /\ Len(layout2) \in Nat
      BY <2>5, <2>6
    <3>2. Len(layout1) = Len(layout2)
      BY <2>11, <2>13, <2>14, <3>1
    <3>3. ASSUME NEW i \in 1..Len(layout1) PROVE layout1[i] = layout2[i]
      <4>1. i \in 1..Len(layout2)
        BY <3>2
      <4>2. t[Len(at1) + 1 + i] = layout1[i]
        BY <2>13
      <4>3. t[Len(at2) + 1 + i] = layout2[i]
        BY <2>14, <4>1
      <4>. QED BY <2>11, <4>2, <4>3
    <3>. QED BY <3>2, <3>3
  <2>17. at1 = at2
    BY <2>5, <2>6, <2>11, <2>15
  <2>18. layout1 = layout2
    BY <2>5, <2>6, <2>16
  <2>. QED BY <2>17, <2>18
<1>. QED BY <1>3, <1>4, <1>5

(* A SOPS file has a path, whatever its spec says. *)
LEMMA SopsPathIsAText ==
    ASSUME NEW url, url.host \in Seq(Tokens), url.path \in Seq(Tokens)
    PROVE  SopsRawPath(url) \in Seq(Tokens)
<1>. DEFINE host == IF url.host = <<"localhost">> THEN None ELSE url.host
<1>1. host \in Seq(Tokens)
  BY DEF None
<1>2. <<"secrets.enc", ".yaml">> \in Seq(Tokens)
  <2>1. "secrets.enc" \in Tokens /\ ".yaml" \in Tokens
    BY DEF Tokens
  <2>2. \A S, x, y : x \in S /\ y \in S => <<x, y>> \in Seq(S)
    OBVIOUS
  <2>. QED BY <2>1, <2>2
<1>3. host \o <<"/">> \o TrimLeft(url.path) \in Seq(Tokens)
  <2>1. "/" \in Tokens
    BY DEF Tokens
  <2>2. TrimLeft(url.path) \in Seq(Tokens)
    BY TrimsAreTokens
  <2>3. PICK t : t = host \o <<"/">> \o TrimLeft(url.path)
    OBVIOUS
  <2>. HIDE DEF host
  <2>4. t \in Seq(Tokens)
    BY <1>1, <2>1, <2>2, <2>3, JoinParts
  <2>. QED BY <2>3, <2>4
<1>4. SopsRawPath(url) = IF url.path \in {None, <<"/">>}
                         THEN OrElse(host, <<"secrets.enc", ".yaml">>)
                         ELSE IF host = None THEN url.path
                         ELSE host \o <<"/">> \o TrimLeft(url.path)
  BY DEF SopsRawPath
<1>. HIDE DEF host
<1>. QED BY <1>1, <1>2, <1>3, <1>4 DEF OrElse

(* The pattern of a path with placeholders is cut at the "/" before them.   *)
LEMMA PatternsArePointed ==
    ASSUME NEW raw \in Seq(Tokens), \E i \in DOMAIN raw : raw[i] \in Placeholders
    PROVE  /\ SopsPattern(raw)[2] # None
           /\ Pointed(SopsPattern(raw)[1], SopsPattern(raw)[2])
<1>. DEFINE set == {i \in 1..Len(raw) : raw[i] \in Placeholders}
            first == SelectInSeq(raw, LAMBDA t : t \in Placeholders)
            prefix == SubSeq(raw, 1, first - 1)
            slashes == {i \in 1..Len(prefix) : prefix[i] = "/"}
            slash == LastSlash(prefix)
<1>1. first \in 1..Len(raw) /\ raw[first] \in Placeholders
      /\ \A j \in 1..(first - 1) : raw[j] \notin Placeholders
  <2>1. set # {} /\ set \subseteq Nat
    OBVIOUS
  <2>2. first = Min(set)
    BY <2>1 DEF SelectInSeq
  <2>. HIDE DEF set
  <2>3. Min(set) \in set /\ \A m \in set : Min(set) <= m
    BY <2>1, LeastPosition
  <2>. HIDE DEF first
  <2>4. first \in 1..Len(raw) /\ raw[first] \in Placeholders
    BY <2>2, <2>3 DEF set
  <2>5. ASSUME NEW j \in 1..(first - 1) PROVE raw[j] \notin Placeholders
    <3>1. j \in 1..Len(raw) /\ ~(first <= j)
      BY <2>4
    <3>2. j \notin set
      BY <2>2, <2>3, <3>1
    <3>. QED BY <3>1, <3>2 DEF set
  <2>. QED BY <2>4, <2>5
<1>2. SopsPattern(raw) = IF Holds(prefix, "/")
                         THEN <<Folder(prefix), SubSeq(raw, LastSlash(prefix) + 1, Len(raw))>>
                         ELSE <<None, raw>>
  BY DEF SopsPattern
<1>. HIDE DEF first
<1>3. /\ prefix \in Seq(Tokens) /\ Len(prefix) = first - 1
      /\ \A i \in 1..(first - 1) : prefix[i] = raw[i]
  BY <1>1
<1>. HIDE DEF prefix
<1>4. CASE Holds(prefix, "/")
  <2>. DEFINE at == Folder(prefix)
              layout == SubSeq(raw, slash + 1, Len(raw))
  <2>0. SopsPattern(raw) = <<at, layout>>
    BY <1>2, <1>4, Zenon
  <2>1. slashes # {}
    BY <1>3, <1>4 DEF Holds
  <2>2. slash = Max(slashes)
    BY <2>1 DEF LastSlash, SelectLastInSeq
  <2>3. Max(slashes) \in slashes /\ \A m \in slashes : m <= Max(slashes)
    <3>1. Len(prefix) \in Nat /\ slashes \subseteq 1..Len(prefix)
      BY <1>3
    <3>. HIDE DEF slashes
    <3>. QED BY <2>1, <3>1, GreatestPosition
  <2>. HIDE DEF slash
  <2>4. slash \in 1..(first - 1) /\ prefix[slash] = "/"
    BY <1>3, <2>2, <2>3
  <2>5. \A i \in (slash + 1)..(first - 1) : prefix[i] # "/"
    <3>. SUFFICES ASSUME NEW i \in (slash + 1)..(first - 1), prefix[i] = "/" PROVE FALSE
      OBVIOUS
    <3>1. i \in slashes
      BY <1>1, <1>3, <2>4
    <3>. HIDE DEF slashes
    <3>. QED BY <1>1, <2>2, <2>3, <2>4, <3>1
  <2>6. at = SubSeq(prefix, 1, slash - 1)
    BY DEF Folder, slash
  <2>7. /\ at \in Seq(Tokens) /\ Len(at) = slash - 1
        /\ \A i \in 1..(slash - 1) : at[i] = prefix[i]
    <3>. HIDE DEF at
    <3>. QED BY <1>1, <1>3, <2>4, <2>6
  <2>8. \A i \in 1..Len(at) : at[i] \notin Placeholders
    <3>. HIDE DEF at
    <3>. QED BY <1>1, <1>3, <2>4, <2>7
  <2>9. /\ layout \in Seq(Tokens) /\ Len(layout) = Len(raw) - slash
        /\ \A i \in 1..Len(layout) : layout[i] = raw[slash + i]
    BY <1>1, <2>4
  <2>. HIDE DEF at, layout
  <2>. DEFINE f == first - slash
  <2>10. f \in 1..Len(layout) /\ slash + f = first /\ first \in Nat /\ slash \in Nat
    BY <1>1, <2>4, <2>9
  <2>. HIDE DEF f
  <2>11. layout[f] \in Placeholders
    BY <1>1, <2>9, <2>10
  <2>12. ASSUME NEW j \in 1..(f - 1) PROVE layout[j] # "/"
    <3>1. j \in 1..Len(layout) /\ slash + j \in (slash + 1)..(first - 1)
          /\ slash + j \in 1..(first - 1)
      BY <2>9, <2>10
    <3>2. layout[j] = raw[slash + j] /\ raw[slash + j] = prefix[slash + j]
      BY <1>3, <2>9, <3>1
    <3>. QED BY <2>5, <3>1, <3>2
  <2>13. layout # None
    BY <2>10 DEF None
  <2>14. Pointed(at, layout)
    BY <2>7, <2>8, <2>9, <2>10, <2>11, <2>12, <2>13 DEF Pointed
  <2>15. SopsPattern(raw)[1] = at /\ SopsPattern(raw)[2] = layout
    BY <2>0
  <2>. QED BY <2>13, <2>14, <2>15
<1>5. CASE ~Holds(prefix, "/")
  <2>1. SopsPattern(raw)[1] = None /\ SopsPattern(raw)[2] = raw
    BY <1>2, <1>5
  <2>2. \A j \in 1..(first - 1) : raw[j] # "/"
    BY <1>3, <1>5 DEF Holds
  <2>3. None \in Seq(Tokens) /\ Len(None) = 0 /\ raw # None
    BY <1>1 DEF None
  <2>4. Pointed(None, raw)
    BY <1>1, <2>2, <2>3 DEF Pointed
  <2>. QED BY <2>1, <2>3, <2>4
<1>. QED BY <1>4, <1>5

(* A SOPS provider has one file, or a pattern of files. *)
LEMMA SopsIsPointed ==
    ASSUME NEW spec \in Specs, NEW p, p = FromSpec(spec), p # Rejected, p.kind = "sops"
    PROVE  Pointed(p.at, p.layout)
<1>. DEFINE url == Url(spec.scheme, spec.text, spec.query)
<1>1. p = FromUrl(url)
  BY DEF FromSpec
<1>2. url # Rejected
  BY <1>1 DEF FromUrl
<1>3. url.host \in Seq(Tokens) /\ url.path \in Seq(Tokens)
  BY <1>2, UrlsAreTexts, TextsAreTokens
<1>. HIDE DEF url
<1>. DEFINE raw == SopsRawPath(url)
            templated == \E i \in DOMAIN raw : raw[i] \in Placeholders
<1>4. p = SopsConfig(url)
  BY <1>1, OpenedByKind
<1>5. \E z : p = Opened("sops", IF templated THEN SopsPattern(raw)[1] ELSE raw,
                        IF templated THEN SopsPattern(raw)[2] ELSE None, z)
  BY <1>4, Zenon DEF SopsConfig
<1>6. /\ p.at = IF templated THEN SopsPattern(raw)[1] ELSE raw
      /\ p.layout = IF templated THEN SopsPattern(raw)[2] ELSE None
  <2>. HIDE DEF raw, templated
  <2>. QED BY <1>5, OpeningKeeps
<1>7. raw \in Seq(Tokens)
  BY <1>3, SopsPathIsAText
<1>. HIDE DEF raw
<1>8. CASE templated
  BY <1>6, <1>7, <1>8, PatternsArePointed
<1>9. CASE ~templated
  BY <1>6, <1>7, <1>9 DEF Pointed
<1>. QED BY <1>8, <1>9

(* The two parts of a kind's URI. *)
LEMMA BodiesOfKinds ==
    ASSUME NEW p
    PROVE  /\ p.kind = "keyring" => UriBody(p) = KeyringUri(p)
           /\ p.kind = "pass" => UriBody(p) = PassUri(p)
           /\ p.kind = "gopass" => UriBody(p) = GopassUri(p)
           /\ p.kind = "protonpass" => UriBody(p) = ProtonpassUri(p)
           /\ p.kind = "dotenv" => UriBody(p) = DotenvUri(p)
           /\ p.kind = "age" => UriBody(p) = AgeUri(p)
           /\ p.kind = "kdbx" => UriBody(p) = KdbxUri(p)
           /\ p.kind = "sops" => UriBody(p) = SopsUri(p)
           /\ p.kind = "awsps" => UriBody(p) = AwspsUri(p)
           /\ p.kind = "awssm" => UriBody(p) = AwssmUri(p)
           /\ p.kind = "akv" => UriBody(p) = AkvUri(p)
           /\ p.kind = "gcsm" => UriBody(p) = GcsmUri(p)
           /\ p.kind = "scaleway" => UriBody(p) = ScalewayUri(p)
           /\ p.kind = "infisical" => UriBody(p) = InfisicalUri(p)
           /\ p.kind = "bw" => UriBody(p) = BwUri(p)
           /\ p.kind = "bws" => UriBody(p) = BwsUri(p)
           /\ p.kind = "onepassword" => UriBody(p) = OnepasswordUri(p)
           /\ p.kind = "keeper" => UriBody(p) = KeeperUri(p)
           /\ p.kind = "dashlane" => UriBody(p) = DashlaneUri(p)
           /\ p.kind \in {"vault", "openbao"} => UriBody(p) = KvUri(p)
BY DEF UriBody

(* Two providers of one URI are one kind, and the kind prints them alike.   *)
LEMMA OneUriOneKind ==
    ASSUME NEW p, NEW q, Uri(p) = Uri(q)
    PROVE  p.kind = q.kind /\ UriBody(p) = UriBody(q)
<1>1. <<p.kind, UriBody(p)>> = <<q.kind, UriBody(q)>>
  BY Zenon DEF Uri
<1>. QED BY <1>1

(***************************************************************************)
(* Two providers whose URIs read the same are the same, unless the URI is  *)
(* one of those that leave something out: of every kind, what a provider   *)
(* keeps of its spec can be read back from its URI.                        *)
(***************************************************************************)
LEMMA UrisAreFaithful ==
    ASSUME NEW spec1 \in Specs, NEW spec2 \in Specs, NEW p, NEW q,
           p = FromSpec(spec1), q = FromSpec(spec2), p # Rejected, q # Rejected,
           Uri(p) = Uri(q), ~Abridged(p)
    PROVE  p = q
<1>. DEFINE url1 == Url(spec1.scheme, spec1.text, spec1.query)
            url2 == Url(spec2.scheme, spec2.text, spec2.query)
<1>1. p = FromUrl(url1) /\ q = FromUrl(url2)
  BY DEF FromSpec
<1>. HIDE DEF url1, url2
<1>2. p.kind = q.kind /\ UriBody(p) = UriBody(q)
  BY OneUriOneKind
<1>3. p.kind \in Kinds /\ p.kind # "lastpass"
  BY <1>1, OpenedByKind DEF Abridged
<1>. SUFFICES /\ p.at = q.at \/ p.kind \in Placeless
              /\ p.layout = q.layout \/ p.kind \in Unlaid
              /\ p.options = q.options \/ p.kind \in Optionless
  BY <1>1, <1>2, <1>3, PartsTell
<1>4. CASE p.kind = "keyring"
  <2>1. KeyringUri(p) = KeyringUri(q)
    BY <1>2, <1>4, BodiesOfKinds
  <2>2. p.layout = q.layout
    BY <2>1 DEF KeyringUri
  <2>. QED BY <1>4, <2>2 DEF Placeless, Unlaid, Optionless
<1>5. CASE p.kind = "pass"
  <2>1. PassUri(p) = PassUri(q)
    BY <1>2, <1>5, BodiesOfKinds
  <2>2. p.at = q.at /\ p.layout = q.layout
    BY <2>1 DEF PassUri
  <2>. QED BY <1>5, <2>2 DEF Placeless, Unlaid, Optionless
<1>6. CASE p.kind = "gopass"
  <2>1. GopassUri(p) = GopassUri(q)
    BY <1>2, <1>6, BodiesOfKinds
  <2>2. p.layout = q.layout
    BY <2>1 DEF GopassUri
  <2>. QED BY <1>6, <2>2 DEF Placeless, Unlaid, Optionless
<1>7. CASE p.kind = "age"
  <2>1. AgeUri(p) = AgeUri(q)
    BY <1>2, <1>7, BodiesOfKinds
  <2>2. p.at = q.at /\ p.options = q.options
    BY <2>1 DEF AgeUri
  <2>. QED BY <1>7, <2>2 DEF Placeless, Unlaid, Optionless
<1>8. CASE p.kind = "akv"
  <2>1. AkvUri(p) = AkvUri(q)
    BY <1>2, <1>8, BodiesOfKinds
  <2>2. p.at = q.at /\ p.options = q.options
    BY <2>1 DEF AkvUri
  <2>. QED BY <1>8, <2>2 DEF Placeless, Unlaid, Optionless
<1>9. CASE p.kind = "gcsm"
  <2>1. GcsmUri(p) = GcsmUri(q)
    BY <1>2, <1>9, BodiesOfKinds
  <2>2. p.at = q.at
    BY <2>1 DEF GcsmUri
  <2>. QED BY <1>9, <2>2 DEF Placeless, Unlaid, Optionless
<1>10. CASE p.kind = "scaleway"
  <2>1. ScalewayUri(p) = ScalewayUri(q)
    BY <1>2, <1>10, BodiesOfKinds
  <2>2. p.at = q.at /\ p.options = q.options
    BY <2>1 DEF ScalewayUri
  <2>. QED BY <1>10, <2>2 DEF Placeless, Unlaid, Optionless
<1>11. CASE p.kind = "keeper"
  <2>1. KeeperUri(p) = KeeperUri(q)
    BY <1>2, <1>11, BodiesOfKinds
  <2>2. p.at = q.at /\ p.options = q.options
    BY <2>1 DEF KeeperUri
  <2>. QED BY <1>11, <2>2 DEF Placeless, Unlaid, Optionless
<1>12. CASE p.kind = "dashlane"
  <2>1. DashlaneUri(p) = DashlaneUri(q)
    BY <1>2, <1>12, BodiesOfKinds
  <2>2. p.at = q.at
    BY <2>1 DEF DashlaneUri
  <2>. QED BY <1>12, <2>2 DEF Placeless, Unlaid, Optionless
<1>13. CASE p.kind = "env"
  BY <1>13 DEF Placeless, Unlaid, Optionless
<1>14. CASE p.kind = "systemd-credential"
  BY <1>14 DEF Placeless, Unlaid, Optionless
<1>15. CASE p.kind = "dotenv"
  <2>1. DotenvUri(p) = DotenvUri(q)
    BY <1>2, <1>15, BodiesOfKinds
  <2>2. p.at # None /\ q.at # None
    BY <1>2, <1>15, DotenvHasAPath
  <2>3. p.at = q.at
    BY <2>1, <2>2 DEF DotenvUri
  <2>. QED BY <1>15, <2>3 DEF Placeless, Unlaid, Optionless
<1>16. CASE p.kind = "protonpass"
  <2>. DEFINE text(x) == IF x.layout = None THEN x.at ELSE x.at \o <<"/">> \o x.layout
  <2>1. ProtonpassUri(p) = ProtonpassUri(q)
    BY <1>2, <1>16, BodiesOfKinds
  <2>2. /\ p.at \in Seq(Tokens) /\ ~Holds(p.at, "/") /\ p.layout \in Seq(Tokens)
        /\ q.at \in Seq(Tokens) /\ ~Holds(q.at, "/") /\ q.layout \in Seq(Tokens)
    BY <1>2, <1>16, WhereaboutsKeep
  <2>3. p.at # None
    BY <1>16 DEF Abridged
  <2>4. "/" \in Tokens
    BY DEF Tokens
  <2>5. ASSUME NEW a \in Seq(Tokens), NEW l \in Seq(Tokens)
        PROVE  /\ a \o <<"/">> \o l # None
               /\ Holds(a \o <<"/">> \o l, "/")
    <3>1. PICK t : t = a \o <<"/">> \o l
      OBVIOUS
    <3>2. t \in Seq(Tokens) /\ Len(t) = Len(a) + 1 + Len(l) /\ t[Len(a) + 1] = "/"
      BY <2>4, <3>1, JoinParts
    <3>3. Len(a) + 1 \in 1..Len(t)
      BY <3>2
    <3>4. t # None /\ Holds(t, "/")
      BY <3>2, <3>3 DEF None, Holds
    <3>. QED BY <3>1, <3>4
  <2>6. text(p) # None
    BY <2>2, <2>3, <2>5
  <2>7. text(p) = IF q.at = None THEN None ELSE text(q)
    <3>1. ProtonpassUri(p)[1] = text(p)
      BY <2>3 DEF ProtonpassUri
    <3>2. ProtonpassUri(q)[1] = IF q.at = None THEN None ELSE text(q)
      BY DEF ProtonpassUri
    <3>. HIDE DEF text
    <3>. QED BY <2>1, <3>1, <3>2
  <2>8. q.at # None /\ text(p) = text(q)
    <3>. HIDE DEF text
    <3>. QED BY <2>6, <2>7
  <2>9. p.layout = None <=> q.layout = None
    BY <2>2, <2>5, <2>8
  <2>10. CASE p.layout = None
    BY <1>16, <2>8, <2>9, <2>10 DEF Placeless, Unlaid, Optionless
  <2>11. CASE p.layout # None
    <3>1. p.at \o <<"/">> \o p.layout = q.at \o <<"/">> \o q.layout
      BY <2>8, <2>9, <2>11
    <3>2. p.at = q.at /\ p.layout = q.layout
      BY <2>2, <2>4, <3>1, JoinTells
    <3>. QED BY <1>16, <3>2 DEF Placeless, Unlaid, Optionless
  <2>. QED BY <2>10, <2>11
<1>17. CASE p.kind = "kdbx"
  <2>1. KdbxUri(p) = KdbxUri(q)
    BY <1>2, <1>17, BodiesOfKinds
  <2>2. p.at = q.at /\ With(p.options, [prefix |-> p.layout]) = With(q.options, [prefix |-> q.layout])
    BY <2>1 DEF KdbxUri
  <2>3. /\ Map(p.options) /\ DOMAIN p.options \cap {"prefix"} = {}
        /\ Map(q.options) /\ DOMAIN q.options \cap {"prefix"} = {}
    BY <1>1, <1>2, <1>17, OptionsLeaveRoom
  <2>4. p.options = q.options /\ [prefix |-> p.layout] = [prefix |-> q.layout]
    <3>. DEFINE left == [prefix |-> p.layout]
                right == [prefix |-> q.layout]
    <3>1. Map(left) /\ Map(right) /\ DOMAIN left \subseteq {"prefix"} /\ DOMAIN right \subseteq {"prefix"}
      BY EntriesAreMaps
    <3>2. With(p.options, left) = With(q.options, right)
      BY <2>2
    <3>. HIDE DEF left, right
    <3>3. p.options = q.options /\ left = right
      BY <2>3, <3>1, <3>2, WithTells
    <3>. QED BY <3>3 DEF left, right
  <2>5. p.layout = q.layout
    BY <2>4
  <2>. QED BY <1>17, <2>2, <2>4, <2>5 DEF Placeless, Unlaid, Optionless
<1>18. CASE p.kind = "sops"
  <2>1. SopsUri(p) = SopsUri(q)
    BY <1>2, <1>18, BodiesOfKinds
  <2>2. Pointed(p.at, p.layout) /\ Pointed(q.at, q.layout)
    BY <1>2, <1>18, SopsIsPointed
  <2>3. /\ SopsUri(p) = <<PointedText(p.at, p.layout), p.options>>
        /\ SopsUri(q) = <<PointedText(q.at, q.layout), q.options>>
    BY Zenon DEF SopsUri, PointedText
  <2>4. PointedText(p.at, p.layout) = PointedText(q.at, q.layout) /\ p.options = q.options
    <3>1. <<PointedText(p.at, p.layout), p.options>> = <<PointedText(q.at, q.layout), q.options>>
      BY <2>1, <2>3, Zenon
    <3>. QED BY <3>1
  <2>5. p.at = q.at /\ p.layout = q.layout
    BY <2>2, <2>4, PointedTells
  <2>. QED BY <1>18, <2>4, <2>5 DEF Placeless, Unlaid, Optionless
<1>19. CASE p.kind = "awsps"
  <2>1. AwspsUri(p) = AwspsUri(q)
    BY <1>2, <1>19, BodiesOfKinds
  <2>2. /\ (IF p.at[2] = None THEN None ELSE Authority(p.at[1], p.at[2]))
            = (IF q.at[2] = None THEN None ELSE Authority(q.at[1], q.at[2]))
        /\ With([template |-> p.layout], p.options) = With([template |-> q.layout], q.options)
    BY <2>1 DEF AwspsUri
  <2>3. /\ p.at = <<p.at[1], p.at[2]>> /\ (p.at[2] = None => p.at[1] = None)
        /\ q.at = <<q.at[1], q.at[2]>> /\ (q.at[2] = None => q.at[1] = None)
    BY <1>2, <1>19, WhereaboutsKeep
  <2>4. p.at = q.at
    <3>1. \A x, y : Authority(x, y) # None /\ Authority(x, y)[1] = x /\ Authority(x, y)[2] = y
      BY DEF Authority, None
    <3>2. p.at[1] = q.at[1] /\ p.at[2] = q.at[2]
      BY <2>2, <2>3, <3>1
    <3>. QED BY <2>3, <3>2
  <2>5. /\ Map(p.options) /\ DOMAIN p.options \cap {"template"} = {}
        /\ Map(q.options) /\ DOMAIN q.options \cap {"template"} = {}
    BY <1>1, <1>2, <1>19, OptionsLeaveRoom
  <2>6. p.options = q.options /\ [template |-> p.layout] = [template |-> q.layout]
    <3>. DEFINE left == [template |-> p.layout]
                right == [template |-> q.layout]
    <3>1. /\ Map(left) /\ Map(right)
          /\ DOMAIN left \subseteq {"template"} /\ DOMAIN right \subseteq {"template"}
      BY EntriesAreMaps
    <3>2. With(left, p.options) = With(right, q.options)
      BY <2>2
    <3>. HIDE DEF left, right
    <3>3. p.options = q.options /\ left = right
      BY <2>5, <3>1, <3>2, WithTells
    <3>. QED BY <3>3 DEF left, right
  <2>7. p.layout = q.layout
    BY <2>6
  <2>. QED BY <1>19, <2>4, <2>6, <2>7 DEF Placeless, Unlaid, Optionless
<1>20. CASE p.kind = "awssm"
  <2>1. AwssmUri(p) = AwssmUri(q)
    BY <1>2, <1>20, BodiesOfKinds
  <2>2. /\ (IF p.at[2] = None THEN None ELSE Authority(p.at[1], p.at[2]))
            = (IF q.at[2] = None THEN None ELSE Authority(q.at[1], q.at[2]))
        /\ p.options = q.options
    BY <2>1 DEF AwssmUri
  <2>3. /\ p.at = <<p.at[1], p.at[2]>> /\ (p.at[2] = None => p.at[1] = None)
        /\ q.at = <<q.at[1], q.at[2]>> /\ (q.at[2] = None => q.at[1] = None)
    BY <1>2, <1>20, WhereaboutsKeep
  <2>4. p.at = q.at
    <3>1. \A x, y : Authority(x, y) # None /\ Authority(x, y)[1] = x /\ Authority(x, y)[2] = y
      BY DEF Authority, None
    <3>2. p.at[1] = q.at[1] /\ p.at[2] = q.at[2]
      BY <2>2, <2>3, <3>1
    <3>. QED BY <2>3, <3>2
  <2>. QED BY <1>20, <2>2, <2>4 DEF Placeless, Unlaid, Optionless
<1>21. CASE p.kind = "infisical"
  <2>1. InfisicalUri(p) = InfisicalUri(q)
    BY <1>2, <1>21, BodiesOfKinds
  <2>2. /\ p.at[2] \o <<"/">> \o p.at[3] = q.at[2] \o <<"/">> \o q.at[3]
        /\ With(p.options, IF p.at[1] = <<"http">> THEN [tls |-> <<"false">>] ELSE Nothing)
             = With(q.options, IF q.at[1] = <<"http">> THEN [tls |-> <<"false">>] ELSE Nothing)
    BY <2>1 DEF InfisicalUri
  <2>3. /\ p.at = <<p.at[1], p.at[2], p.at[3]>> /\ p.at[1] \in {<<"http">>, <<"https">>}
        /\ q.at = <<q.at[1], q.at[2], q.at[3]>> /\ q.at[1] \in {<<"http">>, <<"https">>}
        /\ p.at[2] \in Seq(Tokens) /\ ~Holds(p.at[2], "/") /\ p.at[3] \in Seq(Tokens)
        /\ q.at[2] \in Seq(Tokens) /\ ~Holds(q.at[2], "/") /\ q.at[3] \in Seq(Tokens)
    BY <1>2, <1>21, WhereaboutsKeep
  <2>4. /\ Map(p.options) /\ DOMAIN p.options \cap {"tls"} = {}
        /\ Map(q.options) /\ DOMAIN q.options \cap {"tls"} = {}
    BY <1>1, <1>2, <1>21, OptionsLeaveRoom
  <2>5. p.options = q.options /\ p.at[1] = q.at[1]
    <3>. DEFINE tls(x) == IF x.at[1] = <<"http">> THEN [tls |-> <<"false">>] ELSE Nothing
                left == tls(p)
                right == tls(q)
    <3>1. \A x : Map(tls(x)) /\ DOMAIN tls(x) \subseteq {"tls"}
      BY EntriesAreMaps
    <3>2. With(p.options, left) = With(q.options, right)
      BY <2>2
    <3>3. Map(left) /\ Map(right) /\ DOMAIN left \subseteq {"tls"} /\ DOMAIN right \subseteq {"tls"}
      BY <3>1
    <3>. HIDE DEF left, right
    <3>4. p.options = q.options /\ left = right
      BY <2>4, <3>2, <3>3, WithTells
    <3>5. [tls |-> <<"false">>] # Nothing
      <4>1. "tls" \in DOMAIN [tls |-> <<"false">>] /\ "tls" \notin DOMAIN Nothing
        BY DEF Nothing
      <4>. QED BY <4>1
    <3>6. p.at[1] = <<"http">> <=> q.at[1] = <<"http">>
      BY <3>4, <3>5 DEF left, right
    <3>. QED BY <2>3, <3>4, <3>6
  <2>6. p.at[2] = q.at[2] /\ p.at[3] = q.at[3]
    <3>1. "/" \in Tokens
      BY DEF Tokens
    <3>. DEFINE host1 == p.at[2]
                host2 == q.at[2]
                project1 == p.at[3]
                project2 == q.at[3]
    <3>2. /\ host1 \in Seq(Tokens) /\ ~Holds(host1, "/") /\ project1 \in Seq(Tokens)
          /\ host2 \in Seq(Tokens) /\ ~Holds(host2, "/") /\ project2 \in Seq(Tokens)
      BY <2>3
    <3>3. host1 \o <<"/">> \o project1 = host2 \o <<"/">> \o project2
      BY <2>2
    <3>. HIDE DEF host1, host2, project1, project2
    <3>4. host1 = host2 /\ project1 = project2
      BY <3>1, <3>2, <3>3, JoinTells
    <3>. QED BY <3>4 DEF host1, host2, project1, project2
  <2>7. p.at = q.at
    BY <2>3, <2>5, <2>6
  <2>. QED BY <1>21, <2>5, <2>7 DEF Placeless, Unlaid, Optionless
<1>22. CASE p.kind = "bw"
  <2>1. BwUri(p) = BwUri(q)
    BY <1>2, <1>22, BodiesOfKinds
  <2>2. p.at = <<p.at[1], p.at[2]>> /\ q.at = <<q.at[1], q.at[2]>>
    BY <1>2, <1>22, WhereaboutsKeep
  <2>3. /\ Map(p.options) /\ DOMAIN p.options \cap {"org"} = {}
        /\ Map(q.options) /\ DOMAIN q.options \cap {"org"} = {}
    BY <1>1, <1>2, <1>22, OptionsLeaveRoom
  <2>4. \A x, y : Authority(x, y) # None /\ Authority(x, y)[1] = x /\ Authority(x, y)[2] = y
    BY DEF Authority, None
  <2>5. /\ p.at[2] # None => BwUri(p) = <<Authority(p.at[1], p.at[2]), p.options>>
        /\ q.at[2] # None => BwUri(q) = <<Authority(q.at[1], q.at[2]), q.options>>
        /\ p.at[2] = None => BwUri(p) = <<None, With(p.options, [org |-> p.at[1]])>>
        /\ q.at[2] = None => BwUri(q) = <<None, With(q.options, [org |-> q.at[1]])>>
    BY Zenon DEF BwUri
  <2>6. p.at[2] = None <=> q.at[2] = None
    <3>1. p.at[2] # None => BwUri(p)[1] # None
      BY <2>4, <2>5
    <3>2. q.at[2] # None => BwUri(q)[1] # None
      BY <2>4, <2>5
    <3>3. p.at[2] = None => BwUri(p)[1] = None
      BY <2>5
    <3>4. q.at[2] = None => BwUri(q)[1] = None
      BY <2>5
    <3>. QED BY <2>1, <3>1, <3>2, <3>3, <3>4
  <2>7. CASE p.at[2] # None
    <3>1. Authority(p.at[1], p.at[2]) = Authority(q.at[1], q.at[2]) /\ p.options = q.options
      BY <2>1, <2>5, <2>6, <2>7
    <3>2. p.at = q.at
      <4>1. p.at[1] = q.at[1] /\ p.at[2] = q.at[2]
        BY <2>4, <3>1
      <4>. QED BY <2>2, <4>1
    <3>. QED BY <1>22, <3>1, <3>2 DEF Placeless, Unlaid, Optionless
  <2>8. CASE p.at[2] = None
    <3>. DEFINE left == [org |-> p.at[1]]
                right == [org |-> q.at[1]]
    <3>1. With(p.options, left) = With(q.options, right)
      BY <2>1, <2>5, <2>6, <2>8
    <3>2. Map(left) /\ Map(right) /\ DOMAIN left \subseteq {"org"} /\ DOMAIN right \subseteq {"org"}
      BY EntriesAreMaps
    <3>. HIDE DEF left, right
    <3>3. p.options = q.options /\ left = right
      BY <2>3, <3>1, <3>2, WithTells
    <3>4. p.at[1] = q.at[1]
      BY <3>3 DEF left, right
    <3>5. p.at = q.at
      BY <2>2, <2>6, <2>8, <3>4
    <3>. QED BY <1>22, <3>3, <3>5 DEF Placeless, Unlaid, Optionless
  <2>. QED BY <2>7, <2>8
<1>23. CASE p.kind = "bws"
  <2>1. BwsUri(p) = BwsUri(q)
    BY <1>2, <1>23, BodiesOfKinds
  <2>2. p.at = <<p.at[1], p.at[2]>> /\ q.at = <<q.at[1], q.at[2]>>
    BY <1>2, <1>23, WhereaboutsKeep
  <2>3. p.at = q.at
    BY <2>1, <2>2 DEF BwsUri, Authority
  <2>. QED BY <1>23, <2>3 DEF Placeless, Unlaid, Optionless
<1>24. CASE p.kind = "onepassword"
  <2>1. OnepasswordUri(p) = OnepasswordUri(q)
    BY <1>2, <1>24, BodiesOfKinds
  <2>2. Option(p, "token") = None
    BY <1>24 DEF Abridged
  <2>3. Option(q, "token") = None
    <3>. SUFFICES ASSUME Option(q, "token") # None PROVE FALSE
      OBVIOUS
    <3>1. OnepasswordUri(p)[2] = Nothing
      BY <2>2 DEF OnepasswordUri
    <3>2. OnepasswordUri(q)[2] = [scheme |-> <<"onepassword+token">>]
      BY DEF OnepasswordUri
    <3>3. "scheme" \in DOMAIN OnepasswordUri(q)[2] /\ "scheme" \notin DOMAIN OnepasswordUri(p)[2]
      BY <3>1, <3>2 DEF Nothing
    <3>. QED BY <2>1, <3>3
  <2>4. /\ p.at = <<p.at[1], p.at[2]>> /\ p.options = Nothing
        /\ q.at = <<q.at[1], q.at[2]>> /\ q.options = Nothing
    BY <1>2, <1>24, <2>2, <2>3, WhereaboutsKeep
  <2>5. \A x, y : Authority(x, y) # None /\ Authority(x, y)[1] = x /\ Authority(x, y)[2] = y
    BY DEF Authority, None
  <2>6. (IF p.at = <<None, None>> THEN None ELSE Authority(p.at[1], p.at[2]))
          = (IF q.at = <<None, None>> THEN None ELSE Authority(q.at[1], q.at[2]))
    BY <2>1, <2>2, <2>3 DEF OnepasswordUri
  <2>7. p.at = q.at
    <3>1. CASE p.at = <<None, None>>
      BY <2>5, <2>6, <3>1
    <3>2. CASE p.at # <<None, None>>
      <4>1. q.at # <<None, None>>
        BY <2>5, <2>6, <3>2
      <4>2. p.at[1] = q.at[1] /\ p.at[2] = q.at[2]
        BY <2>5, <2>6, <3>2, <4>1
      <4>. QED BY <2>4, <4>2
    <3>. QED BY <3>1, <3>2
  <2>. QED BY <1>24, <2>4, <2>7 DEF Placeless, Unlaid, Optionless
<1>25. CASE p.kind \in {"vault", "openbao"}
  <2>1. KvUri(p) = KvUri(q)
    BY <1>2, <1>25, BodiesOfKinds
  <2>2. /\ BaseUri(p) = BaseUri(q)
        /\ With(p.options, IF p.at[1] = <<"http">> THEN [tls |-> <<"false">>] ELSE Nothing)
             = With(q.options, IF q.at[1] = <<"http">> THEN [tls |-> <<"false">>] ELSE Nothing)
    BY <2>1 DEF KvUri
  <2>3. /\ p.at = <<p.at[1], p.at[2], p.at[3], p.at[4]>> /\ p.at[1] \in {<<"http">>, <<"https">>}
        /\ q.at = <<q.at[1], q.at[2], q.at[3], q.at[4]>> /\ q.at[1] \in {<<"http">>, <<"https">>}
    BY <1>2, <1>25, WhereaboutsKeep
  <2>4. /\ Map(p.options) /\ DOMAIN p.options \cap {"tls"} = {}
        /\ Map(q.options) /\ DOMAIN q.options \cap {"tls"} = {}
    BY <1>1, <1>2, <1>25, OptionsLeaveRoom
  <2>5. p.options = q.options /\ p.at[1] = q.at[1]
    <3>. DEFINE tls(x) == IF x.at[1] = <<"http">> THEN [tls |-> <<"false">>] ELSE Nothing
                left == tls(p)
                right == tls(q)
    <3>1. \A x : Map(tls(x)) /\ DOMAIN tls(x) \subseteq {"tls"}
      BY EntriesAreMaps
    <3>2. With(p.options, left) = With(q.options, right)
      BY <2>2
    <3>3. Map(left) /\ Map(right) /\ DOMAIN left \subseteq {"tls"} /\ DOMAIN right \subseteq {"tls"}
      BY <3>1
    <3>. HIDE DEF left, right
    <3>4. p.options = q.options /\ left = right
      BY <2>4, <3>2, <3>3, WithTells
    <3>5. [tls |-> <<"false">>] # Nothing
      <4>1. "tls" \in DOMAIN [tls |-> <<"false">>] /\ "tls" \notin DOMAIN Nothing
        BY DEF Nothing
      <4>. QED BY <4>1
    <3>6. p.at[1] = <<"http">> <=> q.at[1] = <<"http">>
      BY <3>4, <3>5 DEF left, right
    <3>. QED BY <2>3, <3>4, <3>6
  <2>6. p.at[2] = q.at[2] /\ p.at[3] = q.at[3] /\ p.at[4] = q.at[4]
    BY <2>2 DEF BaseUri, Authority
  <2>7. p.at = q.at
    BY <2>3, <2>5, <2>6
  <2>. QED BY <1>25, <2>5, <2>7 DEF Placeless, Unlaid, Optionless
<1>. QED BY <1>3, <1>4, <1>5, <1>6, <1>7, <1>8, <1>9, <1>10, <1>11, <1>12, <1>13, <1>14,
          <1>15, <1>16, <1>17, <1>18, <1>19, <1>20, <1>21, <1>22, <1>23, <1>24, <1>25 DEF Kinds

(***************************************************************************)
(* Whatever the specs, two providers whose URIs read the same look in the  *)
(* same places for every secret, unless the URI is one that leaves         *)
(* something out.                                                          *)
(***************************************************************************)
THEOREM UrisAreFingerprints == AddressingSpec => []FingerprintsTell
<1>1. AddressingInv => FingerprintsTell
  <2>. SUFFICES ASSUME AddressingInv, Both, ~Abridged(source), Uri(source) = Uri(other)
                PROVE  \A a \in Addresses : Places(source, a) = Places(other, a)
    BY DEF FingerprintsTell, UrisTell
  <2>1. PICK spec1 \in Specs : source = FromSpec(spec1)
    BY DEF AddressingInv, Both
  <2>2. PICK spec2 \in Specs : other = FromSpec(spec2)
    BY DEF AddressingInv, Both
  <2>3. source = other
    BY <2>1, <2>2, UrisAreFaithful DEF Both
  <2>. QED BY <2>3
<1>. QED BY <1>1, AddressingHolds, PTL
=============================================================================
