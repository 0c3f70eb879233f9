----------------------------- MODULE Files_proofs ---------------------------
(***************************************************************************)
(* Proofs about the files that the program reads and writes.  Of FileStore  *)
(* for any processes, threads, keys, values and kinds of store: the types   *)
(* with the discipline of the kdbx lock, that nothing is lost as long as    *)
(* nothing has spoiled the file, and that what a read returns the file held *)
(* all at once while it was read.  Of Manifest for any documents, profiles, *)
(* names and groups: that documents which extend one another merge as one   *)
(* manifest, that what validation accepts can be composed, and that what a  *)
(* program is given fits what the manifest promises.                        *)
(***************************************************************************)
EXTENDS FileStore, Manifest, FiniteSetTheorems, SequenceTheorems, WellFoundedInduction, TLAPS


Busy == {"write", "fill"}

(* Only kdbx locks, its threads hold the lock of their process while they   *)
(* read and write, and they never write in place.                           *)
LockKept ==
    /\ kind # "kdbx" => /\ \A p \in Procs : lock[p] = Free
                        /\ \A t \in Threads : call[t].pc \notin {"lock", "check"}
    /\ kind = "kdbx" => \A t \in Threads :
         /\ call[t].pc # "fill"
         /\ call[t].pc \in {"load", "write"} => lock[home[t]] = t

(* The file is what was stored unless a thread is filling it, and what a    *)
(* thread is about to write is that with its own key changed; a thread that *)
(* read while another was filling the file is the exception.                *)
Current(t) ==
    \/ call[t].buf = [acked EXCEPT ![call[t].key] = call[t].value]
    \/ \E u \in Threads \ {t} : call[u].pc = "fill"

Kept ==
    ~spoiled =>
        /\ (\A t \in Threads : call[t].pc # "fill") =>
              file.form \in {"absent", "whole"} /\ file.vars = acked
        /\ (\E t \in Threads : call[t].pc = "fill") => file.form = "empty"
        /\ \A t \in Threads : call[t].pc \in Busy => Current(t)

Inv == TypeOK /\ LockKept /\ Kept

FileType == [form : Form, kdbx3 : BOOLEAN, vars : Vars]

LEMMA Constants ==
    /\ NoVars \in Vars
    /\ Blank \in CallType
    /\ \A v \in Vars, f \in Form : File(f, v) \in FileType
<1>1. NoVars \in Vars BY DEF NoVars, Vars, Maybe
<1>2. (CHOOSE k \in Keys : TRUE) \in Keys BY FileStoreAssumption
<1>3. Blank \in CallType BY <1>1, <1>2 DEF Blank, CallType, Maybe
<1> QED BY <1>1, <1>3 DEF File, FileType, Form

LEMMA InitInv == Init => Inv
<1> SUFFICES ASSUME Init PROVE Inv OBVIOUS
<1>1. file \in FileType /\ file.form \in {"absent", "whole"}
  <2>1. CASE file = File("absent", NoVars) BY <2>1, Constants DEF File, Form
  <2>2. CASE \E v \in Vars, old \in BOOLEAN : file = [form |-> "whole", kdbx3 |-> old, vars |-> v]
    BY <2>2 DEF FileType, Form
  <2> QED BY <2>1, <2>2 DEF Init
<1>2. Blank \in CallType /\ Blank.pc = "idle" BY Constants DEF Blank
<1>3. TypeOK
  BY <1>1, <1>2 DEF Init, TypeOK, FileType
<1>4. LockKept BY <1>2 DEF Init, LockKept
<1>5. Kept BY <1>1, <1>2 DEF Init, Kept, Busy
<1> QED BY <1>3, <1>4, <1>5 DEF Inv

(* A thread moves within a call that does not fill the file: it takes the   *)
(* lock, keeps it or returns it, and what it is about to write is current.  *)
Holds(l, t, c) == c.pc \in {"load", "write"} => l[home[t]] = t

LEMMA MovesOn ==
    ASSUME Inv, NEW t \in Threads, NEW c \in CallType,
           call' = [call EXCEPT ![t] = c], call[t].pc # "fill", c.pc # "fill",
           UNCHANGED <<kind, home, file, acked, spoiled>>,
           lock' \in [Procs -> Threads \cup {Free}],
           \A p \in Procs : lock'[p] # lock[p] => p = home[t] /\ lock'[p] \in {Free, t}
                                                  /\ lock[p] \in {Free, t},
           \A p \in Procs : lock'[p] = t => p = home[t] /\ c.pc \in {"load", "write"},
           kind # "kdbx" => lock' = lock /\ c.pc \notin {"lock", "check"},
           kind = "kdbx" => Holds(lock', t, c),
           ~spoiled /\ c.pc = "write" =>
              \/ c.buf = [acked EXCEPT ![c.key] = c.value]
              \/ \E u \in Threads \ {t} : call[u].pc = "fill"
    PROVE  Inv'
<1>1. home \in [Threads -> Procs] BY FileStoreAssumption DEF Inv, TypeOK
<1>2. \A u \in Threads : call'[u] = IF u = t THEN c ELSE call[u]
  BY DEF Inv, TypeOK
<1>3. call' \in [Threads -> CallType]
  BY DEF Inv, TypeOK
<1>4. ASSUME NEW p \in Procs, lock'[p] # Free
      PROVE  home[lock'[p]] = p /\ call'[lock'[p]].pc \in {"load", "write"}
  <2>1. CASE lock'[p] = t BY <2>1, <1>2
  <2>2. CASE lock'[p] # t
    <3>1. lock'[p] = lock[p] BY <1>4, <2>2
    <3>2. lock[p] \in Threads BY <3>1, <1>4 DEF Inv, TypeOK
    <3> QED BY <3>1, <3>2, <1>2, <1>4, <2>2 DEF Inv, TypeOK
  <2> QED BY <2>1, <2>2
<1>5. TypeOK'
  BY <1>3, <1>4 DEF Inv, TypeOK
<1>6. LockKept'
  <2>1. CASE kind # "kdbx"
    BY <2>1, <1>2 DEF Inv, LockKept
  <2>2. CASE kind = "kdbx"
    <3>1. ASSUME NEW u \in Threads, u # t, call[u].pc \in {"load", "write"}
          PROVE  lock'[home[u]] = u
      <4>1. lock[home[u]] = u BY <2>2, <3>1 DEF Inv, LockKept
      <4>2. u # Free BY FileStoreAssumption
      <4> QED BY <4>1, <4>2, <3>1, <1>1
    <3> QED BY <2>2, <3>1, <1>2 DEF Inv, LockKept, Holds
  <2> QED BY <2>1, <2>2
<1>7. Kept'
  <2> SUFFICES ASSUME ~spoiled PROVE Kept' BY DEF Kept
  <2>1. \A u \in Threads : call'[u].pc = "fill" <=> call[u].pc = "fill" BY <1>2
  <2>2. ASSUME NEW u \in Threads, call'[u].pc \in Busy PROVE Current(u)'
    <3>1. CASE u = t
      <4>1. c.pc = "write" BY <3>1, <2>2, <1>2 DEF Busy
      <4> QED BY <4>1, <3>1, <1>2, <2>1 DEF Current
    <3>2. CASE u # t
      <4>1. Current(u) BY <3>2, <2>2, <1>2 DEF Inv, Kept
      <4> QED BY <4>1, <3>2, <1>2, <2>1 DEF Current
    <3> QED BY <3>1, <3>2
  <2> QED BY <2>1, <2>2 DEF Inv, Kept
<1> QED BY <1>5, <1>6, <1>7 DEF Inv

(* The same for a call that neither takes nor returns the lock. *)
LEMMA QuietlyOn ==
    ASSUME Inv, NEW t \in Threads, NEW c \in CallType, Quietly(t, c),
           call[t].pc # "fill", c.pc # "fill",
           lock[home[t]] = t => c.pc \in {"load", "write"},
           kind # "kdbx" => c.pc \notin {"lock", "check"},
           kind = "kdbx" => Holds(lock, t, c),
           ~spoiled /\ c.pc = "write" =>
              \/ c.buf = [acked EXCEPT ![c.key] = c.value]
              \/ \E u \in Threads \ {t} : call[u].pc = "fill"
    PROVE  Inv'
<1>1. lock' = lock /\ UNCHANGED <<kind, home, file, acked, spoiled>>
      /\ call' = [call EXCEPT ![t] = c]
  BY DEF Quietly, Moves
<1>2. lock \in [Procs -> Threads \cup {Free}] BY DEF Inv, TypeOK
<1>3. \A p \in Procs : lock[p] = t => p = home[t]
  BY FileStoreAssumption DEF Inv, TypeOK
<1> QED BY <1>1, <1>2, <1>3, MovesOn DEF Holds

(* A thread that is not reading or writing does not hold the lock. *)
LEMMA NotHolding ==
    ASSUME Inv, NEW t \in Threads, call[t].pc \notin {"load", "write"}
    PROVE  lock[home[t]] # t
<1>1. home[t] \in Procs BY FileStoreAssumption DEF Inv, TypeOK
<1> QED BY <1>1, FileStoreAssumption DEF Inv, TypeOK

(* A call that returns. *)
LEMMA ReturnsOn ==
    ASSUME Inv, NEW t \in Threads, NEW c \in CallType, Returns(t, c),
           call[t].pc # "fill", c.pc = "done"
    PROVE  Inv'
<1>1. lock' = Unlocked(t) /\ UNCHANGED <<kind, home, file, acked, spoiled>>
      /\ call' = [call EXCEPT ![t] = c]
  BY DEF Returns, Moves
<1>2. lock' \in [Procs -> Threads \cup {Free}]
  BY <1>1 DEF Inv, TypeOK, Unlocked
<1>3. \A p \in Procs : lock'[p] = IF p = home[t] /\ lock[p] = t THEN Free ELSE lock[p]
  BY <1>1 DEF Unlocked
<1>4. t # Free BY FileStoreAssumption
<1>5. \A p \in Procs : lock[p] = t => p = home[t]
  BY <1>4 DEF Inv, TypeOK
<1>6. kind # "kdbx" => lock' = lock
  BY <1>2, <1>3 DEF Inv, TypeOK, LockKept
<1>7. \A p \in Procs : lock'[p] # lock[p] => p = home[t] /\ lock'[p] \in {Free, t}
                                             /\ lock[p] \in {Free, t}
  BY <1>3
<1>8. \A p \in Procs : lock'[p] # t BY <1>3, <1>4, <1>5
<1>9. c.pc # "fill" /\ c.pc \notin {"lock", "check"} /\ Holds(lock', t, c) /\ c.pc # "write"
  BY DEF Holds
<1> QED BY <1>1, <1>2, <1>6, <1>7, <1>8, <1>9, MovesOn
-----------------------------------------------------------------------------
LEMMA GetInv == ASSUME Inv, NEW t \in Threads, NEW K \in SUBSET Keys, Get(t, K) PROVE Inv'
<1> DEFINE c == [Blank EXCEPT !.keys = K, !.seen = IF file.form \in {"absent", "whole"}
                                                   THEN {file.vars} ELSE {}]
<1> DEFINE d == IF \E k \in K : Refuses("get", k) THEN Done(c, "refused")
                ELSE [c EXCEPT !.pc = Started("get")]
<1>1. call[t].pc = "idle" /\ Quietly(t, d) BY DEF Get, At
<1>2. c \in CallType
  <2>1. file.vars \in Vars BY DEF Inv, TypeOK
  <2> QED BY <2>1, Constants DEF CallType
<1>3. d.pc \in {"done", Started("get")}
  BY <1>2 DEF CallType, Done, Started
<1>4. d \in CallType BY <1>2 DEF CallType, Done, Started
<1> HIDE DEF d
<1> QED BY <1>1, <1>3, <1>4, NotHolding, QuietlyOn DEF Started, Holds, Done

LEMMA SetInv ==
    ASSUME Inv, NEW t \in Threads, NEW k \in Keys, NEW v \in Values, Set(t, k, v) PROVE Inv'
<1> DEFINE c == [Blank EXCEPT !.op = "set", !.key = k, !.value = v]
<1> DEFINE d == IF Refuses("set", k) THEN Done(c, "refused") ELSE [c EXCEPT !.pc = Started("set")]
<1>1. call[t].pc = "idle" /\ Quietly(t, d) BY DEF Set, At
<1>2. c \in CallType BY Constants DEF CallType, Maybe
<1>3. d.pc \in {"done", Started("set")}
  BY <1>2 DEF CallType, Done, Started
<1>4. d \in CallType BY <1>2 DEF CallType, Done, Started
<1> HIDE DEF d
<1> QED BY <1>1, <1>3, <1>4, NotHolding, QuietlyOn DEF Started, Holds, Done

LEMMA DeleteInv == ASSUME Inv, NEW t \in Threads, NEW k \in Keys, Delete(t, k) PROVE Inv'
<1> DEFINE c == [Blank EXCEPT !.op = "delete", !.key = k]
<1> DEFINE d == IF Refuses("delete", k) THEN Done(c, "refused")
                ELSE [c EXCEPT !.pc = Started("delete")]
<1>1. call[t].pc = "idle" /\ kind = "dotenv" /\ Quietly(t, d) BY DEF Delete, At
<1>2. c \in CallType BY Constants DEF CallType
<1>3. d \in CallType /\ (d.pc = "done" \/ d.pc = "load")
  BY <1>1, <1>2 DEF CallType, Done, Started
<1> HIDE DEF d
<1> QED BY <1>1, <1>3, NotHolding, QuietlyOn DEF Holds

LEMMA CheckVersionInv == ASSUME Inv, NEW t \in Threads, CheckVersion(t) PROVE Inv'
<1> DEFINE d == IF file.kdbx3 THEN Done(call[t], "refused") ELSE [call[t] EXCEPT !.pc = "lock"]
<1>1. call[t].pc = "check" /\ Quietly(t, d) BY DEF CheckVersion, At
<1>2. call[t] \in CallType /\ kind = "kdbx" BY <1>1 DEF Inv, TypeOK, LockKept
<1>3. d \in CallType /\ (d.pc = "done" \/ d.pc = "lock")
  BY <1>2 DEF CallType, Done
<1> HIDE DEF d
<1> QED BY <1>1, <1>2, <1>3, NotHolding, QuietlyOn DEF Holds

LEMMA LockInv == ASSUME Inv, NEW t \in Threads, Lock(t) PROVE Inv'
<1> DEFINE d == [call[t] EXCEPT !.pc = "load"]
<1>1. /\ call[t].pc = "lock" /\ lock[home[t]] = Free
      /\ lock' = [lock EXCEPT ![home[t]] = t]
      /\ call' = [call EXCEPT ![t] = d]
      /\ UNCHANGED <<kind, home, file, acked, spoiled>>
  BY DEF Lock, At, Moves
<1>2. kind = "kdbx" /\ home[t] \in Procs
  BY <1>1, FileStoreAssumption DEF Inv, TypeOK, LockKept
<1>3. d \in CallType /\ d.pc = "load" BY DEF CallType, Inv, TypeOK
<1>4. lock' \in [Procs -> Threads \cup {Free}] BY <1>1 DEF Inv, TypeOK
<1>5. \A p \in Procs : lock'[p] = IF p = home[t] THEN t ELSE lock[p]
  BY <1>1, <1>2 DEF Inv, TypeOK
<1>6. \A p \in Procs : lock[p] # t
  BY <1>1, FileStoreAssumption DEF Inv, TypeOK
<1>7. \A p \in Procs : lock'[p] = t => p = home[t]
  BY <1>5, <1>6
<1>8. \A p \in Procs : lock'[p] # lock[p] => p = home[t] /\ lock'[p] \in {Free, t}
                                             /\ lock[p] \in {Free, t}
  BY <1>1, <1>5
<1>9. Holds(lock', t, d) BY <1>2, <1>5 DEF Holds
<1>10. d.pc # "fill" /\ call[t].pc # "fill" /\ d.pc # "write" /\ d.pc \in {"load", "write"}
  BY <1>1, <1>3
<1> HIDE DEF d
<1> QED BY <1>1, <1>2, <1>3, <1>4, <1>7, <1>8, <1>9, <1>10, MovesOn

(* A key is changed in what the file holds: that is current, or another     *)
(* thread is filling the file.                                              *)
LEMMA LoadInv == ASSUME Inv, NEW t \in Threads, Load(t) PROVE Inv'
<1> DEFINE d == IF ~Readable THEN Done(call[t], "failed")
                ELSE IF call[t].op = "get" THEN Answers(call[t]) ELSE Edits(call[t])
<1>1. call[t].pc = "load" /\ (IF d.pc = "done" THEN Returns(t, d) ELSE Quietly(t, d))
  BY DEF Load, At
<1>2. call[t] \in CallType /\ file.vars \in Vars BY DEF Inv, TypeOK
<1>3. d \in CallType /\ (d.pc = "done" \/ d.pc = "write")
  BY <1>2 DEF CallType, Done, Answers, Edits, Vars
<1>4. d.pc = "write" => d.buf = [file.vars EXCEPT ![d.key] = d.value]
  BY <1>2 DEF CallType, Done, Answers, Edits
<1>5. ~spoiled => file.vars = acked \/ \E u \in Threads \ {t} : call[u].pc = "fill"
  BY <1>1 DEF Inv, Kept
<1>6. kind = "kdbx" => Holds(lock, t, d)
  BY <1>1 DEF Inv, LockKept, Holds
<1> HIDE DEF d
<1>7. CASE d.pc = "done" BY <1>1, <1>3, <1>7, ReturnsOn
<1>8. CASE d.pc = "write" BY <1>1, <1>3, <1>4, <1>5, <1>6, <1>8, QuietlyOn
<1> QED BY <1>3, <1>7, <1>8

LEMMA FailsInv ==
    ASSUME Inv, NEW t \in Threads, LoadFails(t) \/ WriteFails(t) PROVE Inv'
<1>1. call[t].pc \in {"load", "write"} /\ Returns(t, Done(call[t], "failed"))
  BY DEF LoadFails, WriteFails, At
<1>2. call[t] \in CallType BY DEF Inv, TypeOK
<1>3. Done(call[t], "failed") \in CallType /\ Done(call[t], "failed").pc = "done"
  BY <1>2 DEF CallType, Done
<1> QED BY <1>1, <1>3, ReturnsOn

LEMMA ReturnInv == ASSUME Inv, NEW t \in Threads, Return(t) PROVE Inv'
<1>1. call[t].pc = "done" /\ Quietly(t, Blank) BY DEF Return, At
<1>2. Blank \in CallType /\ Blank.pc = "idle" BY Constants DEF Blank
<1> QED BY <1>1, <1>2, NotHolding, QuietlyOn DEF Holds
-----------------------------------------------------------------------------
(* What a file may come to hold is a file.                                  *)
LEMMA WrittenType ==
    ASSUME NEW v \in Vars
    PROVE  /\ Written(v) \in FileType
           /\ Written(v).form # "broken" => Written(v).form = "whole" /\ Written(v).vars = v
BY Constants DEF Written, File, Form

LEMMA TornType ==
    ASSUME NEW v \in Vars, NEW f \in Torn(v) PROVE f \in FileType
<1>1. \A K \in SUBSET Keys : [k \in Keys |-> IF k \in K THEN v[k] ELSE NoValue] \in Vars
  BY DEF Vars, Maybe
<1> QED BY <1>1, Constants DEF Torn, Form

LEMMA MixedType ==
    ASSUME Inv, NEW v \in Vars, NEW f \in Mixed(v) PROVE f \in FileType
<1>1. file.vars \in Vars BY DEF Inv, TypeOK
<1>2. \A K \in SUBSET Keys : [k \in Keys |-> IF k \in K THEN file.vars[k] ELSE v[k]] \in Vars
  BY <1>1 DEF Vars
<1> QED BY <1>2, Constants, WrittenType DEF Mixed, Form

(* What a reader has witnessed keeps its place.                             *)
LEMMA WitnessedType ==
    ASSUME file' \in FileType, NEW c \in CallType
    PROVE  /\ Witnessed(c) \in CallType
           /\ Witnessed(c).pc = c.pc /\ Witnessed(c).key = c.key
           /\ Witnessed(c).value = c.value /\ Witnessed(c).buf = c.buf
BY DEF Witnessed, CallType, FileType

LEMMA TruncateInv == ASSUME Inv, NEW t \in Threads, Truncate(t) PROVE Inv'
<1> DEFINE d == [call[t] EXCEPT !.pc = "fill"]
<1>1. /\ call[t].pc = "write" /\ kind # "kdbx" /\ file' = File("empty", NoVars)
      /\ call' = [call EXCEPT ![t] = d] /\ UNCHANGED <<kind, home, lock, acked, spoiled>>
  BY DEF Truncate, At, Moves, Locked
<1>2. d \in CallType /\ d.pc = "fill" /\ d.key = call[t].key /\ d.value = call[t].value
      /\ d.buf = call[t].buf
  BY DEF CallType, Inv, TypeOK
<1>3. file' \in FileType /\ file'.form = "empty" BY <1>1, Constants DEF File, Form
<1>4. \A u \in Threads : call'[u] = IF u = t THEN d ELSE call[u]
  BY <1>1 DEF Inv, TypeOK
<1> HIDE DEF d
<1>5. call' \in [Threads -> CallType] BY <1>1, <1>2 DEF Inv, TypeOK
<1>6. \A p \in Procs : lock[p] = Free BY <1>1 DEF Inv, LockKept
<1>7. TypeOK' BY <1>1, <1>3, <1>5, <1>6 DEF Inv, TypeOK, FileType
<1>8. LockKept' BY <1>1, <1>2, <1>4, <1>6 DEF Inv, LockKept
<1>9. Kept'
  <2> SUFFICES ASSUME ~spoiled PROVE Kept' BY <1>1 DEF Kept
  <2>1. ASSUME NEW u \in Threads, call'[u].pc \in Busy PROVE Current(u)'
    <3>1. CASE u = t
      <4>1. Current(t) BY <1>1 DEF Inv, Kept, Busy
      <4> QED BY <4>1, <3>1, <1>1, <1>2, <1>4 DEF Current
    <3>2. CASE u # t BY <3>2, <1>2, <1>4 DEF Current
    <3> QED BY <3>1, <3>2
  <2> QED BY <2>1, <1>2, <1>3, <1>4 DEF Kept
<1> QED BY <1>7, <1>8, <1>9 DEF Inv

(* A call that ends with a write has returned the lock; the others go on    *)
(* where they were.                                                         *)
LEMMA EndsInv ==
    ASSUME Inv, NEW t \in Threads, NEW how \in {"ok", "failed"}, file' \in FileType,
           call[t].pc \in Busy,
           call' = [u \in Threads |-> IF u = t THEN Done(call[t], how) ELSE Witnessed(call[u])],
           lock' = Unlocked(t), UNCHANGED <<kind, home>>, acked' \in Vars, spoiled' \in BOOLEAN
    PROVE  /\ TypeOK' /\ LockKept'
           /\ \A u \in Threads : call'[u].pc = (IF u = t THEN "done" ELSE call[u].pc)
<1>1. call \in [Threads -> CallType] /\ home[t] \in Procs
  BY FileStoreAssumption DEF Inv, TypeOK
<1>2. Done(call[t], how) \in CallType /\ Done(call[t], how).pc = "done"
  BY <1>1 DEF CallType, Done
<1>3. \A u \in Threads : call'[u] = IF u = t THEN Done(call[t], how) ELSE Witnessed(call[u])
  OBVIOUS
<1>4. \A u \in Threads : call'[u] \in CallType
                         /\ call'[u].pc = (IF u = t THEN "done" ELSE call[u].pc)
  BY <1>1, <1>2, <1>3, WitnessedType
<1>5. \A p \in Procs : lock'[p] = IF p = home[t] /\ lock[p] = t THEN Free ELSE lock[p]
  BY DEF Unlocked
<1>6. lock' \in [Procs -> Threads \cup {Free}] BY <1>5 DEF Inv, TypeOK, Unlocked
<1>7. t # Free BY FileStoreAssumption
<1>8. ASSUME NEW p \in Procs, lock'[p] # Free
      PROVE  home[lock'[p]] = p /\ call'[lock'[p]].pc \in {"load", "write"}
  <2>1. lock'[p] = lock[p] BY <1>5, <1>8
  <2>2. home[lock[p]] = p /\ call[lock[p]].pc \in {"load", "write"} /\ lock[p] \in Threads
    BY <2>1, <1>8 DEF Inv, TypeOK
  <2>3. lock[p] # t BY <1>5, <1>8, <2>1, <2>2, <1>7
  <2> QED BY <2>1, <2>2, <2>3, <1>4
<1>9. call' \in [Threads -> CallType] BY <1>4
<1>10. TypeOK' BY <1>6, <1>8, <1>9 DEF Inv, TypeOK, FileType
<1>11. LockKept'
  <2>1. CASE kind # "kdbx" BY <2>1, <1>4, <1>5 DEF Inv, LockKept
  <2>2. CASE kind = "kdbx"
    <3>1. ASSUME NEW u \in Threads, u # t, call[u].pc \in {"load", "write"}
          PROVE  lock'[home[u]] = u
      <4>1. lock[home[u]] = u /\ home[u] \in Procs
        BY <2>2, <3>1, FileStoreAssumption DEF Inv, LockKept, TypeOK
      <4> QED BY <4>1, <3>1, <1>5
    <3> QED BY <2>2, <3>1, <1>4 DEF Inv, LockKept
  <2> QED BY <2>1, <2>2
<1> QED BY <1>4, <1>10, <1>11

(* A write that completes with nothing to spoil it leaves what it was about *)
(* to write, and no other thread is about to.                               *)
LEMMA CommitsInv ==
    ASSUME Inv, NEW t \in Threads, Commits(t), call[t].pc \in Busy, file' \in FileType,
           ~spoiled => file' = Written(call[t].buf)
    PROVE  Inv'
<1>1. call[t] \in CallType /\ home[t] \in Procs
  BY FileStoreAssumption DEF Inv, TypeOK
<1>2. call[t].key \in Keys /\ call[t].value \in Maybe /\ call[t].buf \in Vars
  BY <1>1 DEF CallType
<1> DEFINE stored == [acked EXCEPT ![call[t].key] = call[t].value]
<1>3. stored \in Vars /\ NoVars \in Vars
  BY <1>2, Constants DEF Inv, TypeOK, Vars
<1>4. /\ call' = [u \in Threads |-> IF u = t THEN Done(call[t], "ok") ELSE Witnessed(call[u])]
      /\ spoiled' = (spoiled \/ Stale(t) \/ file'.form = "broken")
      /\ acked' = IF spoiled' THEN NoVars ELSE stored
      /\ lock' = Unlocked(t) /\ UNCHANGED <<kind, home>>
  BY DEF Commits
<1> HIDE DEF stored
<1>5. spoiled' \in BOOLEAN BY <1>4 DEF Inv, TypeOK
<1>6. acked' \in Vars BY <1>3, <1>4
<1>7. /\ TypeOK' /\ LockKept'
      /\ \A u \in Threads : call'[u].pc = (IF u = t THEN "done" ELSE call[u].pc)
  BY <1>4, <1>5, <1>6, EndsInv
<1>8. Kept'
  <2> SUFFICES ASSUME ~spoiled' PROVE Kept' BY DEF Kept
  <2>1. ~spoiled /\ ~Stale(t) /\ file'.form # "broken" /\ acked' = stored BY <1>4
  <2>2. ASSUME NEW u \in Threads \ {t} PROVE call[u].pc \notin Busy
    <3>1. CASE kind # "kdbx" BY <2>1, <3>1 DEF Stale, Locked, Busy
    <3>2. CASE kind = "kdbx" /\ home[u] = home[t]
      <4>1. call[t].pc = "write" /\ call[u].pc # "fill"
        BY <3>2 DEF Inv, LockKept, Busy
      <4>2. call[u].pc = "write" => lock[home[u]] = u /\ lock[home[t]] = t
        BY <3>2, <4>1 DEF Inv, LockKept
      <4> QED BY <3>2, <4>1, <4>2 DEF Busy
    <3>3. CASE home[u] # home[t] BY <2>1, <3>3 DEF Stale, Busy
    <3> QED BY <3>1, <3>2, <3>3
  <2>3. call[t].buf = stored
    BY <2>1, <2>2 DEF Inv, Kept, Current, Busy, stored
  <2>4. file'.form = "whole" /\ file'.vars = stored
    BY <2>1, <2>3, <1>2, WrittenType
  <2>5. \A u \in Threads : call'[u].pc \notin Busy
    BY <1>7, <2>2 DEF Busy
  <2> QED BY <2>1, <2>4, <2>5 DEF Kept, Busy
<1> QED BY <1>7, <1>8 DEF Inv

LEMMA FillInv == ASSUME Inv, NEW t \in Threads, Fill(t) PROVE Inv'
<1>1. call[t].pc = "fill" /\ Commits(t)
      /\ (IF file.form = "empty" THEN file' = Written(call[t].buf)
          ELSE file' \in Mixed(call[t].buf))
  BY DEF Fill, At
<1>2. call[t].buf \in Vars BY DEF Inv, TypeOK, CallType
<1>3. file' \in FileType BY <1>1, <1>2, WrittenType, MixedType
<1>4. ~spoiled => file.form = "empty" BY <1>1 DEF Inv, Kept
<1> QED BY <1>1, <1>3, <1>4, CommitsInv DEF Busy

LEMMA ReplaceInv == ASSUME Inv, NEW t \in Threads, Replace(t) PROVE Inv'
<1>1. call[t].pc = "write" /\ Commits(t) /\ file' = Written(call[t].buf)
  BY DEF Replace, At
<1>2. call[t].buf \in Vars BY DEF Inv, TypeOK, CallType
<1>3. file' \in FileType BY <1>1, <1>2, WrittenType
<1> QED BY <1>1, <1>3, CommitsInv DEF Busy

LEMMA FillFailsInv == ASSUME Inv, NEW t \in Threads, FillFails(t) PROVE Inv'
<1>1. /\ call[t].pc = "fill" /\ file' \in Torn(call[t].buf)
      /\ call' = [u \in Threads |-> IF u = t THEN Done(call[t], "failed") ELSE Witnessed(call[u])]
      /\ spoiled' = TRUE /\ acked' = NoVars /\ UNCHANGED <<kind, home, lock>>
  BY DEF FillFails, At
<1>2. call[t].buf \in Vars BY DEF Inv, TypeOK, CallType
<1>3. file' \in FileType BY <1>1, <1>2, TornType
<1>4. \A p \in Procs : lock[p] = Free BY <1>1 DEF Inv, LockKept
<1>5. lock' = Unlocked(t) BY <1>1, <1>4 DEF Unlocked, Inv, TypeOK
<1>6. TypeOK' /\ LockKept' BY <1>1, <1>3, <1>5, Constants, EndsInv DEF Busy
<1>7. Kept' BY <1>1 DEF Kept
<1> QED BY <1>6, <1>7 DEF Inv
-----------------------------------------------------------------------------
(* A process that dies cuts at most a write in place short, which is noted; *)
(* its locks go with it.                                                    *)
LEMMA CrashInv == ASSUME Inv, NEW p \in Procs, Crash(p) PROVE Inv'
<1> DEFINE mine == {t \in Threads : home[t] = p}
<1> DEFINE filling == {t \in mine : call[t].pc = "fill"}
<1>1. /\ IF filling = {} THEN file' = file
         ELSE \E t \in filling : file' \in Torn(call[t].buf) \cup {file}
      /\ call' = [t \in Threads |-> IF t \in mine THEN Blank ELSE Witnessed(call[t])]
      /\ lock' = [lock EXCEPT ![p] = Free]
      /\ spoiled' = (spoiled \/ filling # {})
      /\ acked' = IF spoiled' THEN NoVars ELSE acked
      /\ UNCHANGED <<kind, home>>
  BY DEF Crash, At
<1>2. \A t \in Threads : call[t] \in CallType /\ call[t].buf \in Vars
  BY DEF Inv, TypeOK, CallType
<1>3. file' \in FileType
  <2>1. CASE filling = {} BY <2>1, <1>1 DEF Inv, TypeOK, FileType
  <2>2. CASE filling # {}
    <3>1. PICK t \in filling : file' \in Torn(call[t].buf) \cup {file} BY <2>2, <1>1
    <3>2. call[t].buf \in Vars BY <1>2
    <3>3. file \in FileType BY DEF Inv, TypeOK, FileType
    <3> QED BY <3>1, <3>2, <3>3, TornType
  <2> QED BY <2>1, <2>2
<1>4. ASSUME NEW t \in Threads
      PROVE  /\ call'[t] \in CallType
             /\ call'[t].pc = (IF t \in mine THEN "idle" ELSE call[t].pc)
             /\ t \notin mine => /\ call'[t].key = call[t].key
                                 /\ call'[t].value = call[t].value
                                 /\ call'[t].buf = call[t].buf
  <2>1. Blank \in CallType /\ Blank.pc = "idle" BY Constants DEF Blank
  <2>2. call'[t] = IF t \in mine THEN Blank ELSE Witnessed(call[t]) BY <1>1
  <2>3. /\ Witnessed(call[t]) \in CallType
        /\ Witnessed(call[t]).pc = call[t].pc /\ Witnessed(call[t]).key = call[t].key
        /\ Witnessed(call[t]).value = call[t].value /\ Witnessed(call[t]).buf = call[t].buf
    BY <1>2, <1>3, WitnessedType
  <2> HIDE DEF mine
  <2> QED BY <2>1, <2>2, <2>3
<1>5. call' \in [Threads -> CallType] BY <1>1, <1>4
<1>6. \A q \in Procs : lock'[q] = IF q = p THEN Free ELSE lock[q]
  BY <1>1 DEF Inv, TypeOK
<1>7. lock' \in [Procs -> Threads \cup {Free}] BY <1>1 DEF Inv, TypeOK
<1>8. ASSUME NEW q \in Procs, lock'[q] # Free
      PROVE  home[lock'[q]] = q /\ call'[lock'[q]].pc \in {"load", "write"}
  <2>1. lock'[q] = lock[q] /\ q # p BY <1>6, <1>8
  <2>2. home[lock[q]] = q /\ call[lock[q]].pc \in {"load", "write"} /\ lock[q] \in Threads
    BY <2>1, <1>8 DEF Inv, TypeOK
  <2> QED BY <2>1, <2>2, <1>4
<1>9. acked' \in Vars /\ spoiled' \in BOOLEAN
  BY <1>1, Constants DEF Inv, TypeOK
<1>10. TypeOK' BY <1>1, <1>3, <1>5, <1>7, <1>8, <1>9 DEF Inv, TypeOK, FileType
<1>11. LockKept'
  <2>1. CASE kind # "kdbx" BY <2>1, <1>1, <1>4, <1>6 DEF Inv, LockKept
  <2>2. CASE kind = "kdbx"
    <3>1. ASSUME NEW u \in Threads
          PROVE  /\ call'[u].pc # "fill"
                 /\ call'[u].pc \in {"load", "write"} => lock'[home[u]] = u
      <4>1. home[u] \in Procs BY FileStoreAssumption DEF Inv, TypeOK
      <4> QED BY <2>2, <4>1, <1>4, <1>6 DEF Inv, LockKept
    <3> QED BY <2>2, <3>1, <1>1 DEF LockKept
  <2> QED BY <2>1, <2>2
<1>12. Kept'
  <2> SUFFICES ASSUME ~spoiled' PROVE Kept' BY DEF Kept
  <2>1. ~spoiled /\ filling = {} /\ file' = file /\ acked' = acked BY <1>1
  <2>2. \A u \in Threads : call'[u].pc = "fill" <=> call[u].pc = "fill"
    BY <2>1, <1>4
  <2>3. ASSUME NEW u \in Threads, call'[u].pc \in Busy PROVE Current(u)'
    <3>1. u \notin mine /\ call[u].pc \in Busy BY <2>3, <1>4 DEF Busy
    <3>2. Current(u) BY <3>1, <2>1 DEF Inv, Kept
    <3> QED BY <3>1, <3>2, <2>1, <2>2, <1>4 DEF Current
  <2> QED BY <2>1, <2>2, <2>3 DEF Inv, Kept
<1> QED BY <1>10, <1>11, <1>12 DEF Inv

LEMMA UpgradeInv == ASSUME Inv, Upgrade PROVE Inv'
<1>1. file' = [file EXCEPT !.kdbx3 = FALSE] /\ UNCHANGED <<kind, home, lock, call, acked, spoiled>>
  BY DEF Upgrade
<1>2. file \in FileType BY DEF Inv, TypeOK, FileType
<1>3. file' \in FileType /\ file'.form = file.form /\ file'.vars = file.vars
  BY <1>1, <1>2 DEF FileType
<1>4. TypeOK' BY <1>1, <1>3 DEF Inv, TypeOK, FileType
<1>5. LockKept' BY <1>1 DEF Inv, LockKept
<1>6. Kept' BY <1>1, <1>3 DEF Inv, Kept, Current
<1> QED BY <1>4, <1>5, <1>6 DEF Inv

LEMMA NextInv == Inv /\ [Next]_vars => Inv'
<1> SUFFICES ASSUME Inv, [Next]_vars PROVE Inv' OBVIOUS
<1>1. ASSUME NEW t \in Threads, NEW K \in SUBSET Keys, Get(t, K) PROVE Inv'
  BY <1>1, GetInv
<1>2. ASSUME NEW t \in Threads, NEW k \in Keys,
             Delete(t, k) \/ \E v \in Values : Set(t, k, v)
      PROVE  Inv'
  BY <1>2, DeleteInv, SetInv
<1>3. ASSUME NEW t \in Threads,
             CheckVersion(t) \/ Lock(t) \/ Load(t) \/ Truncate(t) \/ Fill(t) \/ FillFails(t)
             \/ Replace(t) \/ LoadFails(t) \/ WriteFails(t) \/ Return(t)
      PROVE  Inv'
  BY <1>3, CheckVersionInv, LockInv, LoadInv, TruncateInv, FillInv, FillFailsInv, ReplaceInv,
     FailsInv, ReturnInv
<1>4. CASE UNCHANGED vars
  BY <1>4 DEF vars, Inv, TypeOK, LockKept, Kept, Current
<1> QED BY <1>1, <1>2, <1>3, <1>4, CrashInv, UpgradeInv DEF Next

-----------------------------------------------------------------------------
(* What a call has seen, as the file f and what is spoiled now bear on it:  *)
(* an answer is given last; who reads does not write; while he reads, what  *)
(* the file holds is among what he has seen, so that what it held when he   *)
(* answered was.                                                            *)
Drawn(kd, c, v) ==
    \A k \in c.keys : c.buf[k] = v[k] \/ (kd = "dotenv" /\ c.buf[k] = NoValue)

Sees(kd, c, f, s) ==
    /\ c.result # "none" => c.pc = "done"
    /\ c.op = "get" => c.pc \notin {"check", "write", "fill"}
    /\ c.op = "get" /\ c.pc \in {"lock", "load"} /\ f.form \in {"absent", "whole"} =>
          f.vars \in c.seen
    /\ c.op = "get" /\ c.result = "ok" /\ (kd = "dotenv" => ~s /\ c.seen # {}) =>
          \E v \in c.seen : Drawn(kd, c, v)

Seeing ==
    /\ file.form = "empty" => file.vars = NoVars
    /\ \A t \in Threads : Sees(kind, call[t], file, spoiled)

LEMMA SeesWell ==
    ASSUME NEW kd, NEW c \in CallType, NEW f, NEW s, c.result = "none",
           c.op = "get" => c.pc = "idle"
    PROVE  Sees(kd, c, f, s)
BY DEF Sees, CallType

LEMMA BlankSees == ASSUME NEW kd, NEW f, NEW s PROVE Sees(kd, Blank, f, s)
<1>1. Blank \in CallType /\ Blank.result = "none" /\ Blank.pc = "idle"
  BY Constants DEF Blank
<1> QED BY <1>1, SeesWell

LEMMA InitSees == Init => Seeing
<1> SUFFICES ASSUME Init PROVE Seeing OBVIOUS
<1>1. file.form # "empty"
  <2>1. CASE file = File("absent", NoVars) BY <2>1 DEF File
  <2>2. CASE \E v \in Vars, old \in BOOLEAN : file = [form |-> "whole", kdbx3 |-> old, vars |-> v]
    BY <2>2
  <2> QED BY <2>1, <2>2 DEF Init
<1>2. \A t \in Threads : call[t] = Blank BY DEF Init
<1> QED BY <1>1, <1>2, BlankSees DEF Seeing

(* A thread moves on and the file stays as it is.                           *)
LEMMA OneMoves ==
    ASSUME Inv, Seeing, NEW t \in Threads, NEW c, call' = [call EXCEPT ![t] = c],
           kind' = kind, file' = file, spoiled' = spoiled, Sees(kind, c, file, spoiled)
    PROVE  Seeing'
<1>1. \A u \in Threads : call'[u] = IF u = t THEN c ELSE call[u]
  BY DEF Inv, TypeOK
<1>2. \A u \in Threads : Sees(kind, call[u], file, spoiled) BY DEF Seeing
<1>3. \A u \in Threads : Sees(kind, call'[u], file, spoiled) BY <1>1, <1>2
<1> QED BY <1>3 DEF Seeing

(* The file changes under the calls, which see it: a call that reads goes   *)
(* on with one thing more seen.                                             *)
LEMMA OthersSee ==
    ASSUME NEW c \in CallType, Sees(kind, c, file, spoiled), kind' = kind, file' \in FileType,
           file'.form = "absent" => file' = file, spoiled => spoiled'
    PROVE  Sees(kind', Witnessed(c), file', spoiled')
<1>1. CASE c.op = "get" /\ c.pc \in {"lock", "load"}
  <2>1. c.result = "none" BY <1>1 DEF Sees, CallType
  <2>2. CASE file'.form = "whole"
    <3>1. Witnessed(c) = [c EXCEPT !.seen = @ \cup {file'.vars}]
      BY <1>1, <2>2 DEF Witnessed
    <3> QED BY <1>1, <2>1, <2>2, <3>1 DEF Sees, CallType
  <2>3. CASE file'.form # "whole"
    <3>1. Witnessed(c) = c BY <2>3 DEF Witnessed
    <3> QED BY <1>1, <2>1, <2>3, <3>1 DEF Sees, CallType
  <2> QED BY <2>2, <2>3
<1>2. CASE c.op = "get" /\ c.pc \notin {"lock", "load"}
  <2>1. c.pc \in {"idle", "done"} BY <1>2 DEF Sees, CallType
  <2>2. Witnessed(c) = c BY <2>1 DEF Witnessed
  <2> QED BY <1>2, <2>1, <2>2 DEF Sees, Drawn
<1>3. CASE c.op # "get"
  <2>1. Witnessed(c) = c BY <1>3 DEF Witnessed
  <2> QED BY <1>3, <2>1 DEF Sees
<1> QED BY <1>1, <1>2, <1>3

(* A call that has written, or failed to, ends, and no one takes an emptied *)
(* file for one that was stored.                                            *)
LEMMA OneEnds ==
    ASSUME Inv, Seeing, NEW t \in Threads, NEW how \in {"ok", "failed"}, kind' = kind,
           file' \in FileType, file'.form = "absent" => file' = file, spoiled => spoiled',
           file'.form = "empty" => file'.vars = NoVars, call[t].pc \in Busy,
           call' = [u \in Threads |-> IF u = t THEN Done(call[t], how) ELSE Witnessed(call[u])]
    PROVE  Seeing'
<1>1. call \in [Threads -> CallType] BY DEF Inv, TypeOK
<1>2. ASSUME NEW u \in Threads PROVE Sees(kind', call'[u], file', spoiled')
  <2>1. call[u] \in CallType /\ Sees(kind, call[u], file, spoiled) BY <1>1 DEF Seeing
  <2>2. CASE u = t
    <3>1. call'[t] = Done(call[t], how) OBVIOUS
    <3>2. call[t].op # "get" BY <2>1, <2>2 DEF Sees, Busy
    <3>3. Done(call[t], how).op # "get" /\ Done(call[t], how).pc = "done"
      BY <2>1, <2>2, <3>2 DEF Done, CallType
    <3> QED BY <2>2, <3>1, <3>3 DEF Sees
  <2>3. CASE u # t
    <3>1. call'[u] = Witnessed(call[u]) BY <2>3
    <3> QED BY <2>1, <3>1, OthersSee
  <2> QED BY <2>2, <2>3
<1> QED BY <1>2 DEF Seeing

(* A call that ends otherwise than with an answer, or goes on without one.  *)
LEMMA EndsUnanswered ==
    ASSUME Inv, Seeing, NEW t \in Threads, NEW how \in {"absent", "refused", "failed"}
    PROVE  Sees(kind, Done(call[t], how), file, spoiled)
<1>1. call[t] \in CallType BY DEF Inv, TypeOK
<1>2. Done(call[t], how).pc = "done" /\ Done(call[t], how).result # "ok"
  BY <1>1 DEF Done, CallType
<1> QED BY <1>2 DEF Sees

LEMMA GetSees ==
    ASSUME Inv, Seeing, NEW t \in Threads, NEW K \in SUBSET Keys, Get(t, K) PROVE Seeing'
<1> DEFINE c == [Blank EXCEPT !.keys = K, !.seen = IF file.form \in {"absent", "whole"}
                                                   THEN {file.vars} ELSE {}]
<1> DEFINE d == IF \E k \in K : Refuses("get", k) THEN Done(c, "refused")
                ELSE [c EXCEPT !.pc = Started("get")]
<1>1. Quietly(t, d) BY DEF Get
<1>2. c \in CallType /\ c.result = "none"
  <2>1. file.vars \in Vars /\ Blank.result = "none" BY DEF Inv, TypeOK, Blank
  <2> QED BY <2>1, Constants DEF CallType
<1>3. file.form \in {"absent", "whole"} => file.vars \in c.seen
  BY Constants DEF CallType
<1> HIDE DEF c
<1>4. d.seen = c.seen /\ d.pc \in {"done", "load", "lock"} /\ d.result \in {"none", "refused"}
      /\ (d.result # "none" => d.pc = "done")
  BY <1>2 DEF CallType, Done, Started
<1> HIDE DEF d
<1>5. Sees(kind, d, file, spoiled) BY <1>3, <1>4 DEF Sees
<1> QED BY <1>1, <1>5, OneMoves DEF Quietly, Moves

LEMMA SetSees ==
    ASSUME Inv, Seeing, NEW t \in Threads, NEW k \in Keys, NEW v \in Values, Set(t, k, v)
    PROVE  Seeing'
<1> DEFINE c == [Blank EXCEPT !.op = "set", !.key = k, !.value = v]
<1> DEFINE d == IF Refuses("set", k) THEN Done(c, "refused") ELSE [c EXCEPT !.pc = Started("set")]
<1>1. Quietly(t, d) BY DEF Set
<1>2. c \in CallType /\ c.result = "none" /\ c.op = "set"
  BY Constants DEF CallType, Maybe, Blank
<1> HIDE DEF c
<1>3. d.op = "set" /\ (d.result # "none" => d.pc = "done")
  BY <1>2 DEF CallType, Done, Started
<1> HIDE DEF d
<1>4. Sees(kind, d, file, spoiled) BY <1>3 DEF Sees
<1> QED BY <1>1, <1>4, OneMoves DEF Quietly, Moves

LEMMA DeleteSees ==
    ASSUME Inv, Seeing, NEW t \in Threads, NEW k \in Keys, Delete(t, k) PROVE Seeing'
<1> DEFINE c == [Blank EXCEPT !.op = "delete", !.key = k]
<1> DEFINE d == IF Refuses("delete", k) THEN Done(c, "refused")
                ELSE [c EXCEPT !.pc = Started("delete")]
<1>1. Quietly(t, d) BY DEF Delete
<1>2. c \in CallType /\ c.result = "none" /\ c.op = "delete"
  BY Constants DEF CallType, Blank
<1> HIDE DEF c
<1>3. d.op = "delete" /\ (d.result # "none" => d.pc = "done")
  BY <1>2 DEF CallType, Done, Started
<1> HIDE DEF d
<1>4. Sees(kind, d, file, spoiled) BY <1>3 DEF Sees
<1> QED BY <1>1, <1>4, OneMoves DEF Quietly, Moves

(* To move on to another step is to see as before.                          *)
LEMMA MovesSee ==
    ASSUME Inv, Seeing, NEW t \in Threads,
           NEW from \in {"check", "lock", "write"}, NEW to \in {"lock", "load", "fill"},
           call[t].pc = from, from = "lock" => to = "load"
    PROVE  Sees(kind, [call[t] EXCEPT !.pc = to], file, spoiled)
<1> DEFINE d == [call[t] EXCEPT !.pc = to]
<1>1. call[t] \in CallType /\ Sees(kind, call[t], file, spoiled) BY DEF Inv, TypeOK, Seeing
<1>2. d.pc = to /\ d.op = call[t].op /\ d.seen = call[t].seen /\ d.result = call[t].result
  BY <1>1 DEF CallType
<1> HIDE DEF d
<1>3. Sees(kind, d, file, spoiled) BY <1>1, <1>2 DEF Sees, CallType
<1> QED BY <1>3 DEF d

LEMMA CheckVersionSees ==
    ASSUME Inv, Seeing, NEW t \in Threads, CheckVersion(t) PROVE Seeing'
<1> DEFINE d == IF file.kdbx3 THEN Done(call[t], "refused") ELSE [call[t] EXCEPT !.pc = "lock"]
<1>1. call[t].pc = "check" /\ Quietly(t, d) BY DEF CheckVersion, At
<1>2. Sees(kind, d, file, spoiled) BY <1>1, EndsUnanswered, MovesSee
<1> QED BY <1>1, <1>2, OneMoves DEF Quietly, Moves

LEMMA LockSees == ASSUME Inv, Seeing, NEW t \in Threads, Lock(t) PROVE Seeing'
<1>1. call[t].pc = "lock" /\ call' = [call EXCEPT ![t] = [call[t] EXCEPT !.pc = "load"]]
      /\ kind' = kind /\ file' = file /\ spoiled' = spoiled
  BY DEF Lock, At, Moves
<1>2. Sees(kind, [call[t] EXCEPT !.pc = "load"], file, spoiled) BY <1>1, MovesSee
<1> QED BY <1>1, <1>2, OneMoves

(* The answer is what the file holds, which has been seen; or nothing, of   *)
(* an emptied .env file.                                                    *)
LEMMA AnswersSee ==
    ASSUME Inv, Seeing, NEW t \in Threads, call[t].pc = "load", call[t].op = "get", Readable
    PROVE  Sees(kind, Answers(call[t]), file, spoiled)
<1>1. call[t] \in CallType /\ Sees(kind, call[t], file, spoiled) /\ file.form \in Form
  BY DEF Inv, TypeOK, Seeing
<1>2. CASE Answers(call[t]) = Done(call[t], "failed") BY <1>2, EndsUnanswered
<1>3. CASE Answers(call[t]) = [Done(call[t], "ok") EXCEPT !.buf = file.vars]
  <2> DEFINE d == Answers(call[t])
  <2>1. d.pc = "done" /\ d.buf = file.vars /\ d.seen = call[t].seen /\ d.keys = call[t].keys
    BY <1>1, <1>3 DEF Done, CallType
  <2> HIDE DEF d
  <2>2. ASSUME kind = "dotenv" => d.seen # {} PROVE \E v \in d.seen : Drawn(kind, d, v)
    <3>1. CASE file.form \in {"absent", "whole"}
      <4>1. file.vars \in d.seen BY <1>1, <2>1, <3>1 DEF Sees
      <4>2. Drawn(kind, d, file.vars) BY <2>1 DEF Drawn
      <4> QED BY <4>1, <4>2
    <3>2. CASE file.form \notin {"absent", "whole"}
      <4>1. kind = "dotenv" /\ file.vars = NoVars BY <1>1, <3>2 DEF Readable, Form, Seeing
      <4>2. PICK v : v \in d.seen BY <2>2, <4>1
      <4>3. call[t].keys \subseteq Keys BY <1>1 DEF CallType
      <4>4. Drawn(kind, d, v) BY <2>1, <4>1, <4>3 DEF Drawn, NoVars
      <4> QED BY <4>2, <4>4
    <3> QED BY <3>1, <3>2
  <2>3. Sees(kind, d, file, spoiled) BY <2>1, <2>2 DEF Sees
  <2> QED BY <2>3 DEF d
<1> QED BY <1>2, <1>3 DEF Answers

LEMMA LoadSees == ASSUME Inv, Seeing, NEW t \in Threads, Load(t) PROVE Seeing'
<1> DEFINE d == IF ~Readable THEN Done(call[t], "failed")
                ELSE IF call[t].op = "get" THEN Answers(call[t]) ELSE Edits(call[t])
<1>1. call[t].pc = "load" /\ call' = [call EXCEPT ![t] = d]
      /\ kind' = kind /\ file' = file /\ spoiled' = spoiled
  BY DEF Load, At, Returns, Quietly, Moves
<1>2. call[t] \in CallType /\ Sees(kind, call[t], file, spoiled) BY DEF Inv, TypeOK, Seeing
<1>3. ASSUME call[t].op # "get" PROVE Sees(kind, Edits(call[t]), file, spoiled)
  <2>1. CASE Edits(call[t]) \in {Done(call[t], "absent"), Done(call[t], "failed")}
    BY <2>1, EndsUnanswered
  <2>2. CASE Edits(call[t]) = [call[t] EXCEPT !.pc = "write",
                                 !.buf = [file.vars EXCEPT ![call[t].key] = call[t].value]]
    <3>1. Edits(call[t]).op # "get" /\ Edits(call[t]).result = "none"
      BY <1>1, <1>2, <1>3, <2>2 DEF CallType, Sees
    <3> QED BY <3>1 DEF Sees
  <2> QED BY <2>1, <2>2 DEF Edits
<1>4. Sees(kind, d, file, spoiled) BY <1>1, <1>3, AnswersSee, EndsUnanswered
<1> QED BY <1>1, <1>4, OneMoves

LEMMA FailsSees ==
    ASSUME Inv, Seeing, NEW t \in Threads, LoadFails(t) \/ WriteFails(t) PROVE Seeing'
<1>1. call' = [call EXCEPT ![t] = Done(call[t], "failed")]
      /\ kind' = kind /\ file' = file /\ spoiled' = spoiled
  BY DEF LoadFails, WriteFails, Returns, Moves
<1> QED BY <1>1, EndsUnanswered, OneMoves

LEMMA ReturnSees == ASSUME Inv, Seeing, NEW t \in Threads, Return(t) PROVE Seeing'
BY BlankSees, OneMoves DEF Return, Quietly, Moves

(* An emptied file is no answer to anyone.                                  *)
LEMMA TruncateSees == ASSUME Inv, Seeing, NEW t \in Threads, Truncate(t) PROVE Seeing'
<1> DEFINE d == [call[t] EXCEPT !.pc = "fill"]
<1>1. call[t].pc = "write" /\ file' = File("empty", NoVars)
      /\ call' = [call EXCEPT ![t] = d] /\ kind' = kind /\ spoiled' = spoiled
  BY DEF Truncate, At, Moves
<1>2. file'.form = "empty" /\ file'.vars = NoVars BY <1>1 DEF File
<1>3. Sees(kind, d, file, spoiled) BY <1>1, MovesSee
<1>4. \A u \in Threads : call'[u] = IF u = t THEN d ELSE call[u]
  BY <1>1 DEF Inv, TypeOK
<1> HIDE DEF d
<1>5. \A u \in Threads : Sees(kind, call'[u], file, spoiled) BY <1>3, <1>4 DEF Seeing
<1>6. \A u \in Threads : Sees(kind, call'[u], file', spoiled) BY <1>2, <1>5 DEF Sees
<1> QED BY <1>1, <1>2, <1>6 DEF Seeing

(* No file is absent or empty that a write has filled; one cut short may be *)
(* empty.                                                                   *)
LEMMA WriteForms ==
    ASSUME NEW v \in Vars
    PROVE  /\ Written(v).form \in {"whole", "broken"}
           /\ \A f \in Mixed(v) : f.form \in {"whole", "broken"}
           /\ \A f \in Torn(v) : f.form # "absent" /\ (f.form = "empty" => f.vars = NoVars)
<1>1. Written(v).form \in {"whole", "broken"} BY DEF Written, File
<1>2. \A f \in Mixed(v) : f.form \in {"whole", "broken"} BY <1>1 DEF Mixed, File
<1>3. \A f \in Torn(v) : f.form # "absent" /\ (f.form = "empty" => f.vars = NoVars)
  BY DEF Torn, File
<1> QED BY <1>1, <1>2, <1>3

LEMMA FillSees == ASSUME Inv, Seeing, NEW t \in Threads, Fill(t) PROVE Seeing'
<1>1. /\ call[t].pc = "fill"
      /\ IF file.form = "empty" THEN file' = Written(call[t].buf) ELSE file' \in Mixed(call[t].buf)
      /\ call' = [u \in Threads |-> IF u = t THEN Done(call[t], "ok") ELSE Witnessed(call[u])]
      /\ (spoiled => spoiled') /\ kind' = kind
  BY DEF Fill, At, Commits
<1>2. call[t].buf \in Vars BY DEF Inv, TypeOK, CallType
<1>3. file' \in FileType BY <1>1, <1>2, WrittenType, MixedType
<1>4. file'.form \in {"whole", "broken"} BY <1>1, <1>2, WriteForms
<1> QED BY <1>1, <1>3, <1>4, OneEnds DEF Busy

LEMMA FillFailsSees == ASSUME Inv, Seeing, NEW t \in Threads, FillFails(t) PROVE Seeing'
<1>1. /\ call[t].pc = "fill" /\ file' \in Torn(call[t].buf)
      /\ call' = [u \in Threads |-> IF u = t THEN Done(call[t], "failed") ELSE Witnessed(call[u])]
      /\ spoiled' = TRUE /\ kind' = kind
  BY DEF FillFails, At
<1>2. call[t].buf \in Vars BY DEF Inv, TypeOK, CallType
<1>3. file' \in FileType BY <1>1, <1>2, TornType
<1>4. file'.form # "absent" /\ (file'.form = "empty" => file'.vars = NoVars)
  BY <1>1, <1>2, WriteForms
<1> QED BY <1>1, <1>3, <1>4, OneEnds DEF Busy

LEMMA ReplaceSees == ASSUME Inv, Seeing, NEW t \in Threads, Replace(t) PROVE Seeing'
<1>1. /\ call[t].pc = "write" /\ file' = Written(call[t].buf)
      /\ call' = [u \in Threads |-> IF u = t THEN Done(call[t], "ok") ELSE Witnessed(call[u])]
      /\ (spoiled => spoiled') /\ kind' = kind
  BY DEF Replace, At, Commits
<1>2. call[t].buf \in Vars BY DEF Inv, TypeOK, CallType
<1>3. file' \in FileType BY <1>1, <1>2, WrittenType
<1>4. file'.form \in {"whole", "broken"} BY <1>1, <1>2, WriteForms
<1> QED BY <1>1, <1>3, <1>4, OneEnds DEF Busy

LEMMA CrashSees == ASSUME Inv, Seeing, NEW p \in Procs, Crash(p) PROVE Seeing'
<1> DEFINE mine == {t \in Threads : home[t] = p}
<1> DEFINE filling == {t \in mine : call[t].pc = "fill"}
<1>1. /\ IF filling = {} THEN file' = file
         ELSE \E t \in filling : file' \in Torn(call[t].buf) \cup {file}
      /\ call' = [t \in Threads |-> IF t \in mine THEN Blank ELSE Witnessed(call[t])]
      /\ (spoiled => spoiled') /\ kind' = kind
  BY DEF Crash, At
<1>2. \A t \in Threads : call[t] \in CallType /\ call[t].buf \in Vars
  BY DEF Inv, TypeOK, CallType
<1>3. file' = file \/ \E t \in Threads : file' \in Torn(call[t].buf) BY <1>1
<1>4. file' \in FileType /\ (file'.form = "absent" => file' = file)
      /\ (file'.form = "empty" => file'.vars = NoVars)
  <2>1. CASE file' = file BY <2>1 DEF Inv, TypeOK, FileType, Seeing
  <2>2. CASE \E t \in Threads : file' \in Torn(call[t].buf)
    BY <2>2, <1>2, TornType, WriteForms
  <2> QED BY <1>3, <2>1, <2>2
<1>5. ASSUME NEW t \in Threads PROVE Sees(kind', call'[t], file', spoiled')
  <2>1. call'[t] = Blank \/ call'[t] = Witnessed(call[t]) BY <1>1
  <2>2. Sees(kind, call[t], file, spoiled) BY DEF Seeing
  <2> QED BY <2>1, <2>2, <1>1, <1>2, <1>4, BlankSees, OthersSee
<1> QED BY <1>4, <1>5 DEF Seeing

LEMMA UpgradeSees == ASSUME Inv, Seeing, Upgrade PROVE Seeing'
<1>1. file' = [file EXCEPT !.kdbx3 = FALSE] /\ UNCHANGED <<kind, call, spoiled>>
  BY DEF Upgrade
<1>2. file \in FileType BY DEF Inv, TypeOK, FileType
<1>3. file'.form = file.form /\ file'.vars = file.vars BY <1>1, <1>2 DEF FileType
<1> QED BY <1>1, <1>3 DEF Seeing, Sees

LEMMA NextSees == Inv /\ Seeing /\ [Next]_vars => Seeing'
<1> SUFFICES ASSUME Inv, Seeing, [Next]_vars PROVE Seeing' OBVIOUS
<1>1. ASSUME NEW t \in Threads, NEW K \in SUBSET Keys, Get(t, K) PROVE Seeing'
  BY <1>1, GetSees
<1>2. ASSUME NEW t \in Threads, NEW k \in Keys,
             Delete(t, k) \/ \E v \in Values : Set(t, k, v)
      PROVE  Seeing'
  BY <1>2, DeleteSees, SetSees
<1>3. ASSUME NEW t \in Threads,
             CheckVersion(t) \/ Lock(t) \/ Load(t) \/ Truncate(t) \/ Fill(t) \/ FillFails(t)
             \/ Replace(t) \/ LoadFails(t) \/ WriteFails(t) \/ Return(t)
      PROVE  Seeing'
  BY <1>3, CheckVersionSees, LockSees, LoadSees, TruncateSees, FillSees, FillFailsSees,
     ReplaceSees, FailsSees, ReturnSees
<1>4. CASE UNCHANGED vars BY <1>4 DEF vars, Seeing, Sees
<1> QED BY <1>1, <1>2, <1>3, <1>4, CrashSees, UpgradeSees DEF Next
-----------------------------------------------------------------------------

LEMMA SpecInv == Spec => []Inv
BY InitInv, NextInv, PTL DEF Spec

LEMMA SpecSees == Spec => []Seeing
BY InitSees, NextSees, SpecInv, PTL DEF Spec

(* Every behaviour keeps its types, and the lock of a process is held only  *)
(* by a thread of it that is between reading and replacing the database.    *)
THEOREM TypeCorrect == Spec => []TypeOK
<1>1. Inv => TypeOK BY DEF Inv
<1> QED BY <1>1, SpecInv, PTL

(* The headline: dotenv's, age's and kdbx's read-modify-write of the whole  *)
(* file loses no key's write, for any number of processes, threads and      *)
(* keys, until one of the three things the code leaves open happens.        *)
THEOREM NothingIsLost == Spec => []NothingLost
<1>1. Inv => NothingLost BY DEF Inv, Kept, NothingLost, At
<1> QED BY <1>1, SpecInv, PTL

(* What is answered was there: a read of an age or a kdbx file returns what *)
(* the file held all at once at a moment of the read, whatever other        *)
(* threads write, fail to write or leave half written, and a read of .env   *)
(* differs from that only by what an emptied file makes it miss.            *)
THEOREM AnswersWereThere == Spec => []ReadsAreWhole
<1>1. Inv /\ Seeing => ReadsAreWhole BY DEF Seeing, Sees, Drawn, ReadsAreWhole
<1> QED BY <1>1, SpecInv, SpecSees, PTL
-----------------------------------------------------------------------------
(* Manifest.  First the numbers: the least of some.                         *)
LEMMA Least ==
    ASSUME NEW T, T \subseteq Nat, T # {} PROVE \E n \in T : \A m \in T : n <= m
<1> DEFINE R == OpToRel(<, Nat)
<1>1. IsWellFoundedOn(R, Nat) BY NatLessThanWellFounded
<1>2. PICK x \in T : \A y \in T : <<y, x>> \notin R
  <2> HIDE DEF R
  <2> QED BY <1>1, WFMin, Zenon
<1>3. ASSUME NEW y \in T PROVE x <= y
  <2>1. ~(y < x) BY <1>2 DEF OpToRel
  <2> QED BY <2>1
<1> QED BY <1>3

(* Induction over the numbers, for a set of them.                           *)
LEMMA Induction ==
    ASSUME NEW S, 0 \in S, \A i \in Nat : i \in S => i + 1 \in S PROVE Nat \subseteq S
<1> SUFFICES ASSUME Nat \ S # {} PROVE FALSE OBVIOUS
<1>1. PICK n \in Nat \ S : \A m \in Nat \ S : n <= m BY Least
<1>2. n # 0 BY <1>1
<1>3. n - 1 \in Nat /\ (n - 1) + 1 = n BY <1>1, <1>2
<1>4. n - 1 \in S BY <1>1, <1>3
<1> QED BY <1>1, <1>3, <1>4

(* What a recursion over 0..m computes, a step at a time: there is such a   *)
(* function.                                                                *)
Steps(G, v, m, f) == f[0] = v /\ \A i \in 1..m : f[i] = G[i][f[i - 1]]

(* A recursion over 0..m has a function that follows it.                    *)
LEMMA Recursion ==
    ASSUME NEW T, NEW v \in T, NEW m \in Nat, NEW G \in [1..m -> [T -> T]]
    PROVE  \E f \in [0..m -> T] : Steps(G, v, m, f)
<1> DEFINE S == {k \in Nat : k <= m => \E f \in [0..k -> T] : Steps(G, v, k, f)}
<1>1. 0 \in S
  <2>1. [i \in 0..0 |-> v] \in [0..0 -> T] /\ Steps(G, v, 0, [i \in 0..0 |-> v]) BY DEF Steps
  <2> QED BY <2>1
<1>2. ASSUME NEW k \in Nat, k \in S PROVE k + 1 \in S
  <2> SUFFICES ASSUME k + 1 <= m PROVE \E f \in [0..(k + 1) -> T] : Steps(G, v, k + 1, f) OBVIOUS
  <2>1. PICK f \in [0..k -> T] : Steps(G, v, k, f) BY <1>2
  <2> DEFINE h == [i \in 0..(k + 1) |-> IF i = k + 1 THEN G[k + 1][f[k]] ELSE f[i]]
  <2>2. k + 1 \in 1..m /\ k \in 0..k OBVIOUS
  <2>3. G[k + 1][f[k]] \in T BY <2>1, <2>2
  <2>4. h \in [0..(k + 1) -> T] BY <2>1, <2>3
  <2>5. h[0] = v BY <2>1 DEF Steps
  <2>6. ASSUME NEW i \in 1..(k + 1) PROVE h[i] = G[i][h[i - 1]]
    <3>1. i - 1 \in 0..k /\ i - 1 # k + 1 /\ i - 1 \in 0..(k + 1) OBVIOUS
    <3>2. h[i - 1] = f[i - 1] BY <3>1
    <3>3. CASE i = k + 1 BY <3>2, <3>3
    <3>4. CASE i # k + 1
      <4>1. i \in 1..k /\ i \in 0..(k + 1) BY <3>4
      <4>2. h[i] = f[i] BY <4>1, <3>4
      <4> QED BY <2>1, <3>2, <4>1, <4>2 DEF Steps
    <3> QED BY <3>3, <3>4
  <2> HIDE DEF h
  <2> QED BY <2>4, <2>5, <2>6 DEF Steps
<1> HIDE DEF S
<1>3. Nat \subseteq S BY <1>1, <1>2, Induction
<1>4. m \in S BY <1>3
<1> QED BY <1>4 DEF S

(* A set that grows through as many steps as it may have elements has       *)
(* stopped growing.                                                         *)
Grower(E, F)     == F \in [SUBSET E -> SUBSET E] /\ \A X \in SUBSET E : X \subseteq F[X]
Rounds(E, F, m, f) == f \in [0..m -> SUBSET E] /\ \A i \in 1..m : f[i] = F[f[i - 1]]

(* After as many rounds as the set may have elements another adds nothing.  *)
LEMMA StopsGrowing ==
    ASSUME NEW E, IsFiniteSet(E), NEW m \in Nat, Cardinality(E) <= m,
           NEW F, Grower(E, F), NEW f, Rounds(E, F, m, f)
    PROVE  F[f[m]] = f[m]
<1> USE DEF Grower, Rounds
<1>1. \A X \in SUBSET E : IsFiniteSet(X) /\ Cardinality(X) \in Nat
  BY FS_Subset, FS_CardinalityType
<1>2. \A X, Y \in SUBSET E : X \subseteq Y /\ X # Y => Cardinality(X) < Cardinality(Y)
  <2> SUFFICES ASSUME NEW X \in SUBSET E, NEW Y \in SUBSET E, X \subseteq Y, X # Y
               PROVE  Cardinality(X) < Cardinality(Y)
    OBVIOUS
  <2>1. Cardinality(X) <= Cardinality(Y) /\ (Cardinality(X) = Cardinality(Y) => X = Y)
    BY <1>1, FS_Subset
  <2> QED BY <1>1, <2>1
<1> DEFINE S == {k \in Nat : k <= m => F[f[k]] = f[k] \/ Cardinality(f[k]) >= k}
<1>3. 0 \in S
  <2>1. f[0] \in SUBSET E OBVIOUS
  <2> QED BY <1>1, <2>1
<1>4. ASSUME NEW k \in Nat, k \in S PROVE k + 1 \in S
  <2> SUFFICES ASSUME k + 1 <= m PROVE F[f[k + 1]] = f[k + 1] \/ Cardinality(f[k + 1]) >= k + 1
    OBVIOUS
  <2>1. k + 1 \in 1..m /\ (k + 1) - 1 = k /\ k \in 0..m OBVIOUS
  <2>2. f[k + 1] = F[f[k]] /\ f[k] \in SUBSET E BY <2>1
  <2>3. F[f[k]] \in SUBSET E /\ f[k] \subseteq F[f[k]] BY <2>2
  <2>4. CASE F[f[k]] = f[k] BY <2>2, <2>4
  <2>5. CASE F[f[k]] # f[k]
    <3>1. Cardinality(f[k]) >= k BY <1>4, <2>1, <2>5
    <3>2. Cardinality(f[k]) < Cardinality(F[f[k]]) BY <1>2, <2>2, <2>3, <2>5
    <3>3. Cardinality(f[k]) \in Nat /\ Cardinality(F[f[k]]) \in Nat BY <1>1, <2>2, <2>3
    <3> QED BY <2>2, <3>1, <3>2, <3>3
  <2> QED BY <2>4, <2>5
<1> HIDE DEF S
<1>5. Nat \subseteq S BY <1>3, <1>4, Induction
<1>6. F[f[m]] = f[m] \/ Cardinality(f[m]) >= m BY <1>5 DEF S
<1>7. f[m] \in SUBSET E /\ F[f[m]] \in SUBSET E /\ f[m] \subseteq F[f[m]] OBVIOUS
<1>8. ASSUME Cardinality(f[m]) >= m, f[m] # E PROVE FALSE
  <2>1. Cardinality(f[m]) < Cardinality(E) BY <1>2, <1>7, <1>8
  <2>2. Cardinality(f[m]) \in Nat /\ Cardinality(E) \in Nat BY <1>1, <1>7
  <2> QED BY <1>8, <2>1, <2>2
<1> QED BY <1>6, <1>7, <1>8
-----------------------------------------------------------------------------
(* What `Reached` computes: of each name all that its own dependencies lead *)
(* to, and nothing else.                                                    *)
Grown(deps, X) == X \cup UNION {deps[m] : m \in X \cap DOMAIN deps}

Growing(deps, f) ==
    [k \in 0..Cardinality(DOMAIN deps) |->
        IF k = 0 THEN deps
        ELSE [n \in DOMAIN deps |->
                f[k - 1][n] \cup UNION {deps[m] : m \in f[k - 1][n] \cap DOMAIN deps}]]

(* The recursive function of `Reached` exists, and `Reached` is its last    *)
(* value.                                                                   *)
LEMMA GrowingIs ==
    ASSUME NEW D, IsFiniteSet(D), NEW deps \in [D -> SUBSET D]
    PROVE  \E f \in [0..Cardinality(D) -> [D -> SUBSET D]] :
               /\ f = Growing(deps, f)
               /\ Reached(deps) = f[Cardinality(D)]
<1> DEFINE T == [D -> SUBSET D]
           c == Cardinality(D)
           G == [i \in 1..c |-> [t \in T |-> [n \in D |-> Grown(deps, t[n])]]]
           after == CHOOSE f : f = Growing(deps, f)
<1>1. c \in Nat BY FS_CardinalityType
<1>2. DOMAIN deps = D OBVIOUS
<1>3. \A X \in SUBSET D : Grown(deps, X) \in SUBSET D BY DEF Grown
<1>4. G \in [1..c -> [T -> T]] BY <1>3
<1>5. PICK f \in [0..c -> T] : Steps(G, deps, c, f)
  <2> HIDE DEF G, T, c
  <2>1. deps \in T BY DEF T
  <2> QED BY <1>1, <1>4, <2>1, Recursion
<1>6. f = Growing(deps, f)
  <2>1. ASSUME NEW k \in 0..c PROVE f[k] = Growing(deps, f)[k]
    <3>1. CASE k = 0
      <4>1. f[0] = deps BY <1>5 DEF Steps
      <4> QED BY <3>1, <4>1, <1>1, <1>2 DEF Growing
    <3>2. CASE k # 0
      <4>1. k \in 1..c /\ k - 1 \in 0..c BY <1>1, <3>2
      <4>2. f[k] = G[k][f[k - 1]] BY <1>5, <4>1 DEF Steps
      <4>3. f[k - 1] \in T BY <4>1
      <4>4. f[k] = [n \in D |-> Grown(deps, f[k - 1][n])] BY <4>1, <4>2, <4>3
      <4> QED BY <3>2, <4>1, <4>4, <1>2 DEF Growing, Grown
    <3> QED BY <3>1, <3>2
  <2>2. f = [k \in 0..c |-> f[k]] OBVIOUS
  <2>3. Growing(deps, f) = [k \in 0..c |-> Growing(deps, f)[k]] BY <1>2 DEF Growing
  <2> QED BY <2>1, <2>2, <2>3
<1>7. after = Growing(deps, after) BY <1>6
<1>8. Reached(deps) = after[c] BY <1>2, Zenon DEF Reached, Growing
<1> HIDE DEF after
<1>9. \A k \in 0..c : after[k] \in T
  <2> DEFINE S == {k \in Nat : k <= c => after[k] \in T}
  <2>1. 0 \in S BY <1>1, <1>2, <1>7 DEF Growing
  <2>2. ASSUME NEW k \in Nat, k \in S PROVE k + 1 \in S
    <3> SUFFICES ASSUME k + 1 <= c PROVE after[k + 1] \in T OBVIOUS
    <3>1. k + 1 \in 0..c /\ k + 1 # 0 /\ (k + 1) - 1 = k /\ after[k] \in T BY <1>1, <2>2
    <3>2. Growing(deps, after)[k + 1] = [n \in D |-> Grown(deps, after[k][n])]
      BY <3>1, <1>2 DEF Growing, Grown
    <3>3. after[k + 1] = [n \in D |-> Grown(deps, after[k][n])] BY <1>7, <3>2
    <3> QED BY <3>1, <3>3, <1>3
  <2> HIDE DEF S
  <2>3. Nat \subseteq S BY <2>1, <2>2, Induction
  <2> QED BY <1>1, <2>3 DEF S
<1>10. after = [k \in 0..c |-> after[k]] BY <1>2, <1>7 DEF Growing
<1>11. after \in [0..c -> T] BY <1>9, <1>10
<1> QED BY <1>7, <1>8, <1>11

(* `Reached` is closed under the dependencies, and the least set that is.   *)
LEMMA ReachedIs ==
    ASSUME NEW D, IsFiniteSet(D), NEW deps \in [D -> SUBSET D]
    PROVE  /\ Reached(deps) \in [D -> SUBSET D]
           /\ \A n \in D : deps[n] \subseteq Reached(deps)[n]
           /\ \A n \in D : \A m \in Reached(deps)[n] : deps[m] \subseteq Reached(deps)[n]
           /\ \A n \in D : \A X \in SUBSET D :
                  deps[n] \subseteq X /\ (\A m \in X : deps[m] \subseteq X) => Reached(deps)[n] \subseteq X
<1> DEFINE c == Cardinality(D)
<1>1. c \in Nat BY FS_CardinalityType
<1>2. PICK f \in [0..c -> [D -> SUBSET D]] : f = Growing(deps, f) /\ Reached(deps) = f[c]
  BY GrowingIs
<1>3. f[0] = deps /\ \A k \in 1..c : \A n \in D : f[k][n] = Grown(deps, f[k - 1][n])
  <2>1. Growing(deps, f)[0] = deps BY <1>1 DEF Growing
  <2>2. ASSUME NEW k \in 1..c, NEW n \in D PROVE f[k][n] = Grown(deps, f[k - 1][n])
    <3>1. k \in 0..c /\ k # 0 BY <1>1
    <3>2. Growing(deps, f)[k] = [i \in D |-> Grown(deps, f[k - 1][i])]
      BY <3>1 DEF Growing, Grown
    <3> QED BY <1>2, <3>2
  <2> QED BY <1>2, <2>1, <2>2
<1> HIDE DEF c
<1>4. \A k \in 0..c : \A n \in D : f[k][n] \in SUBSET D BY <1>2
<1>5. ASSUME NEW n \in D PROVE Grown(deps, f[c][n]) = f[c][n] /\ deps[n] \subseteq f[c][n]
  <2> DEFINE h == [k \in 0..c |-> f[k][n]]
             F == [X \in SUBSET D |-> Grown(deps, X)]
             S == {k \in Nat : k <= c => deps[n] \subseteq h[k]}
  <2>1. h \in [0..c -> SUBSET D] BY <1>4
  <2>2. F \in [SUBSET D -> SUBSET D] /\ \A X \in SUBSET D : X \subseteq F[X] BY DEF Grown
  <2>3. ASSUME NEW k \in 1..c PROVE h[k] = F[h[k - 1]]
    <3>1. k - 1 \in 0..c /\ k \in 0..c BY <1>1
    <3>2. h[k - 1] = f[k - 1][n] /\ h[k - 1] \in SUBSET D BY <3>1, <1>4
    <3> QED BY <1>3, <3>1, <3>2
  <2>4. F[h[c]] = h[c]
    <3> HIDE DEF h, F, S
    <3>1. Cardinality(D) <= c BY <1>1 DEF c
    <3>2. Rounds(D, F, c, h) BY <2>1, <2>3 DEF Rounds
    <3>3. Grower(D, F) BY <2>2 DEF Grower
    <3> QED BY <1>1, <3>1, <3>2, <3>3, StopsGrowing
  <2>5. h[c] = f[c][n] /\ f[c][n] \in SUBSET D BY <1>1, <1>4
  <2>6. 0 \in S BY <1>1, <1>3
  <2>7. ASSUME NEW k \in Nat, k \in S PROVE k + 1 \in S
    <3> SUFFICES ASSUME k + 1 <= c PROVE deps[n] \subseteq h[k + 1] OBVIOUS
    <3>1. k + 1 \in 1..c /\ (k + 1) - 1 = k /\ k \in 0..c BY <1>1
    <3>2. deps[n] \subseteq h[k] BY <2>7, <3>1
    <3>3. h[k + 1] = F[h[k]] /\ h[k] \in SUBSET D BY <2>1, <2>3, <3>1
    <3> HIDE DEF h, F
    <3> QED BY <2>2, <3>2, <3>3
  <2>8. Nat \subseteq S
    <3> HIDE DEF S
    <3> QED BY <2>6, <2>7, Induction
  <2>9. deps[n] \subseteq h[c]
    <3>1. c \in S BY <1>1, <2>8
    <3> HIDE DEF h
    <3> QED BY <1>1, <3>1
  <2> QED BY <2>4, <2>5, <2>9
<1>6. ASSUME NEW n \in D, NEW X \in SUBSET D, deps[n] \subseteq X, \A m \in X : deps[m] \subseteq X
      PROVE  f[c][n] \subseteq X
  <2> DEFINE S == {k \in Nat : k <= c => f[k][n] \subseteq X}
  <2>1. 0 \in S BY <1>3, <1>6
  <2>2. ASSUME NEW k \in Nat, k \in S PROVE k + 1 \in S
    <3> SUFFICES ASSUME k + 1 <= c PROVE f[k + 1][n] \subseteq X OBVIOUS
    <3>1. k + 1 \in 1..c /\ (k + 1) - 1 = k BY <1>1
    <3>2. f[k][n] \subseteq X BY <1>1, <2>2, <3>1
    <3>3. f[k + 1][n] = Grown(deps, f[k][n]) BY <1>3, <3>1
    <3> QED BY <1>6, <3>2, <3>3 DEF Grown
  <2> HIDE DEF S
  <2>3. Nat \subseteq S BY <2>1, <2>2, Induction
  <2> QED BY <1>1, <2>3 DEF S
<1>7. c \in 0..c BY <1>1
<1>8. \A n \in D : \A m \in f[c][n] : deps[m] \subseteq f[c][n]
  <2> SUFFICES ASSUME NEW n \in D, NEW m \in f[c][n] PROVE deps[m] \subseteq f[c][n] OBVIOUS
  <2>1. m \in D BY <1>4, <1>7
  <2> QED BY <2>1, <1>5 DEF Grown
<1> QED BY <1>2, <1>5, <1>6, <1>7, <1>8 DEF c
-----------------------------------------------------------------------------
(* What `Present` computes: what is filled, and every composed secret whose *)
(* parts are there.                                                         *)
Composed(p, X) == X \cup {n \in NamesOf(p) : Deps(p)[n] # {} /\ Deps(p)[n] \subseteq X}

Rounding(p, stored, f) ==
    [k \in 0..Cardinality(Names) |->
        IF k = 0 THEN Filled(p, stored)
        ELSE f[k - 1] \cup {n \in NamesOf(p) : /\ Deps(p)[n] # {}
                                               /\ Deps(p)[n] \subseteq f[k - 1]}]

(* There are finitely many names.                                           *)
LEMMA NamesAreFew == Cardinality(Names) \in Nat /\ IsFiniteSet(Names)
BY ManifestAssumption, FS_CardinalityType

(* The rounds of `Present` exist and stay within the names of the profile.  *)
LEMMA RoundingIs ==
    ASSUME NEW p, NEW stored
    PROVE  \E f : /\ Rounds(Names, [X \in SUBSET Names |-> Composed(p, X) \cap Names], Cardinality(Names), f)
                  /\ f[0] = Filled(p, stored)
                  /\ \A k \in 0..Cardinality(Names) : f[k] \subseteq NamesOf(p)
                  /\ Present(p, stored) = f[Cardinality(Names)]
<1> DEFINE T == SUBSET NamesOf(p)
           c == Cardinality(Names)
           G == [i \in 1..c |-> [t \in T |-> Composed(p, t)]]
           v == Filled(p, stored)
           round == CHOOSE f : f = Rounding(p, stored, f)
<1>1. c \in Nat BY NamesAreFew
<1>2. \A X \in T : Composed(p, X) \in T BY DEF Composed
<1>3. G \in [1..c -> [T -> T]] BY <1>2
<1>4. v \in T BY DEF Filled
<1>5. PICK f \in [0..c -> T] : Steps(G, v, c, f)
  <2> HIDE DEF G, T, c, v
  <2> QED BY <1>1, <1>3, <1>4, Recursion
<1> HIDE DEF v
<1>6. f = Rounding(p, stored, f)
  <2>1. ASSUME NEW k \in 0..c PROVE f[k] = Rounding(p, stored, f)[k]
    <3>1. CASE k = 0
      <4>1. f[0] = v BY <1>5 DEF Steps
      <4> QED BY <3>1, <4>1, <1>1 DEF Rounding, v
    <3>2. CASE k # 0
      <4>1. k \in 1..c /\ k - 1 \in 0..c BY <1>1, <3>2
      <4>2. f[k] = G[k][f[k - 1]] BY <1>5, <4>1 DEF Steps
      <4>3. f[k - 1] \in T BY <4>1
      <4>4. f[k] = Composed(p, f[k - 1]) BY <4>1, <4>2, <4>3
      <4> QED BY <3>2, <4>1, <4>4 DEF Rounding, Composed
    <3> QED BY <3>1, <3>2
  <2>2. f = [k \in 0..c |-> f[k]] OBVIOUS
  <2>3. Rounding(p, stored, f) = [k \in 0..c |-> Rounding(p, stored, f)[k]] BY DEF Rounding
  <2> QED BY <2>1, <2>2, <2>3
<1>7. round = Rounding(p, stored, round) BY <1>6
<1>8. Present(p, stored) = round[c] BY Zenon DEF Present, Rounding
<1> HIDE DEF round
<1>9. round[0] = v BY <1>1, <1>7 DEF Rounding, v
<1>10. ASSUME NEW k \in 1..c PROVE round[k] = Composed(p, round[k - 1])
  <2>1. k \in 0..c /\ k # 0 BY <1>1
  <2>2. Rounding(p, stored, round)[k] = Composed(p, round[k - 1]) BY <2>1 DEF Rounding, Composed
  <2> QED BY <1>7, <2>2
<1>11. \A k \in 0..c : round[k] \in T
  <2> DEFINE S == {k \in Nat : k <= c => round[k] \in T}
  <2>1. 0 \in S BY <1>4, <1>9
  <2>2. ASSUME NEW k \in Nat, k \in S PROVE k + 1 \in S
    <3> SUFFICES ASSUME k + 1 <= c PROVE round[k + 1] \in T OBVIOUS
    <3>1. k + 1 \in 1..c /\ (k + 1) - 1 = k /\ round[k] \in T BY <1>1, <2>2
    <3>2. round[k + 1] = Composed(p, round[k]) BY <1>10, <3>1
    <3> HIDE DEF T
    <3> QED BY <3>1, <3>2, <1>2
  <2> HIDE DEF S
  <2>3. Nat \subseteq S BY <2>1, <2>2, Induction
  <2> QED BY <1>1, <2>3 DEF S
<1>12. round = [k \in 0..c |-> round[k]] BY <1>7 DEF Rounding
<1>13. NamesOf(p) \subseteq Names BY DEF NamesOf
<1>14. round \in [0..c -> SUBSET Names] BY <1>11, <1>12, <1>13
<1> DEFINE F == [X \in SUBSET Names |-> Composed(p, X) \cap Names]
<1>15. ASSUME NEW k \in 1..c PROVE round[k] = F[round[k - 1]]
  <2>1. k \in 0..c /\ k - 1 \in 0..c BY <1>1
  <2>2. round[k] \in SUBSET Names /\ round[k - 1] \in SUBSET Names BY <1>14, <2>1
  <2>3. F[round[k - 1]] = Composed(p, round[k - 1]) \cap Names BY <2>2
  <2> QED BY <1>10, <2>2, <2>3
<1>16. Rounds(Names, F, c, round)
  <2> HIDE DEF F
  <2> QED BY <1>14, <1>15 DEF Rounds
<1> QED BY <1>8, <1>9, <1>11, <1>16 DEF v

(* `Present` holds what is filled and is closed under composition.          *)
LEMMA PresentIs ==
    ASSUME NEW p, NEW stored
    PROVE  /\ Filled(p, stored) \subseteq Present(p, stored)
           /\ Present(p, stored) \subseteq NamesOf(p)
           /\ \A n \in NamesOf(p) :
                  Deps(p)[n] # {} /\ Deps(p)[n] \subseteq Present(p, stored) => n \in Present(p, stored)
<1> DEFINE c == Cardinality(Names)
           F == [X \in SUBSET Names |-> Composed(p, X) \cap Names]
<1>1. PICK f : /\ Rounds(Names, F, c, f) /\ f[0] = Filled(p, stored)
               /\ \A k \in 0..c : f[k] \subseteq NamesOf(p)
               /\ Present(p, stored) = f[c]
  BY RoundingIs, Zenon
<1>2. c \in Nat /\ IsFiniteSet(Names) BY NamesAreFew
<1>3. Grower(Names, F) BY DEF Grower, Composed
<1>4. F[f[c]] = f[c]
  <2> HIDE DEF F
  <2>1. Cardinality(Names) <= c BY <1>2
  <2> HIDE DEF c
  <2> QED BY <1>1, <1>2, <1>3, <2>1, StopsGrowing
<1>5. f[c] \in SUBSET Names BY <1>1, <1>2 DEF Rounds
<1>6. NamesOf(p) \subseteq Names BY DEF NamesOf
<1>7. \A n \in NamesOf(p) : Deps(p)[n] # {} /\ Deps(p)[n] \subseteq f[c] => n \in f[c]
  BY <1>4, <1>5, <1>6 DEF Composed
<1>8. \A k \in 1..c : f[k - 1] \subseteq f[k]
  <2> SUFFICES ASSUME NEW k \in 1..c PROVE f[k - 1] \subseteq f[k] OBVIOUS
  <2>1. k - 1 \in 0..c BY <1>2
  <2> HIDE DEF F
  <2>2. f[k] = F[f[k - 1]] /\ f[k - 1] \in SUBSET Names BY <1>1, <2>1 DEF Rounds
  <2> QED BY <2>2, <1>3 DEF Grower
<1> HIDE DEF F, c
<1>9. f[0] \subseteq f[c]
  <2> DEFINE S == {k \in Nat : k <= c => f[0] \subseteq f[k]}
  <2>1. 0 \in S OBVIOUS
  <2>2. ASSUME NEW k \in Nat, k \in S PROVE k + 1 \in S
    <3> SUFFICES ASSUME k + 1 <= c PROVE f[0] \subseteq f[k + 1] OBVIOUS
    <3>1. k + 1 \in 1..c /\ (k + 1) - 1 = k BY <1>2
    <3>2. f[0] \subseteq f[k] BY <1>2, <2>2
    <3>3. f[k] \subseteq f[k + 1] BY <1>8, <3>1
    <3> QED BY <3>2, <3>3
  <2> HIDE DEF S
  <2>3. Nat \subseteq S BY <2>1, <2>2, Induction
  <2> QED BY <1>2, <2>3 DEF S
<1>10. c \in 0..c BY <1>2
<1> QED BY <1>1, <1>7, <1>9, <1>10

(* With all else stored, an acyclic composition lacks nothing: what it      *)
(* lacked would lack a part, and so on around a cycle.                      *)
LEMMA AcceptedIsPresent ==
    ASSUME NEW p, ValidGraph(p)
    PROVE  Present(p, Names) = NamesOf(p)
<1> DEFINE D == NamesOf(p)
           R == Reached(Deps(p))
           P == Present(p, Names)
           L == D \ P
<1>1. D \subseteq Names BY DEF NamesOf
<1>2. IsFiniteSet(D) BY <1>1, NamesAreFew, FS_Subset
<1>3. Deps(p) \in [D -> SUBSET D] BY DEF ValidGraph, Deps
<1>4. /\ R \in [D -> SUBSET D]
      /\ \A n \in D : Deps(p)[n] \subseteq R[n]
      /\ \A n \in D : \A m \in R[n] : Deps(p)[m] \subseteq R[n]
      /\ \A n \in D : \A X \in SUBSET D :
             Deps(p)[n] \subseteq X /\ (\A m \in X : Deps(p)[m] \subseteq X) => R[n] \subseteq X
  <2> HIDE DEF D
  <2> QED BY <1>2, <1>3, ReachedIs
<1>5. \A n \in D : n \notin R[n] BY DEF ValidGraph, Acyclic
<1>6. P \subseteq D /\ Filled(p, Names) \subseteq P
      /\ \A n \in D : Deps(p)[n] # {} /\ Deps(p)[n] \subseteq P => n \in P
  BY PresentIs
<1>7. ASSUME NEW n \in D, Deps(p)[n] = {} PROVE n \in P
  BY <1>1, <1>6, <1>7 DEF Filled
<1> HIDE DEF D, R, P
<1>8. ASSUME NEW n \in L PROVE \E m \in L : m \in R[n] /\ Cardinality(R[m]) < Cardinality(R[n])
  <2>1. n \in D /\ n \notin P OBVIOUS
  <2>2. PICK m \in Deps(p)[n] : m \notin P BY <1>6, <1>7, <2>1
  <2>3. m \in D /\ m \in R[n] BY <1>3, <1>4, <2>1, <2>2
  <2>4. Deps(p)[m] \subseteq R[n] /\ R[n] \in SUBSET D BY <1>4, <2>1, <2>3
  <2>5. R[m] \subseteq R[n] BY <1>4, <2>1, <2>3, <2>4
  <2>6. m \notin R[m] BY <1>5, <2>3
  <2>7. IsFiniteSet(R[n]) BY <1>2, <2>4, FS_Subset
  <2>8. R[m] \in SUBSET R[n] BY <2>5
  <2>9. Cardinality(R[m]) <= Cardinality(R[n]) /\ (Cardinality(R[n]) = Cardinality(R[m]) => R[n] = R[m])
        /\ IsFiniteSet(R[m])
    BY <2>7, <2>8, FS_Subset
  <2>10. Cardinality(R[m]) \in Nat /\ Cardinality(R[n]) \in Nat BY <2>7, <2>9, FS_CardinalityType
  <2> QED BY <2>2, <2>3, <2>6, <2>9, <2>10
<1>9. L = {}
  <2> SUFFICES ASSUME L # {} PROVE FALSE OBVIOUS
  <2> DEFINE T == {Cardinality(R[n]) : n \in L}
  <2>1. T \subseteq Nat
    <3>1. ASSUME NEW n \in L PROVE Cardinality(R[n]) \in Nat
      <4>1. R[n] \in SUBSET D BY <1>4
      <4>2. IsFiniteSet(R[n]) BY <1>2, <4>1, FS_Subset
      <4> QED BY <4>2, FS_CardinalityType
    <3> QED BY <3>1
  <2>2. T # {} OBVIOUS
  <2>3. PICK k \in T : \A j \in T : k <= j
    <3> HIDE DEF T
    <3> QED BY <2>1, <2>2, Least
  <2>4. PICK n \in L : k = Cardinality(R[n]) BY <2>3
  <2>5. PICK m \in L : Cardinality(R[m]) < Cardinality(R[n]) BY <1>8
  <2>6. Cardinality(R[m]) \in T /\ Cardinality(R[n]) \in T OBVIOUS
  <2>7. Cardinality(R[n]) <= Cardinality(R[m]) BY <2>3, <2>4, <2>6
  <2> QED BY <2>1, <2>5, <2>6, <2>7
<1> QED BY <1>6, <1>9 DEF D, P
-----------------------------------------------------------------------------
(* The inductive invariant.  The visits in progress lead from the root      *)
(* along `extends`; what a document of them extends was emitted, is still   *)
(* to be looked at, or is the visit after it.                               *)
Visit  == [doc : Docs, parents : Seq(Docs \cup {Unset})]
Loaded == {"merge", "validate", "invalid", "ready", "used"}
Reachable == Above[Root] \cup {Root}

LoadTypes ==
    /\ world \in Worlds /\ phase \in Phases
    /\ stack \in Seq(Visit) /\ documents \in Seq(Docs)
    /\ merged \in Document \cup {Unset}
    /\ use.got \subseteq Names

PathOf(s, em) ==
    /\ s # <<>> => s[1].doc = Root
    /\ \A i \in DOMAIN s : s[i].doc \in Reachable /\ s[i].doc \notin em
    /\ \A i, j \in DOMAIN s : i < j => s[j].doc \in Above[s[i].doc] /\ s[i].doc # s[j].doc
    /\ \A i \in DOMAIN s :
           Parents(s[i].doc) \subseteq em \cup ToSet(s[i].parents)
                                       \cup {s[j].doc : j \in DOMAIN s \cap {i + 1}}
    /\ \A i \in DOMAIN s : ToSet(s[i].parents) \ {Unset} \subseteq Parents(s[i].doc)

(* Every document is emitted once, after all it extends.                    *)
OrderOf(ds) ==
    /\ \A i \in DOMAIN ds : /\ ds[i] \in Reachable
                            /\ Parents(ds[i]) \subseteq {ds[j] : j \in 1..(i - 1)}
    /\ \A i, j \in DOMAIN ds : ds[i] = ds[j] => i = j

Visited ==
    /\ PathOf(stack, Emitted) /\ OrderOf(documents)
    /\ phase = "visit" => stack # <<>>
    /\ phase \in Loaded => Root \in Emitted
    /\ phase = "circular" => \E d \in Reachable : d \in Above[d]

(* What the documents overlay to, and what its types promise.               *)
Typed ==
    /\ phase \in {"validate", "invalid", "ready", "used"} => merged = Overlaid
    /\ phase \in {"ready", "used"} =>
           /\ Valid
           /\ types = [union    |-> UnionMandatory,
                       profiles |-> [p \in {q \in Profiles : Declares(q)} |-> Mandatory(p)]]

ManifestInv == LoadTypes /\ Visited /\ Typed /\ LoadsFit
-----------------------------------------------------------------------------
(* Sequences: without the last element and with others behind, and as many  *)
(* elements as places where no two are equal.                               *)
LEMMA WithoutLast ==
    ASSUME NEW T, NEW s \in Seq(T), s # <<>>
    PROVE  /\ Front(s) \in Seq(T) /\ Len(Front(s)) = Len(s) - 1
           /\ \A i \in 1..(Len(s) - 1) : Front(s)[i] = s[i]
<1>1. Len(s) \in Nat /\ Len(s) > 0 /\ \A i \in 1..(Len(s) - 1) : s[i] \in T OBVIOUS
<1>2. Len(s) - 1 \in Int /\ 1 \in Int BY <1>1
<1>3. /\ SubSeq(s, 1, Len(s) - 1) \in Seq(T)
      /\ Len(SubSeq(s, 1, Len(s) - 1)) = IF 1 <= Len(s) - 1 THEN (Len(s) - 1) - 1 + 1 ELSE 0
      /\ \A i \in 1..((Len(s) - 1) - 1 + 1) : SubSeq(s, 1, Len(s) - 1)[i] = s[1 + i - 1]
  BY <1>1, <1>2, SubSeqProperties
<1>4. (Len(s) - 1) - 1 + 1 = Len(s) - 1 /\ \A i \in 1..(Len(s) - 1) : 1 + i - 1 = i BY <1>1
<1>5. Len(SubSeq(s, 1, Len(s) - 1)) = Len(s) - 1 BY <1>1, <1>3, <1>4
<1>6. \A i \in 1..(Len(s) - 1) : SubSeq(s, 1, Len(s) - 1)[i] = s[i] BY <1>3, <1>4
<1>7. Front(s) = SubSeq(s, 1, Len(s) - 1) BY DEF Front
<1> QED BY <1>3, <1>5, <1>6, <1>7, Zenon

(* A sequence with its last element replaced by others.                     *)
LEMMA Behind ==
    ASSUME NEW T, NEW s \in Seq(T), s # <<>>, NEW t \in Seq(T)
    PROVE  /\ Front(s) \o t \in Seq(T)
           /\ Len(Front(s) \o t) = Len(s) - 1 + Len(t)
           /\ \A i \in 1..(Len(s) - 1) : (Front(s) \o t)[i] = s[i]
           /\ \A i \in 1..Len(t) : (Front(s) \o t)[Len(s) - 1 + i] = t[i]
<1>1. Len(s) \in Nat /\ Len(s) > 0 /\ Len(t) \in Nat OBVIOUS
<1>2. /\ Front(s) \in Seq(T) /\ Len(Front(s)) = Len(s) - 1
      /\ \A i \in 1..(Len(s) - 1) : Front(s)[i] = s[i]
  BY WithoutLast
<1> HIDE DEF Front
<1>3. /\ Front(s) \o t \in Seq(T) /\ Len(Front(s) \o t) = Len(s) - 1 + Len(t)
      /\ \A i \in 1..(Len(s) - 1 + Len(t)) : (Front(s) \o t)[i] =
            IF i <= Len(s) - 1 THEN Front(s)[i] ELSE t[i - (Len(s) - 1)]
  <2>1. /\ Front(s) \o t \in Seq(T) /\ Len(Front(s) \o t) = Len(Front(s)) + Len(t)
        /\ \A i \in 1..(Len(Front(s)) + Len(t)) : (Front(s) \o t)[i] =
              IF i <= Len(Front(s)) THEN Front(s)[i] ELSE t[i - Len(Front(s))]
    BY <1>2, ConcatProperties
  <2> QED BY <1>2, <2>1, Zenon
<1>4. \A i \in 1..(Len(s) - 1) : (Front(s) \o t)[i] = s[i] BY <1>1, <1>2, <1>3
<1>5. \A i \in 1..Len(t) : (Front(s) \o t)[Len(s) - 1 + i] = t[i] BY <1>1, <1>3
<1> QED BY <1>3, <1>4, <1>5

(* A sequence without repetition is as long as the set of its elements.     *)
LEMMA CountedOnce ==
    ASSUME NEW T, NEW s \in Seq(T), \A i, j \in DOMAIN s : s[i] = s[j] => i = j
    PROVE  Cardinality(ToSet(s)) = Len(s)
<1>1. DOMAIN s = 1..Len(s) /\ Len(s) \in Nat OBVIOUS
<1>2. s \in [1..Len(s) -> ToSet(s)] BY <1>1 DEF ToSet
<1>3. s \in Bijection(1..Len(s), ToSet(s))
  BY <1>1, <1>2 DEF Bijection, Injection, Surjection, IsInjective, ToSet
<1>4. ExistsBijection(1..Len(s), ToSet(s)) BY <1>3 DEF ExistsBijection
<1> QED BY <1>1, <1>4, FS_CountingElements

(* What a document extends, and what lies above it.                         *)
LEMMA WorldsAre ==
    ASSUME world \in Worlds
    PROVE  /\ world.text \in [Docs -> Document]
           /\ \A d \in Docs : world.extends[d] \in Seq(Docs \cup {Unset})
BY ManifestAssumption

(* What a document extends are documents.                                   *)
LEMMA ParentsAre ==
    ASSUME world \in Worlds, NEW d \in Docs
    PROVE  /\ Parents(d) \subseteq Docs
           /\ ToSet(world.extends[d]) \ {Unset} = Parents(d)
<1>1. world.extends[d] \in Seq(Docs \cup {Unset}) BY WorldsAre
<1>2. ToSet(world.extends[d]) \subseteq Docs \cup {Unset} BY <1>1 DEF ToSet
<1> QED BY <1>2 DEF Parents

(* The documents above one: closed under `extends`, and the least such set. *)
LEMMA AboveIs ==
    ASSUME world \in Worlds
    PROVE  /\ \A d \in Docs : Above[d] \subseteq Docs
           /\ \A d \in Docs : Parents(d) \subseteq Above[d]
           /\ \A d \in Docs : \A e \in Above[d] : Parents(e) \subseteq Above[d]
           /\ \A d \in Docs : \A X \in SUBSET Docs :
                  Parents(d) \subseteq X /\ (\A e \in X : Parents(e) \subseteq X) => Above[d] \subseteq X
<1> DEFINE f == [d \in Docs |-> Parents(d)]
<1>1. f \in [Docs -> SUBSET Docs] BY ParentsAre
<1>2. \A d \in Docs : f[d] = Parents(d) OBVIOUS
<1>3. IsFiniteSet(Docs) BY ManifestAssumption
<1>4. Above = Reached(f) BY DEF Above
<1> HIDE DEF f
<1>5. /\ Reached(f) \in [Docs -> SUBSET Docs]
      /\ \A d \in Docs : f[d] \subseteq Reached(f)[d]
      /\ \A d \in Docs : \A e \in Reached(f)[d] : f[e] \subseteq Reached(f)[d]
      /\ \A d \in Docs : \A X \in SUBSET Docs :
             f[d] \subseteq X /\ (\A e \in X : f[e] \subseteq X) => Reached(f)[d] \subseteq X
  BY <1>1, <1>3, ReachedIs
<1>6. \A d \in Docs : Above[d] \subseteq Docs BY <1>4, <1>5
<1>7. \A d \in Docs : Parents(d) \subseteq Above[d] BY <1>2, <1>4, <1>5
<1>8. \A d \in Docs : \A e \in Above[d] : Parents(e) \subseteq Above[d] BY <1>2, <1>4, <1>5, <1>6
<1>9. ASSUME NEW d \in Docs, NEW X \in SUBSET Docs, Parents(d) \subseteq X,
             \A e \in X : Parents(e) \subseteq X
      PROVE  Above[d] \subseteq X
  <2>1. f[d] \subseteq X /\ \A e \in X : f[e] \subseteq X BY <1>2, <1>9
  <2> QED BY <1>4, <1>5, <2>1
<1> QED BY <1>6, <1>7, <1>8, <1>9

(* What the root leads to, itself among it, is closed under `extends`.      *)
LEMMA ReachableIs ==
    ASSUME world \in Worlds
    PROVE  /\ Root \in Reachable /\ Reachable \subseteq Docs
           /\ \A d \in Reachable : Parents(d) \subseteq Reachable /\ Above[d] \subseteq Reachable
<1>1. Root \in Docs BY ManifestAssumption
<1>2. Reachable \subseteq Docs BY <1>1, AboveIs DEF Reachable
<1>3. \A d \in Reachable : Parents(d) \subseteq Reachable BY <1>1, AboveIs DEF Reachable
<1>4. ASSUME NEW d \in Reachable PROVE Above[d] \subseteq Reachable
  <2>1. d \in Docs /\ Reachable \in SUBSET Docs BY <1>2
  <2>2. Parents(d) \subseteq Reachable BY <1>3
  <2> QED BY <2>1, <2>2, <1>3, AboveIs
<1> QED BY <1>1, <1>2, <1>3, <1>4 DEF Reachable
-----------------------------------------------------------------------------
(* The visits.  Nothing of them changes the files.                          *)
LEMMA SameGraph ==
    ASSUME world' = world
    PROVE  Above' = Above /\ Reachable' = Reachable /\ \A d : Parents(d)' = Parents(d)
<1>1. \A d : Parents(d)' = Parents(d) BY DEF Parents
<1>2. Above' = Above BY Zenon DEF Above, Parents
<1> QED BY <1>1, <1>2 DEF Reachable

(* The part of the invariant about visits, after a step that keeps the      *)
(* files.                                                                   *)
LEMMA VisitedOn ==
    ASSUME world' = world, PathOf(stack', ToSet(documents')), OrderOf(documents'),
           phase' = "visit" => stack' # <<>>,
           phase' \in Loaded => Root \in ToSet(documents'),
           phase' = "circular" => \E d \in Reachable : d \in Above[d]
    PROVE  Visited'
BY SameGraph DEF Visited, PathOf, OrderOf, Emitted

(* A step that visits nothing keeps it.                                     *)
LEMMA NothingVisited ==
    ASSUME ManifestInv, UNCHANGED <<world, stack, documents>>,
           phase' = "visit" => phase = "visit", phase' \in Loaded => phase \in Loaded,
           phase' = "circular" => phase = "circular"
    PROVE  Visited'
<1>1. PathOf(stack', ToSet(documents')) /\ OrderOf(documents')
  BY DEF ManifestInv, Visited, Emitted
<1> QED BY <1>1, VisitedOn DEF ManifestInv, Visited, Emitted

(* The last visit looks at the next document it extends: the path that is   *)
(* left has a shorter list at its end.                                      *)
Shortened(top) == [top EXCEPT !.parents = Tail(top.parents)]

(* What is left to look at, once the next document is.                      *)
LEMMA ShortenedIs ==
    ASSUME NEW top \in Visit, top.parents # <<>>
    PROVE  /\ Shortened(top) \in Visit /\ Shortened(top).doc = top.doc
           /\ Head(top.parents) \in Docs \cup {Unset}
           /\ ToSet(top.parents) = {Head(top.parents)} \cup ToSet(Shortened(top).parents)
<1>1. top.parents \in Seq(Docs \cup {Unset}) BY DEF Visit
<1>2. /\ Head(top.parents) \in Docs \cup {Unset} /\ Head(top.parents) = top.parents[1]
      /\ Tail(top.parents) \in Seq(Docs \cup {Unset})
      /\ Len(Tail(top.parents)) = Len(top.parents) - 1
      /\ \A i \in 1..Len(Tail(top.parents)) : Tail(top.parents)[i] = top.parents[i + 1]
  BY <1>1, HeadTailProperties
<1>3. /\ Shortened(top).parents = Tail(top.parents) /\ Shortened(top).doc = top.doc
      /\ Shortened(top) \in Visit
  BY <1>2 DEF Shortened, Visit
<1>4. ASSUME NEW i \in 1..Len(top.parents), i # 1
      PROVE  i - 1 \in 1..Len(Tail(top.parents)) /\ Tail(top.parents)[i - 1] = top.parents[i]
  BY <1>1, <1>2, <1>4
<1>5. Len(top.parents) \in Nat /\ Len(top.parents) > 0 BY <1>1
<1>6. ToSet(top.parents) = {top.parents[1]} \cup ToSet(Tail(top.parents))
  <2>1. DOMAIN top.parents = 1..Len(top.parents) /\ DOMAIN Tail(top.parents) = 1..Len(Tail(top.parents))
    BY <1>1, <1>2
  <2>2. ASSUME NEW x \in ToSet(top.parents) PROVE x \in {top.parents[1]} \cup ToSet(Tail(top.parents))
    <3>1. PICK i \in 1..Len(top.parents) : x = top.parents[i] BY <2>1 DEF ToSet
    <3> QED BY <3>1, <1>4, <2>1 DEF ToSet
  <2>3. ASSUME NEW x \in ToSet(Tail(top.parents)) PROVE x \in ToSet(top.parents)
    <3>1. PICK i \in 1..Len(Tail(top.parents)) : x = Tail(top.parents)[i] BY <2>1 DEF ToSet
    <3>2. i + 1 \in 1..Len(top.parents) /\ x = top.parents[i + 1] BY <3>1, <1>2, <1>5
    <3> QED BY <3>2, <2>1 DEF ToSet
  <2>4. top.parents[1] \in ToSet(top.parents) BY <1>5, <2>1 DEF ToSet
  <2> QED BY <2>2, <2>3, <2>4
<1> QED BY <1>2, <1>3, <1>6

(* A document that was emitted before is passed over.                       *)
LEMMA SkipKeeps ==
    ASSUME ManifestInv, NEW s, stack # <<>>, Last(stack).parents # <<>>,
           Head(Last(stack).parents) \in Emitted,
           s = Front(stack) \o <<Shortened(Last(stack))>>
    PROVE  s \in Seq(Visit) /\ s # <<>> /\ PathOf(s, Emitted)
<1> DEFINE m == Len(stack)
           top == stack[m]
           rest == Shortened(top)
<1>1. stack \in Seq(Visit) BY DEF ManifestInv, LoadTypes
<1>2. m \in Nat /\ m > 0 /\ m \in DOMAIN stack /\ DOMAIN stack = 1..m /\ top \in Visit BY <1>1
<1>3. Last(stack) = top BY DEF Last
<1>4. /\ rest \in Visit /\ rest.doc = top.doc
      /\ ToSet(top.parents) = {Head(top.parents)} \cup ToSet(rest.parents)
  BY <1>2, <1>3, ShortenedIs
<1>5. Head(top.parents) \in Emitted BY <1>3
<1> HIDE DEF rest
<1>6. <<rest>> \in Seq(Visit) /\ Len(<<rest>>) = 1 /\ <<rest>>[1] = rest BY <1>4
<1>7. s = Front(stack) \o <<rest>> BY <1>3 DEF rest
<1>8. /\ s \in Seq(Visit) /\ Len(s) = m - 1 + 1
      /\ \A i \in 1..(m - 1) : s[i] = stack[i]
      /\ \A i \in 1..1 : s[m - 1 + i] = <<rest>>[i]
  BY <1>1, <1>6, <1>7, Behind
<1> HIDE DEF m, top
<1>9. Len(s) = m /\ DOMAIN s = 1..m /\ s[m] = rest BY <1>2, <1>6, <1>8
<1>10. \A i \in 1..m : i # m => s[i] = stack[i] BY <1>2, <1>8
<1>11. \A i \in 1..m : s[i].doc = stack[i].doc BY <1>4, <1>9, <1>10 DEF top
<1>12. PathOf(stack, Emitted) BY DEF ManifestInv, Visited
<1>13. s # <<>> => s[1].doc = Root BY <1>2, <1>11, <1>12 DEF PathOf
<1>14. \A i \in DOMAIN s : s[i].doc \in Reachable /\ s[i].doc \notin Emitted
  BY <1>2, <1>9, <1>11, <1>12 DEF PathOf
<1>15. \A i, j \in DOMAIN s : i < j => s[j].doc \in Above[s[i].doc] /\ s[i].doc # s[j].doc
  BY <1>2, <1>9, <1>11, <1>12 DEF PathOf
<1>16. ASSUME NEW i \in DOMAIN s
       PROVE  Parents(s[i].doc) \subseteq Emitted \cup ToSet(s[i].parents)
                                       \cup {s[j].doc : j \in DOMAIN s \cap {i + 1}}
  <2>1. Parents(stack[i].doc) \subseteq Emitted \cup ToSet(stack[i].parents)
                                       \cup {stack[j].doc : j \in DOMAIN stack \cap {i + 1}}
    BY <1>2, <1>9, <1>12 DEF PathOf
  <2>2. {s[j].doc : j \in DOMAIN s \cap {i + 1}} = {stack[j].doc : j \in DOMAIN stack \cap {i + 1}}
    BY <1>2, <1>9, <1>11
  <2>3. Emitted \cup ToSet(stack[i].parents) = Emitted \cup ToSet(s[i].parents)
    <3>1. CASE i = m BY <3>1, <1>4, <1>5, <1>9 DEF top
    <3>2. CASE i # m BY <3>2, <1>9, <1>10
    <3> QED BY <3>1, <3>2
  <2> QED BY <1>9, <1>11, <2>1, <2>2, <2>3
<1>17. ASSUME NEW i \in DOMAIN s PROVE ToSet(s[i].parents) \ {Unset} \subseteq Parents(s[i].doc)
  <2>1. ToSet(stack[i].parents) \ {Unset} \subseteq Parents(stack[i].doc)
    BY <1>2, <1>9, <1>12 DEF PathOf
  <2>2. ToSet(s[i].parents) \subseteq ToSet(stack[i].parents)
    <3>1. CASE i = m BY <3>1, <1>4, <1>9 DEF top
    <3>2. CASE i # m BY <3>2, <1>9, <1>10
    <3> QED BY <3>1, <3>2
  <2> QED BY <1>9, <1>11, <2>1, <2>2
<1>18. s # <<>> BY <1>2, <1>9
<1> QED BY <1>8, <1>13, <1>14, <1>15, <1>16, <1>17, <1>18 DEF PathOf
Follows(u, s, a, b) ==
    /\ Len(u) = Len(s) + 1
    /\ \A i \in 1..(Len(s) - 1) : u[i] = s[i]
    /\ u[Len(s)] = a
    /\ u[Len(s) + 1] = b

(* A path that goes on from its end: one element changed and one more.      *)
LEMMA FollowsIs ==
    ASSUME NEW T, NEW s \in Seq(T), s # <<>>, NEW a \in T, NEW b \in T
    PROVE  Front(s) \o <<a, b>> \in Seq(T) /\ Follows(Front(s) \o <<a, b>>, s, a, b)
<1> DEFINE f == Front(s)
           n == Len(s)
<1>1. n \in Nat /\ n > 0 OBVIOUS
<1>2. f \in Seq(T) /\ Len(f) = n - 1 /\ \A i \in 1..(n - 1) : f[i] = s[i]
  BY WithoutLast
<1> HIDE DEF f, n
<1>4. /\ f \o <<a, b>> \in Seq(T) /\ Len(f \o <<a, b>>) = n + 1
      /\ \A i \in 1..Len(f) : (f \o <<a, b>>)[i] = f[i]
      /\ (f \o <<a, b>>)[n] = a /\ (f \o <<a, b>>)[n + 1] = b
  <2>1. f \in Seq(T) /\ n = Len(f) + 1 BY <1>1, <1>2
  <2> QED BY <2>1
<1>5. Follows(f \o <<a, b>>, s, a, b) BY <1>2, <1>4 DEF Follows, n
<1> QED BY <1>4, <1>5 DEF f

(* Another is visited, from the end of the path.                            *)
LEMMA DescendKeeps ==
    ASSUME ManifestInv, NEW s, stack # <<>>, Last(stack).parents # <<>>,
           NEW d, d = Head(Last(stack).parents), d # Unset, d \notin Emitted, d \notin Active,
           s = Front(stack) \o <<Shortened(Last(stack)), [doc |-> d, parents |-> world.extends[d]]>>
    PROVE  s \in Seq(Visit) /\ s # <<>> /\ PathOf(s, Emitted)
<1> DEFINE m == Len(stack)
           top == stack[m]
           rest == Shortened(top)
           new == [doc |-> d, parents |-> world.extends[d]]
<1>1. stack \in Seq(Visit) /\ world \in Worlds BY DEF ManifestInv, LoadTypes
<1>2. m \in Nat /\ m > 0 /\ m \in DOMAIN stack /\ DOMAIN stack = 1..m /\ top \in Visit BY <1>1
<1>3. Last(stack) = top BY DEF Last
<1>4. /\ rest \in Visit /\ rest.doc = top.doc /\ d \in Docs
      /\ ToSet(top.parents) = {d} \cup ToSet(rest.parents)
  BY <1>2, <1>3, ShortenedIs
<1>5. new \in Visit /\ new.doc = d /\ new.parents = world.extends[d]
  BY <1>1, <1>4, WorldsAre DEF Visit
<1>s. s = Front(stack) \o <<rest, new>> BY <1>3
<1> HIDE DEF rest, new
<1>8. /\ s \in Seq(Visit) /\ Len(s) = m + 1
      /\ \A i \in 1..(m - 1) : s[i] = stack[i]
      /\ s[m] = rest /\ s[m + 1] = new
  <2>1. stack \in Seq(Visit) /\ rest \in Visit /\ new \in Visit BY <1>1, <1>4, <1>5
  <2>2. /\ Front(stack) \o <<rest, new>> \in Seq(Visit)
        /\ Follows(Front(stack) \o <<rest, new>>, stack, rest, new)
    BY <2>1, FollowsIs, Zenon
  <2>3. s \in Seq(Visit) /\ Follows(s, stack, rest, new) BY <1>s, <2>2, Zenon
  <2> QED BY <2>3 DEF Follows
<1>p. PathOf(stack, Emitted) BY DEF ManifestInv, Visited
<1>t. d \in Parents(top.doc) /\ top.doc \in Docs
  <2>1. ToSet(top.parents) \ {Unset} \subseteq Parents(top.doc) BY <1>2, <1>p DEF PathOf
  <2> QED BY <2>1, <1>2, <1>4 DEF Visit
<1>a. \A i \in 1..m : stack[i].doc # d BY <1>2 DEF Active
<1> HIDE DEF m, top
<1>9. Len(s) = m + 1 /\ DOMAIN s = 1..(m + 1) /\ s[m] = rest /\ s[m + 1] = new
  <2>1. DOMAIN s = 1..Len(s) BY <1>8
  <2> QED BY <1>8, <2>1
<1>10. \A i \in 1..m : i # m => s[i] = stack[i] BY <1>2, <1>8
<1>11. \A i \in 1..m : s[i].doc = stack[i].doc BY <1>4, <1>9, <1>10 DEF top
<1>12. /\ \A i \in 1..m : stack[i].doc \in Reachable /\ stack[i].doc \notin Emitted
       /\ \A i, j \in 1..m : i < j => stack[j].doc \in Above[stack[i].doc] /\ stack[i].doc # stack[j].doc
       /\ stack[1].doc = Root
  BY <1>2, <1>p DEF PathOf
<1>13. s # <<>> => s[1].doc = Root BY <1>2, <1>11, <1>12
<1>r. top.doc \in Reachable BY <1>2, <1>12 DEF top
<1>14. \A i \in DOMAIN s : s[i].doc \in Reachable /\ s[i].doc \notin Emitted
  <2>1. d \in Reachable BY <1>1, <1>r, <1>t, ReachableIs
  <2> QED BY <1>2, <1>5, <1>9, <1>11, <1>12, <2>1
<1>15. ASSUME NEW i \in DOMAIN s, NEW j \in DOMAIN s, i < j
       PROVE  s[j].doc \in Above[s[i].doc] /\ s[i].doc # s[j].doc
  <2>1. CASE j # m + 1
    <3>1. i \in 1..m /\ j \in 1..m BY <1>2, <1>9, <1>15, <2>1
    <3> QED BY <1>11, <1>12, <1>15, <3>1
  <2>2. CASE j = m + 1
    <3>1. i \in 1..m BY <1>2, <1>9, <1>15, <2>2
    <3>2. stack[i].doc \in Docs BY <1>1, <1>12, <3>1, ReachableIs
    <3>3. d \in Above[stack[i].doc]
      <4>1. CASE i = m BY <4>1, <1>1, <1>t, AboveIs DEF top
      <4>2. CASE i # m
        <5>1. top.doc \in Above[stack[i].doc] BY <1>2, <1>12, <3>1, <4>2 DEF top
        <5> QED BY <1>1, <1>t, <3>2, <5>1, AboveIs
      <4> QED BY <4>1, <4>2
    <3> QED BY <1>5, <1>9, <1>11, <1>a, <2>2, <3>1, <3>3
  <2> QED BY <2>1, <2>2
<1>16. ASSUME NEW i \in DOMAIN s
       PROVE  Parents(s[i].doc) \subseteq Emitted \cup ToSet(s[i].parents)
                                       \cup {s[j].doc : j \in DOMAIN s \cap {i + 1}}
  <2>1. CASE i = m + 1
    <3>1. Parents(d) \subseteq ToSet(world.extends[d]) BY <1>1, <1>4, ParentsAre
    <3> QED BY <1>5, <1>9, <2>1, <3>1
  <2>2. CASE i = m
    <3>1. Parents(top.doc) \subseteq Emitted \cup ToSet(top.parents)
             \cup {stack[j].doc : j \in DOMAIN stack \cap {m + 1}}
      BY <1>2, <1>p DEF PathOf, top
    <3>2. {stack[j].doc : j \in DOMAIN stack \cap {m + 1}} = {} BY <1>2
    <3>3. d \in {s[j].doc : j \in DOMAIN s \cap {m + 1}} BY <1>2, <1>5, <1>9
    <3>4. Parents(top.doc) \subseteq Emitted \cup {d} \cup ToSet(rest.parents) BY <1>4, <3>1, <3>2
    <3>5. s[m].doc = top.doc BY <1>4, <1>9
    <3> QED BY <1>9, <2>2, <3>3, <3>4, <3>5
  <2>3. CASE i \in 1..(m - 1)
    <3>1. i \in 1..m /\ i # m /\ i + 1 \in 1..m /\ i + 1 \in 1..(m + 1) BY <1>2, <2>3
    <3>2. Parents(stack[i].doc) \subseteq Emitted \cup ToSet(stack[i].parents)
             \cup {stack[j].doc : j \in DOMAIN stack \cap {i + 1}}
      BY <1>2, <1>p, <3>1 DEF PathOf
    <3>3. {stack[j].doc : j \in DOMAIN stack \cap {i + 1}} = {s[j].doc : j \in DOMAIN s \cap {i + 1}}
      BY <1>2, <1>9, <1>11, <3>1
    <3> QED BY <1>10, <3>1, <3>2, <3>3
  <2>4. i = m + 1 \/ i = m \/ i \in 1..(m - 1)
    <3>1. i \in 1..(m + 1) /\ m \in Nat BY <1>2, <1>9
    <3> QED BY <3>1
  <2> QED BY <2>1, <2>2, <2>3, <2>4
<1>17. ASSUME NEW i \in DOMAIN s PROVE ToSet(s[i].parents) \ {Unset} \subseteq Parents(s[i].doc)
  <2>1. CASE i = m + 1
    <3>1. ToSet(world.extends[d]) \ {Unset} = Parents(d) BY <1>1, <1>4, ParentsAre
    <3> QED BY <1>5, <1>9, <2>1, <3>1
  <2>2. CASE i \in 1..m
    <3>1. ToSet(stack[i].parents) \ {Unset} \subseteq Parents(stack[i].doc)
      BY <1>2, <1>p, <2>2 DEF PathOf
    <3>2. ToSet(s[i].parents) \subseteq ToSet(stack[i].parents)
      <4>1. CASE i = m BY <4>1, <1>4, <1>9 DEF top
      <4>2. CASE i # m BY <4>2, <2>2, <1>10
      <4> QED BY <4>1, <4>2
    <3> QED BY <1>11, <2>2, <3>1, <3>2
  <2>4. i = m + 1 \/ i \in 1..m BY <1>2, <1>9
  <2> QED BY <2>1, <2>2, <2>4
<1>18. s # <<>> BY <1>2, <1>9
<1> QED BY <1>8, <1>13, <1>14, <1>15, <1>16, <1>17, <1>18 DEF PathOf

(* A document that is visited and extended by what it extends lies on a     *)
(* cycle.                                                                   *)
LEMMA ClosesCycle ==
    ASSUME ManifestInv, stack # <<>>, Last(stack).parents # <<>>,
           NEW d, d = Head(Last(stack).parents), d # Unset, d \in Active
    PROVE  d \in Reachable /\ d \in Above[d]
<1> DEFINE m == Len(stack)
           top == stack[m]
<1>1. stack \in Seq(Visit) /\ world \in Worlds BY DEF ManifestInv, LoadTypes
<1>2. m \in Nat /\ m > 0 /\ m \in DOMAIN stack /\ DOMAIN stack = 1..m /\ top \in Visit BY <1>1
<1>3. Last(stack) = top BY DEF Last
<1>4. d \in ToSet(top.parents) BY <1>2, <1>3, ShortenedIs
<1>5. PathOf(stack, Emitted) BY DEF ManifestInv, Visited
<1>6. d \in Parents(top.doc)
  <2>1. ToSet(top.parents) \ {Unset} \subseteq Parents(top.doc) BY <1>2, <1>5 DEF PathOf
  <2> QED BY <1>4, <2>1
<1>7. PICK i \in 1..m : d = stack[i].doc BY <1>2 DEF Active
<1>8. d \in Reachable BY <1>2, <1>5, <1>7 DEF PathOf
<1>9. d \in Docs BY <1>1, <1>8, ReachableIs
<1>10. CASE i = m BY <1>1, <1>6, <1>7, <1>8, <1>9, <1>10, AboveIs
<1>11. CASE i # m
  <2> HIDE DEF m, top
  <2>0. i \in DOMAIN stack /\ m \in DOMAIN stack /\ i < m BY <1>2, <1>7, <1>11
  <2>1. top.doc \in Above[d] BY <1>5, <1>7, <2>0 DEF PathOf, top
  <2> QED BY <1>1, <1>6, <1>8, <1>9, <2>1, AboveIs
<1> QED BY <1>10, <1>11

(* Whatever the document is that is looked at next.                         *)
LEMMA VisitKeeps == ASSUME ManifestInv, VisitParent PROVE Visited' /\ stack' \in Seq(Visit) /\ phase' \in Phases
<1> DEFINE top  == Last(stack)
           d    == Head(top.parents)
           rest == [top EXCEPT !.parents = Tail(top.parents)]
<1>1. /\ phase = "visit" /\ top.parents # <<>> /\ UNCHANGED <<world, documents>> /\ stack # <<>>
      /\ \/ d = Unset /\ phase' = "not_found" /\ UNCHANGED stack
         \/ d # Unset /\ Skips(d) /\ stack' = Front(stack) \o <<rest>> /\ UNCHANGED phase
         \/ d # Unset /\ ~Skips(d) /\ Closes(d) /\ phase' = "circular" /\ UNCHANGED stack
         \/ /\ d # Unset /\ ~Skips(d) /\ ~Closes(d)
            /\ stack' = Front(stack) \o <<rest, [doc |-> d, parents |-> world.extends[d]]>>
            /\ UNCHANGED phase
  BY DEF VisitParent, ManifestInv, Visited
<1>2. rest = Shortened(top) BY DEF Shortened
<1>3. /\ stack \in Seq(Visit) /\ PathOf(stack, Emitted) /\ OrderOf(documents') /\ phase \in Phases
      /\ ToSet(documents') = Emitted
  BY <1>1 DEF ManifestInv, LoadTypes, Visited, Emitted
<1> HIDE DEF rest, d, top
<1>4. CASE d = Unset /\ phase' = "not_found" /\ UNCHANGED stack
  BY <1>1, <1>3, <1>4, VisitedOn DEF Phases, Loaded
<1>5. CASE d # Unset /\ Skips(d) /\ stack' = Front(stack) \o <<rest>> /\ UNCHANGED phase
  <2>1. stack' \in Seq(Visit) /\ stack' # <<>> /\ PathOf(stack', Emitted)
    BY <1>1, <1>2, <1>5, SkipKeeps DEF Skips, d, top
  <2> QED BY <1>1, <1>3, <1>5, <2>1, VisitedOn DEF Loaded
<1>6. CASE d # Unset /\ ~Skips(d) /\ Closes(d) /\ phase' = "circular" /\ UNCHANGED stack
  <2>1. d \in Reachable /\ d \in Above[d] BY <1>1, <1>6, ClosesCycle DEF Closes, d, top
  <2> QED BY <1>1, <1>3, <1>6, <2>1, VisitedOn DEF Phases, Loaded
<1>7. CASE /\ d # Unset /\ ~Skips(d) /\ ~Closes(d)
           /\ stack' = Front(stack) \o <<rest, [doc |-> d, parents |-> world.extends[d]]>>
           /\ UNCHANGED phase
  <2>1. stack' \in Seq(Visit) /\ stack' # <<>> /\ PathOf(stack', Emitted)
    BY <1>1, <1>2, <1>7, DescendKeeps DEF Skips, Closes, d, top
  <2> QED BY <1>1, <1>3, <1>7, <2>1, VisitedOn DEF Loaded
<1> QED BY <1>1, <1>4, <1>5, <1>6, <1>7

(* The visit ends: all it extends was emitted, and now it is.               *)
LEMMA EmitKeeps ==
    ASSUME ManifestInv, Emit
    PROVE  Visited' /\ stack' \in Seq(Visit) /\ documents' \in Seq(Docs) /\ phase' \in Phases
<1> DEFINE m == Len(stack)
           top == stack[m]
           k == Len(documents)
           ds == Append(documents, top.doc)
           s == Front(stack)
<1>1. /\ stack \in Seq(Visit) /\ world \in Worlds /\ documents \in Seq(Docs) /\ stack # <<>>
      /\ phase = "visit" /\ world' = world
  BY DEF ManifestInv, LoadTypes, Visited, Emit
<1>2. m \in Nat /\ m > 0 /\ m \in DOMAIN stack /\ DOMAIN stack = 1..m /\ top \in Visit BY <1>1
<1>3. Last(stack) = top BY DEF Last
<1>4. /\ top.parents = <<>> /\ documents' = ds /\ stack' = s
      /\ phase' = IF m = 1 THEN "merge" ELSE "visit"
  BY <1>3 DEF Emit
<1>5. PathOf(stack, Emitted) /\ OrderOf(documents) BY DEF ManifestInv, Visited
<1>6. s \in Seq(Visit) /\ Len(s) = m - 1 /\ \A i \in 1..(m - 1) : s[i] = stack[i]
  BY <1>1, WithoutLast
<1> HIDE DEF s
<1>7. /\ ds \in Seq(Docs) /\ Len(ds) = k + 1 /\ k \in Nat
      /\ \A i \in 1..k : ds[i] = documents[i]
      /\ ds[k + 1] = top.doc
  BY <1>1, <1>2 DEF Visit
<1> HIDE DEF ds
<1>8. DOMAIN s = 1..(m - 1) /\ DOMAIN ds = 1..(k + 1) /\ DOMAIN documents = 1..k BY <1>1, <1>2, <1>6, <1>7
<1>9. ToSet(ds) = Emitted \cup {top.doc}
  <2>1. \A x \in ToSet(ds) : x \in Emitted \cup {top.doc}
    <3> SUFFICES ASSUME NEW i \in 1..(k + 1) PROVE ds[i] \in Emitted \cup {top.doc} BY <1>8 DEF ToSet
    <3>1. CASE i = k + 1 BY <3>1, <1>7
    <3>2. CASE i # k + 1
      <4>1. i \in 1..k BY <1>7, <3>2
      <4> QED BY <4>1, <1>7, <1>8 DEF Emitted, ToSet
    <3> QED BY <3>1, <3>2
  <2>2. \A x \in Emitted : x \in ToSet(ds)
    <3> SUFFICES ASSUME NEW i \in 1..k PROVE documents[i] \in ToSet(ds) BY <1>8 DEF ToSet, Emitted
    <3>1. i \in 1..(k + 1) BY <1>7
    <3> QED BY <3>1, <1>7, <1>8 DEF ToSet
  <2>3. top.doc \in ToSet(ds)
    <3>1. k + 1 \in 1..(k + 1) BY <1>7
    <3> QED BY <3>1, <1>7, <1>8 DEF ToSet
  <2> QED BY <2>1, <2>2, <2>3
<1>10. Parents(top.doc) \subseteq Emitted
  <2>1. Parents(top.doc) \subseteq Emitted \cup ToSet(top.parents)
             \cup {stack[j].doc : j \in DOMAIN stack \cap {m + 1}}
    BY <1>2, <1>5 DEF PathOf
  <2>2. DOMAIN stack \cap {m + 1} = {} BY <1>2
  <2>3. ToSet(top.parents) = {} BY <1>4 DEF ToSet
  <2> QED BY <2>1, <2>2, <2>3
<1>11. top.doc \in Reachable /\ top.doc \notin Emitted BY <1>2, <1>5 DEF PathOf
<1> HIDE DEF m, top, k
<1>12. PathOf(s, ToSet(ds))
  <2>1. \A i \in 1..(m - 1) : i \in 1..m /\ i # m BY <1>2
  <2>2. s # <<>> => s[1].doc = Root
    <3> SUFFICES ASSUME s # <<>> PROVE s[1].doc = Root OBVIOUS
    <3>1. Len(s) # 0 BY <1>6
    <3>2. 1 \in 1..(m - 1) BY <1>2, <1>6, <3>1
    <3> QED BY <1>1, <1>5, <1>6, <3>2 DEF PathOf
  <2>3. \A i \in DOMAIN s : s[i].doc \in Reachable /\ s[i].doc \notin ToSet(ds)
    <3> SUFFICES ASSUME NEW i \in 1..(m - 1) PROVE s[i].doc \in Reachable /\ s[i].doc \notin ToSet(ds)
      BY <1>8
    <3>1. stack[i].doc \in Reachable /\ stack[i].doc \notin Emitted BY <1>2, <1>5, <2>1 DEF PathOf
    <3>2. stack[i].doc # top.doc BY <1>2, <1>5, <2>1 DEF PathOf, top
    <3> QED BY <1>6, <1>9, <3>1, <3>2
  <2>4. \A i, j \in DOMAIN s : i < j => s[j].doc \in Above[s[i].doc] /\ s[i].doc # s[j].doc
    BY <1>2, <1>5, <1>6, <1>8, <2>1 DEF PathOf
  <2>5. ASSUME NEW i \in DOMAIN s
        PROVE  Parents(s[i].doc) \subseteq ToSet(ds) \cup ToSet(s[i].parents)
                                        \cup {s[j].doc : j \in DOMAIN s \cap {i + 1}}
    <3>1. i \in 1..(m - 1) /\ s[i] = stack[i] /\ i \in 1..m /\ i + 1 \in 1..m BY <1>2, <1>6, <1>8
    <3>2. Parents(stack[i].doc) \subseteq Emitted \cup ToSet(stack[i].parents)
             \cup {stack[j].doc : j \in DOMAIN stack \cap {i + 1}}
      BY <1>2, <1>5, <3>1 DEF PathOf
    <3>3. stack[i + 1].doc \in ToSet(ds) \cup {s[j].doc : j \in DOMAIN s \cap {i + 1}}
      <4>1. CASE i + 1 = m BY <4>1, <1>9 DEF top
      <4>2. CASE i + 1 # m
        <5>1. i + 1 \in 1..(m - 1) BY <3>1, <4>2, <1>2
        <5>2. i + 1 \in DOMAIN s /\ s[i + 1] = stack[i + 1] BY <5>1, <1>6, <1>8
        <5> QED BY <5>2
      <4> QED BY <4>1, <4>2
    <3> QED BY <1>9, <3>1, <3>2, <3>3
  <2>6. \A i \in DOMAIN s : ToSet(s[i].parents) \ {Unset} \subseteq Parents(s[i].doc)
    BY <1>2, <1>5, <1>6, <1>8, <2>1 DEF PathOf
  <2> QED BY <2>2, <2>3, <2>4, <2>5, <2>6 DEF PathOf
<1>13. OrderOf(ds)
  <2>1. ASSUME NEW i \in DOMAIN ds
        PROVE  ds[i] \in Reachable /\ Parents(ds[i]) \subseteq {ds[j] : j \in 1..(i - 1)}
    <3>1. CASE i = k + 1
      <4>1. Emitted = {ds[j] : j \in 1..k} BY <1>7, <1>8 DEF Emitted, ToSet
      <4>2. i - 1 = k BY <1>7, <3>1
      <4> QED BY <1>7, <1>10, <1>11, <3>1, <4>1, <4>2
    <3>2. CASE i # k + 1
      <4>1. i \in 1..k /\ \A j \in 1..(i - 1) : j \in 1..k BY <1>7, <1>8, <3>2
      <4>2. documents[i] \in Reachable /\ Parents(documents[i]) \subseteq {documents[j] : j \in 1..(i - 1)}
        BY <1>5, <1>8, <4>1 DEF OrderOf
      <4>3. {documents[j] : j \in 1..(i - 1)} = {ds[j] : j \in 1..(i - 1)} BY <1>7, <4>1
      <4> QED BY <1>7, <4>1, <4>2, <4>3
    <3> QED BY <3>1, <3>2
  <2>2. ASSUME NEW i \in DOMAIN ds, NEW j \in DOMAIN ds, ds[i] = ds[j] PROVE i = j
    <3>1. \A l \in 1..k : ds[l] \in Emitted /\ ds[l] # top.doc BY <1>7, <1>8, <1>11 DEF Emitted, ToSet
    <3>2. CASE i = k + 1 /\ j # k + 1
      <4>1. j \in 1..k BY <1>7, <1>8, <3>2
      <4> QED BY <2>2, <3>1, <3>2, <4>1, <1>7
    <3>3. CASE j = k + 1 /\ i # k + 1
      <4>1. i \in 1..k BY <1>7, <1>8, <3>3
      <4> QED BY <2>2, <3>1, <3>3, <4>1, <1>7
    <3>4. CASE i # k + 1 /\ j # k + 1
      <4>1. i \in 1..k /\ j \in 1..k BY <1>7, <1>8, <3>4
      <4> QED BY <2>2, <1>5, <1>7, <1>8, <4>1 DEF OrderOf
    <3> QED BY <3>2, <3>3, <3>4
  <2> QED BY <2>1, <2>2 DEF OrderOf
<1>14. phase' = "visit" => stack' # <<>>
  <2>1. phase' = "visit" => Len(s) # 0 BY <1>2, <1>4, <1>6
  <2> QED BY <2>1, <1>4
<1>15. phase' \in Loaded => Root \in ToSet(documents')
  <2> SUFFICES ASSUME phase' \in Loaded PROVE Root \in ToSet(ds) BY <1>4
  <2>1. m = 1 BY <1>4 DEF Loaded
  <2>2. top.doc = Root BY <1>1, <1>5, <2>1 DEF PathOf, top
  <2> QED BY <1>9, <2>2
<1>16. phase' # "circular" /\ phase' \in Phases BY <1>4 DEF Phases
<1> QED BY <1>1, <1>4, <1>6, <1>7, <1>12, <1>13, <1>14, <1>15, <1>16, VisitedOn
-----------------------------------------------------------------------------
(* What the documents overlay to.  A later document's secret replaces the   *)
(* earlier ones'; what it leaves out is kept.                               *)
LEMMA OverlayDefaultsIs ==
    ASSUME NEW a \in Defaults \cup {Unset}, NEW b \in Defaults \cup {Unset}
    PROVE  OverlayDefaults(a, b) \in Defaults \cup {Unset}
<1>1. CASE a = Unset \/ b = Unset BY <1>1 DEF OverlayDefaults
<1>2. CASE a # Unset /\ b # Unset
  <2>1. a \in Defaults /\ b \in Defaults BY <1>2
  <2>2. a.required \in Tri /\ b.required \in Tri BY <2>1 DEF Defaults
  <2>3. (b.default \/ a.default) \in BOOLEAN OBVIOUS
  <2>4. (IF b.required = Unset THEN a.required ELSE b.required) \in Tri BY <2>2
  <2>5. [required |-> IF b.required = Unset THEN a.required ELSE b.required,
         default  |-> b.default \/ a.default] \in Defaults
    BY <2>3, <2>4, Zenon DEF Defaults
  <2> QED BY <1>2, <2>5, Zenon DEF OverlayDefaults
<1> QED BY <1>1, <1>2

(* One profile over another.                                                *)
LEMMA OverlayTableIs ==
    ASSUME NEW a \in Table \cup {Unset}, NEW b \in Table \cup {Unset}
    PROVE  /\ OverlayTable(a, b) \in Table \cup {Unset}
           /\ b = Unset => OverlayTable(a, b) = a
           /\ b # Unset => OverlayTable(a, b) # Unset
           /\ a # Unset => OverlayTable(a, b) # Unset
           /\ a = Unset => OverlayTable(a, b) = b
           /\ a # Unset /\ b # Unset =>
                 \A n \in Names : OverlayTable(a, b).secrets[n] =
                     IF b.secrets[n] = Unset THEN a.secrets[n] ELSE b.secrets[n]
<1>1. CASE a = Unset \/ b = Unset BY <1>1 DEF OverlayTable
<1>2. CASE a # Unset /\ b # Unset
  <2> DEFINE ss == [n \in Names |-> IF b.secrets[n] = Unset THEN a.secrets[n] ELSE b.secrets[n]]
             dd == OverlayDefaults(a.defaults, b.defaults)
  <2>1. a \in Table /\ b \in Table BY <1>2
  <2>2. /\ a.secrets \in [Names -> Secret \cup {Unset}] /\ b.secrets \in [Names -> Secret \cup {Unset}]
        /\ a.defaults \in Defaults \cup {Unset} /\ b.defaults \in Defaults \cup {Unset}
    BY <2>1 DEF Table
  <2>3. ss \in [Names -> Secret \cup {Unset}] BY <2>2
  <2>4. dd \in Defaults \cup {Unset} BY <2>2, OverlayDefaultsIs
  <2>5. OverlayTable(a, b) = [defaults |-> dd, secrets |-> ss] BY <1>2, Zenon DEF OverlayTable
  <2>6. \A n \in Names : ss[n] = IF b.secrets[n] = Unset THEN a.secrets[n] ELSE b.secrets[n]
    OBVIOUS
  <2> HIDE DEF ss, dd
  <2>7. OverlayTable(a, b) \in Table BY <2>3, <2>4, <2>5 DEF Table
  <2>8. OverlayTable(a, b) # Unset BY <2>7, ManifestAssumption
  <2>9. OverlayTable(a, b).secrets = ss BY <2>5
  <2> QED BY <1>2, <2>6, <2>7, <2>8, <2>9
<1> QED BY <1>1, <1>2

Sets(d, p, n) == d[p] # Unset /\ d[p].secrets[n] # Unset

(* One document over another: what it sets replaces, what it leaves out is  *)
(* kept.                                                                    *)
LEMMA OverlayIs ==
    ASSUME NEW a \in Document, NEW b \in Document
    PROVE  /\ Overlay(a, b) \in Document
           /\ \A p \in Profiles, n \in Names :
                  /\ Sets(b, p, n) => /\ Overlay(a, b)[p] # Unset
                                      /\ Overlay(a, b)[p].secrets[n] = b[p].secrets[n]
                  /\ ~Sets(b, p, n) /\ a[p] # Unset =>
                        /\ Overlay(a, b)[p] # Unset
                        /\ Overlay(a, b)[p].secrets[n] = a[p].secrets[n]
<1>1. \A p \in Profiles : a[p] \in Table \cup {Unset} /\ b[p] \in Table \cup {Unset} BY DEF Document
<1>2. \A p \in Profiles : Overlay(a, b)[p] = OverlayTable(a[p], b[p]) BY DEF Overlay
<1>3. \A p \in Profiles : OverlayTable(a[p], b[p]) \in Table \cup {Unset} BY <1>1, OverlayTableIs
<1>4. Overlay(a, b) \in Document BY <1>3 DEF Overlay, Document
<1>5. ASSUME NEW p \in Profiles, NEW n \in Names, Sets(b, p, n)
      PROVE  Overlay(a, b)[p] # Unset /\ Overlay(a, b)[p].secrets[n] = b[p].secrets[n]
  <2>1. b[p] # Unset /\ b[p].secrets[n] # Unset BY <1>5 DEF Sets
  <2>2. OverlayTable(a[p], b[p]) # Unset BY <1>1, <2>1, OverlayTableIs
  <2>3. OverlayTable(a[p], b[p]).secrets[n] = b[p].secrets[n]
    <3>1. CASE a[p] = Unset BY <1>1, <3>1, OverlayTableIs
    <3>2. CASE a[p] # Unset BY <1>1, <2>1, <3>2, OverlayTableIs
    <3> QED BY <3>1, <3>2
  <2> QED BY <1>2, <2>2, <2>3
<1>6. ASSUME NEW p \in Profiles, NEW n \in Names, ~Sets(b, p, n), a[p] # Unset
      PROVE  Overlay(a, b)[p] # Unset /\ Overlay(a, b)[p].secrets[n] = a[p].secrets[n]
  <2>1. b[p] = Unset \/ b[p].secrets[n] = Unset BY <1>6 DEF Sets
  <2>2. OverlayTable(a[p], b[p]) # Unset BY <1>1, <1>6, OverlayTableIs
  <2>3. OverlayTable(a[p], b[p]).secrets[n] = a[p].secrets[n]
    <3>1. CASE b[p] = Unset BY <1>1, <3>1, OverlayTableIs
    <3>2. CASE b[p] # Unset BY <1>1, <1>6, <2>1, <3>2, OverlayTableIs
    <3> QED BY <3>1, <3>2
  <2> QED BY <1>2, <2>2, <2>3
<1> QED BY <1>4, <1>5, <1>6

Overlaying(f) ==
    [k \in 0..(Len(documents) - 1) |->
        IF k = 0 THEN world.text[documents[1]] ELSE Overlay(f[k - 1], world.text[documents[k + 1]])]

(* The overlay is what the documents lead to, one after another.            *)
LEMMA OverlaidIs ==
    ASSUME world \in Worlds, documents \in Seq(Docs), documents # <<>>
    PROVE  \E f : /\ f[0] = world.text[documents[1]]
                  /\ \A k \in 0..(Len(documents) - 1) : f[k] \in Document
                  /\ \A k \in 1..(Len(documents) - 1) :
                         f[k] = Overlay(f[k - 1], world.text[documents[k + 1]])
                  /\ Overlaid = f[Len(documents) - 1]
<1> DEFINE c == Len(documents) - 1
           v == world.text[documents[1]]
           G == [i \in 1..c |-> [t \in Document |-> Overlay(t, world.text[documents[i + 1]])]]
           upto == CHOOSE f : f = Overlaying(f)
<1>1. c \in Nat /\ Len(documents) = c + 1 /\ DOMAIN documents = 1..(c + 1) OBVIOUS
<1>2. \A i \in 1..(c + 1) : world.text[documents[i]] \in Document
  <2>1. \A i \in 1..(c + 1) : documents[i] \in Docs BY <1>1
  <2> QED BY <2>1, WorldsAre
<1>3. v \in Document BY <1>1, <1>2
<1>4. \A i \in 1..c : i + 1 \in 1..(c + 1) BY <1>1
<1>5. \A i \in 1..c : \A t \in Document : Overlay(t, world.text[documents[i + 1]]) \in Document
  BY <1>2, <1>4, OverlayIs
<1>6. G \in [1..c -> [Document -> Document]] BY <1>5
<1>7. PICK f \in [0..c -> Document] : Steps(G, v, c, f)
  <2> HIDE DEF G, v, c
  <2> QED BY <1>1, <1>3, <1>6, Recursion
<1>8. f = Overlaying(f)
  <2>1. ASSUME NEW k \in 0..c PROVE f[k] = Overlaying(f)[k]
    <3>1. CASE k = 0 BY <3>1, <1>1, <1>7 DEF Overlaying, Steps
    <3>2. CASE k # 0
      <4>1. k \in 1..c /\ k - 1 \in 0..c BY <1>1, <3>2
      <4>2. f[k] = G[k][f[k - 1]] BY <1>7, <4>1 DEF Steps
      <4>3. f[k - 1] \in Document BY <1>7, <4>1
      <4>4. f[k] = Overlay(f[k - 1], world.text[documents[k + 1]]) BY <4>1, <4>2, <4>3
      <4> QED BY <3>2, <4>4 DEF Overlaying
    <3> QED BY <3>1, <3>2
  <2>2. f = [k \in 0..c |-> f[k]] BY <1>7
  <2>3. Overlaying(f) = [k \in 0..c |-> Overlaying(f)[k]] BY DEF Overlaying
  <2> QED BY <2>1, <2>2, <2>3
<1>9. upto = Overlaying(upto) BY <1>8
<1>10. Overlaid = upto[c] BY Zenon DEF Overlaid, Overlaying
<1> HIDE DEF upto
<1>11. upto[0] = v BY <1>1, <1>9 DEF Overlaying
<1>12. ASSUME NEW k \in 1..c PROVE upto[k] = Overlay(upto[k - 1], world.text[documents[k + 1]])
  <2>1. k \in 0..c /\ k # 0 BY <1>1
  <2>2. Overlaying(upto)[k] = Overlay(upto[k - 1], world.text[documents[k + 1]])
    BY <2>1 DEF Overlaying
  <2> QED BY <1>9, <2>2
<1>13. \A k \in 0..c : upto[k] \in Document
  <2> DEFINE S == {k \in Nat : k <= c => upto[k] \in Document}
  <2>1. 0 \in S BY <1>3, <1>11
  <2>2. ASSUME NEW k \in Nat, k \in S PROVE k + 1 \in S
    <3> SUFFICES ASSUME k + 1 <= c PROVE upto[k + 1] \in Document OBVIOUS
    <3>1. k + 1 \in 1..c /\ (k + 1) - 1 = k /\ upto[k] \in Document BY <1>1, <2>2
    <3>2. upto[k + 1] = Overlay(upto[k], world.text[documents[(k + 1) + 1]]) BY <1>12, <3>1
    <3> QED BY <3>1, <3>2, <1>5
  <2> HIDE DEF S
  <2>3. Nat \subseteq S BY <2>1, <2>2, Induction
  <2> QED BY <1>1, <2>3 DEF S
<1> QED BY <1>10, <1>11, <1>12, <1>13 DEF v

(* Of the documents that set a secret, the one read last wins.              *)
LEMMA LastOneWins ==
    ASSUME world \in Worlds, documents \in Seq(Docs), documents # <<>>,
           NEW p \in Profiles, NEW n \in Names,
           NEW i0 \in 1..Len(documents), Sets(world.text[documents[i0]], p, n)
    PROVE  \E j \in 1..Len(documents) :
               /\ Sets(world.text[documents[j]], p, n)
               /\ Overlaid[p].secrets[n] = world.text[documents[j]][p].secrets[n]
               /\ \A i \in 1..Len(documents) : Sets(world.text[documents[i]], p, n) => i <= j
<1> DEFINE c == Len(documents) - 1
           text(i) == world.text[documents[i]]
           Says(i) == Sets(text(i), p, n)
<1>1. c \in Nat /\ Len(documents) = c + 1 /\ DOMAIN documents = 1..(c + 1) OBVIOUS
<1>2. \A i \in 1..(c + 1) : text(i) \in Document
  <2>1. \A i \in 1..(c + 1) : documents[i] \in Docs BY <1>1
  <2> QED BY <2>1, WorldsAre
<1>3. PICK f : /\ f[0] = text(1)
               /\ \A k \in 0..c : f[k] \in Document
               /\ \A k \in 1..c : f[k] = Overlay(f[k - 1], text(k + 1))
               /\ Overlaid = f[c]
  BY OverlaidIs
<1> DEFINE Best(k) == \E j \in 1..(k + 1) : /\ Says(j) /\ f[k][p] # Unset
                                            /\ f[k][p].secrets[n] = text(j)[p].secrets[n]
                                            /\ \A i \in 1..(k + 1) : Says(i) => i <= j
           S == {k \in Nat : k <= c /\ (\E i \in 1..(k + 1) : Says(i)) => Best(k)}
<1>a. \A i : Says(i) => text(i)[p] # Unset BY DEF Sets
<1> HIDE DEF c, text
<1>4. 0 \in S
  <2>1. ASSUME NEW i \in 1..(0 + 1), Says(i) PROVE Best(0)
    <3>1. i = 1 BY <2>1
    <3>2. 1 \in 1..(0 + 1) /\ \A l \in 1..(0 + 1) : l <= 1 OBVIOUS
    <3> QED BY <1>3, <1>a, <2>1, <3>1, <3>2
  <2> HIDE DEF Says
  <2> QED BY <2>1
<1>5. ASSUME NEW k \in Nat, k \in S PROVE k + 1 \in S
  <2> SUFFICES ASSUME k + 1 <= c, NEW i1 \in 1..((k + 1) + 1), Says(i1) PROVE Best(k + 1)
    OBVIOUS
  <2>1. /\ k + 1 \in 1..c /\ (k + 1) - 1 = k /\ k \in 0..c /\ (k + 1) + 1 \in 1..(c + 1)
        /\ (k + 1) + 1 \in 1..((k + 1) + 1)
    BY <1>1
  <2>2. f[k + 1] = Overlay(f[k], text((k + 1) + 1)) BY <1>3, <2>1
  <2>3. f[k] \in Document /\ text((k + 1) + 1) \in Document BY <1>2, <1>3, <2>1
  <2>4. CASE Says((k + 1) + 1)
    <3>1. f[k + 1][p] # Unset /\ f[k + 1][p].secrets[n] = text((k + 1) + 1)[p].secrets[n]
      BY <2>2, <2>3, <2>4, OverlayIs
    <3>2. \A i \in 1..((k + 1) + 1) : i <= (k + 1) + 1 OBVIOUS
    <3> HIDE DEF Says
    <3> QED BY <2>1, <2>4, <3>1, <3>2
  <2>5. CASE ~Says((k + 1) + 1)
    <3>1. i1 \in 1..(k + 1)
      <4>1. i1 # (k + 1) + 1
        <5> HIDE DEF Says
        <5> QED BY <2>5
      <4> QED BY <4>1
    <3>2. k <= c BY <1>1, <2>1
    <3>3. Best(k)
      <4> HIDE DEF Says, Best
      <4> QED BY <1>5, <3>1, <3>2
    <3>4. PICK j \in 1..(k + 1) : /\ Says(j) /\ f[k][p] # Unset
                                  /\ f[k][p].secrets[n] = text(j)[p].secrets[n]
                                  /\ \A i \in 1..(k + 1) : Says(i) => i <= j
      BY <3>3
    <3>5. f[k + 1][p] # Unset /\ f[k + 1][p].secrets[n] = f[k][p].secrets[n]
      BY <2>2, <2>3, <2>5, <3>4, OverlayIs
    <3>6. ASSUME NEW i \in 1..((k + 1) + 1), Says(i) PROVE i <= j
      <4>1. i # (k + 1) + 1
        <5> HIDE DEF Says
        <5> QED BY <2>5, <3>6
      <4>2. i \in 1..(k + 1) BY <4>1
      <4> QED BY <3>4, <3>6, <4>2
    <3>7. j \in 1..((k + 1) + 1) OBVIOUS
    <3> HIDE DEF Says
    <3> QED BY <3>4, <3>5, <3>6, <3>7
  <2> QED BY <2>4, <2>5
<1>6. Nat \subseteq S
  <2> HIDE DEF S
  <2> QED BY <1>4, <1>5, Induction
<1>7. Best(c)
  <2>1. c \in S BY <1>1, <1>6
  <2>2. \E i \in 1..(c + 1) : Says(i) BY <1>1 DEF text
  <2> HIDE DEF Best
  <2> QED BY <1>1, <2>1, <2>2
<1> QED BY <1>1, <1>3, <1>7 DEF text

(* What a document extends was read before it.                              *)
LEMMA ReadBefore ==
    ASSUME world \in Worlds, documents \in Seq(Docs), OrderOf(documents),
           NEW i \in 1..Len(documents), NEW j \in 1..Len(documents),
           documents[j] \in Above[documents[i]]
    PROVE  j < i
<1> DEFINE X == {documents[l] : l \in 1..(i - 1)}
<1>1. DOMAIN documents = 1..Len(documents) /\ Len(documents) \in Nat OBVIOUS
<1>2. \A l \in 1..(i - 1) : l \in 1..Len(documents) /\ \A k \in 1..(l - 1) : k \in 1..(i - 1)
  BY <1>1
<1>3. X \in SUBSET Docs /\ documents[i] \in Docs BY <1>1, <1>2
<1>4. Parents(documents[i]) \subseteq X BY <1>1 DEF OrderOf
<1>5. ASSUME NEW e \in X PROVE Parents(e) \subseteq X
  <2>1. PICK l \in 1..(i - 1) : e = documents[l] OBVIOUS
  <2>2. Parents(e) \subseteq {documents[k] : k \in 1..(l - 1)} BY <1>1, <1>2, <2>1 DEF OrderOf
  <2> QED BY <1>2, <2>2
<1> HIDE DEF X
<1>6. Above[documents[i]] \subseteq X BY <1>3, <1>4, <1>5, AboveIs
<1>7. PICK l \in 1..(i - 1) : documents[j] = documents[l] BY <1>6 DEF X
<1>8. j = l BY <1>1, <1>2, <1>7 DEF OrderOf
<1> QED BY <1>1, <1>7, <1>8

(* A load fails for a cycle only if there is one; without, each document    *)
(* counts once and after what it extends.                                   *)
LEMMA MergesOnce == ASSUME ManifestInv PROVE CyclesAreFound
<1>1. /\ world \in Worlds /\ documents \in Seq(Docs) /\ OrderOf(documents)
      /\ phase = "circular" => \E d \in Reachable : d \in Above[d]
  BY DEF ManifestInv, LoadTypes, Visited
<1>2. DOMAIN documents = 1..Len(documents) /\ Emitted = {documents[i] : i \in 1..Len(documents)}
  BY <1>1 DEF Emitted, ToSet
<1>3. ASSUME phase = "merge"
      PROVE  /\ \A d \in Reachable : d \notin Above[d]
             /\ Emitted = Reachable
             /\ Len(documents) = Cardinality(Reachable)
             /\ \A i, j \in DOMAIN documents : documents[j] \in Above[documents[i]] => j < i
  <2>1. Root \in Emitted BY <1>3 DEF ManifestInv, Visited, Loaded
  <2>2. Emitted \subseteq Reachable BY <1>1, <1>2 DEF OrderOf
  <2>3. ASSUME NEW d \in Emitted PROVE Parents(d) \subseteq Emitted
    <3>1. PICK i \in 1..Len(documents) : d = documents[i] BY <1>2
    <3>2. Parents(d) \subseteq {documents[j] : j \in 1..(i - 1)} BY <1>1, <1>2, <3>1 DEF OrderOf
    <3>3. \A j \in 1..(i - 1) : j \in 1..Len(documents) BY <1>1
    <3> QED BY <1>2, <3>2, <3>3
  <2>4. Emitted \in SUBSET Docs BY <1>1, <2>2, ReachableIs
  <2>5. Above[Root] \subseteq Emitted BY <1>1, <2>1, <2>3, <2>4, AboveIs
  <2>6. Emitted = Reachable BY <2>1, <2>2, <2>5 DEF Reachable
  <2>7. \A i, j \in DOMAIN documents : documents[j] \in Above[documents[i]] => j < i
    BY <1>1, <1>2, ReadBefore
  <2>8. ASSUME NEW d \in Reachable, d \in Above[d] PROVE FALSE
    <3>1. PICK i \in 1..Len(documents) : d = documents[i] BY <1>2, <2>6
    <3>2. i < i BY <1>2, <2>7, <2>8, <3>1
    <3> QED BY <1>1, <3>2
  <2>9. Len(documents) = Cardinality(Emitted) BY <1>1, CountedOnce DEF OrderOf, Emitted
  <2> QED BY <2>6, <2>7, <2>8, <2>9
<1> QED BY <1>1, <1>3 DEF CyclesAreFound, Reachable

(* No definition outlives that of a document which extends its own.         *)
LEMMA NoneOutlives == ASSUME ManifestInv PROVE ChildrenWin
<1> SUFFICES ASSUME phase \in {"validate", "ready", "used"}, NEW p \in Profiles, NEW n \in Names,
                    NEW d0 \in Emitted, Sets(world.text[d0], p, n)
             PROVE  \E d \in Emitted : /\ Sets(world.text[d], p, n)
                                       /\ Own(p, n) = world.text[d][p].secrets[n]
                                       /\ \A e \in Emitted : Sets(world.text[e], p, n) => d \notin Above[e]
  BY DEF ChildrenWin, Sets
<1>1. /\ world \in Worlds /\ documents \in Seq(Docs) /\ OrderOf(documents) /\ merged = Overlaid
  BY DEF ManifestInv, LoadTypes, Visited, Typed
<1>2. DOMAIN documents = 1..Len(documents) /\ Emitted = {documents[i] : i \in 1..Len(documents)}
      /\ Len(documents) \in Nat
  BY <1>1 DEF Emitted, ToSet
<1>3. PICK i0 \in 1..Len(documents) : d0 = documents[i0] BY <1>2
<1>4. documents # <<>> BY <1>1, <1>3
<1>5. PICK j \in 1..Len(documents) :
          /\ Sets(world.text[documents[j]], p, n)
          /\ Overlaid[p].secrets[n] = world.text[documents[j]][p].secrets[n]
          /\ \A i \in 1..Len(documents) : Sets(world.text[documents[i]], p, n) => i <= j
  BY <1>1, <1>3, <1>4, LastOneWins
<1>6. documents[j] \in Emitted BY <1>2
<1>7. Own(p, n) = world.text[documents[j]][p].secrets[n] BY <1>1, <1>5 DEF Own
<1>8. ASSUME NEW e \in Emitted, Sets(world.text[e], p, n), documents[j] \in Above[e] PROVE FALSE
  <2>1. PICK i \in 1..Len(documents) : e = documents[i] BY <1>2
  <2>2. i <= j BY <1>5, <1>8, <2>1
  <2>3. j < i BY <1>1, <1>8, <2>1, ReadBefore
  <2> QED BY <1>2, <2>2, <2>3
<1> QED BY <1>5, <1>6, <1>7, <1>8
-----------------------------------------------------------------------------
(* Nothing of the manifest changes once it is read.                         *)
LEMMA SameManifest ==
    ASSUME UNCHANGED <<world, documents, merged>>
    PROVE  /\ \A p : Declares(p)' = Declares(p)
           /\ \A p : NamesOf(p)' = NamesOf(p)
           /\ \A p : Mandatory(p)' = Mandatory(p)
           /\ DeclaredNames' = DeclaredNames
           /\ UnionMandatory' = UnionMandatory
           /\ Overlaid' = Overlaid
           /\ Valid' = Valid
<1>1. \A p : Declares(p)' = Declares(p) BY DEF Declares
<1>2. \A p, n : Own(p, n)' = Own(p, n) BY DEF Own
<1>3. \A p, n : Base(p, n)' = Base(p, n) BY DEF Base, Declares
<1>4. \A p, n : Effective(p, n)' = Effective(p, n) BY Zenon DEF Effective, Own, Base, Declares
<1>5. \A p : NamesOf(p)' = NamesOf(p) BY Zenon DEF NamesOf, Own, Base, Declares
<1>6. \A p : Mandatory(p)' = Mandatory(p)
  BY Zenon DEF Mandatory, NamesOf, Effective, Own, Base, Declares
<1>7. DeclaredNames' = DeclaredNames BY <1>1, <1>5, SMT DEF DeclaredNames
<1>8. UnionMandatory' = UnionMandatory
  BY Zenon DEF UnionMandatory, Mandatory, NamesOf, Effective, Own, Base, Declares
<1>9. Overlaid' = Overlaid BY Zenon DEF Overlaid
<1>10. Valid' = Valid
  <2>a. Listed' = Listed BY Zenon DEF Listed
  <2>1. ValidScope' = ValidScope BY <1>7, <2>a DEF ValidScope
  <2>2. \A p : ValidRaw(p)' = ValidRaw(p) BY Zenon DEF ValidRaw, Own, Declares
  <2>3. \A p : ValidGroups(p)' = ValidGroups(p)
    <3>1. \A p, k, g : Members(p, k, g)' = Members(p, k, g) BY <1>4, <1>5, SMT DEF Members
    <3> QED BY <3>1, SMT DEF ValidGroups
  <2>4. \A p : ValidGraph(p)' = ValidGraph(p)
    <3>1. \A p : Deps(p)' = Deps(p) BY <1>4, <1>5, SMT DEF Deps
    <3>2. \A p : Reached(Deps(p))' = Reached(Deps(p)) BY <3>1, Zenon
    <3> QED BY <1>5, <3>1, <3>2, SMT DEF ValidGraph, Acyclic
  <2> QED BY <1>1, <1>4, <1>5, <2>1, <2>2, <2>3, <2>4 DEF Valid
<1> QED BY <1>1, <1>5, <1>6, <1>7, <1>8, <1>9, <1>10

(* The invariant holds when the load begins.                                *)
LEMMA FirstVisit == ASSUME ManifestInit PROVE ManifestInv
<1> DEFINE new == [doc |-> Root, parents |-> world.extends[Root]]
<1>1. /\ world \in Worlds /\ phase = "visit" /\ stack = <<new>> /\ documents = <<>>
      /\ merged = Unset /\ use.got = {}
  BY DEF ManifestInit, NoUse
<1>2. Root \in Docs BY ManifestAssumption
<1>3. new \in Visit /\ new.doc = Root /\ new.parents = world.extends[Root]
  BY <1>1, <1>2, WorldsAre DEF Visit
<1> HIDE DEF new
<1>4. /\ stack \in Seq(Visit) /\ stack # <<>> /\ DOMAIN stack = {1} /\ stack[1] = new
  <2>1. Len(<<new>>) = 1 /\ <<new>> \in Seq(Visit) /\ <<new>>[1] = new /\ 1..1 = {1} BY <1>3
  <2> QED BY <1>1, <2>1
<1>5. documents \in Seq(Docs) /\ Emitted = {} /\ DOMAIN documents = {} BY <1>1 DEF Emitted, ToSet
<1>6. LoadTypes BY <1>1, <1>4, <1>5 DEF LoadTypes, Phases
<1>7. PathOf(stack, Emitted)
  <2>1. ToSet(world.extends[Root]) \ {Unset} = Parents(Root) BY <1>1, <1>2, ParentsAre
  <2>2. Parents(Root) \subseteq ToSet(new.parents) BY <1>3, <2>1
  <2>3. Root \in Reachable BY <1>1, ReachableIs
  <2> QED BY <1>3, <1>4, <1>5, <2>1, <2>2, <2>3 DEF PathOf
<1>8. OrderOf(documents) BY <1>5 DEF OrderOf
<1>9. Visited BY <1>1, <1>4, <1>7, <1>8 DEF Visited, Loaded
<1>10. Typed /\ LoadsFit BY <1>1 DEF Typed, LoadsFit, TypedLoadFits, ChildSeesItsScope
<1> QED BY <1>6, <1>9, <1>10 DEF ManifestInv

(* Overlaying keeps the invariant: the result is a document.                *)
LEMMA MergeKeeps == ASSUME ManifestInv, Merge PROVE ManifestInv'
<1>1. /\ world \in Worlds /\ documents \in Seq(Docs) /\ stack \in Seq(Visit) /\ use.got \subseteq Names
      /\ Root \in Emitted
  BY DEF ManifestInv, LoadTypes, Visited, Merge, Loaded
<1>2. /\ phase = "merge" /\ phase' = "validate" /\ merged' = Overlaid
      /\ UNCHANGED <<world, stack, documents, types, use>>
  BY DEF Merge
<1>3. documents # <<>> BY <1>1 DEF Emitted, ToSet
<1>4. Overlaid \in Document
  <2>1. PICK f : /\ \A k \in 0..(Len(documents) - 1) : f[k] \in Document
                 /\ Overlaid = f[Len(documents) - 1]
    BY <1>1, <1>3, OverlaidIs
  <2>2. Len(documents) - 1 \in 0..(Len(documents) - 1) BY <1>1, <1>3
  <2> QED BY <2>1, <2>2
<1>5. LoadTypes' BY <1>1, <1>2, <1>4 DEF LoadTypes, Phases
<1>6. Visited' BY <1>2, NothingVisited DEF Loaded
<1>7. Overlaid' = Overlaid BY <1>2, Zenon DEF Overlaid
<1>8. Typed' BY <1>2, <1>7 DEF Typed
<1>9. LoadsFit' BY <1>2 DEF LoadsFit, TypedLoadFits, ChildSeesItsScope
<1> QED BY <1>5, <1>6, <1>8, <1>9 DEF ManifestInv

TypesOf == [union    |-> UnionMandatory,
            profiles |-> [p \in {q \in Profiles : Declares(q)} |-> Mandatory(p)]]

(* The types are those of the manifest, which does not change.              *)
LEMMA SameTypes == ASSUME UNCHANGED <<world, documents, merged>> PROVE TypesOf' = TypesOf
BY Zenon DEF TypesOf, UnionMandatory, Mandatory, NamesOf, Effective, Own, Base, Declares

(* Validation keeps the invariant: the types are what the manifest          *)
(* promises.                                                                *)
LEMMA ValidateKeeps == ASSUME ManifestInv, Validate PROVE ManifestInv'
<1>1. /\ phase = "validate" /\ phase' = (IF Valid THEN "ready" ELSE "invalid")
      /\ types' = (IF Valid THEN TypesOf ELSE Unset)
      /\ UNCHANGED <<world, stack, documents, merged, use>>
  BY DEF Validate, TypesOf
<1>2. LoadTypes' BY <1>1 DEF ManifestInv, LoadTypes, Phases
<1>3. Visited' BY <1>1, NothingVisited DEF Loaded
<1>4. Overlaid' = Overlaid /\ Valid' = Valid /\ TypesOf' = TypesOf BY <1>1, SameManifest, SameTypes
<1>5. merged = Overlaid BY <1>1 DEF ManifestInv, Typed
<1>6. phase' \in {"ready", "used"} => Valid' /\ types' = TypesOf' BY <1>1, <1>4
<1>7. Typed' BY <1>1, <1>4, <1>5, <1>6 DEF Typed, TypesOf
<1>8. LoadsFit' BY <1>1 DEF LoadsFit, TypedLoadFits, ChildSeesItsScope
<1> QED BY <1>2, <1>3, <1>7, <1>8 DEF ManifestInv

(* What resolves holds all that its profile promises of what is looked at:  *)
(* a generated or defaulted secret is never a composed one.                 *)
LEMMA PromisesKept ==
    ASSUME Valid, NEW p \in Profiles, Declares(p), NEW stored, NEW visible, NEW there,
           there = Present(p, stored) \/ there = Present(p, stored) \cap visible,
           ~Fails(p, there, visible), NEW n \in Mandatory(p), n \in visible
    PROVE  n \in there
<1>1. n \in NamesOf(p) /\ Policy(Effective(p, n)) # "omit" BY DEF Mandatory, Guaranteed
<1>2. ValidSecret(Effective(p, n)) BY <1>1 DEF Valid
<1>3. CASE Policy(Effective(p, n)) = "error" BY <1>1, <1>3 DEF Fails
<1>4. CASE Policy(Effective(p, n)) # "error"
  <2>1. Generates(Effective(p, n)) \/ Effective(p, n).default BY <1>1, <1>4, Zenon DEF Policy
  <2>2. Policy(Effective(p, n)) \in {"generate", "use_default"} BY <2>1, Zenon DEF Policy
  <2>3. Effective(p, n).composed = {} BY <1>2, <2>1, Zenon DEF ValidSecret
  <2>4. Deps(p)[n] = {} BY <1>1, <2>3 DEF Deps
  <2>5. n \in Filled(p, stored) BY <1>1, <2>2, <2>4 DEF Filled
  <2>6. n \in Present(p, stored) BY <2>5, PresentIs
  <2> QED BY <2>6
<1> QED BY <1>3, <1>4

(* A typed load keeps the invariant: what it got holds what was promised.   *)
LEMMA LoadKeeps ==
    ASSUME ManifestInv, NEW p \in Profiles, NEW stored, NEW scope, TypedLoad(p, stored, scope)
    PROVE  ManifestInv'
<1> DEFINE there == Present(p, stored) \cap Names
           outcome == IF Fails(p, there, Names) THEN "unresolved" ELSE "resolved"
<1>1. /\ phase = "ready" /\ phase' = "used" /\ Declares(p)
      /\ UNCHANGED <<world, stack, documents, merged, types>>
      /\ use' = [NoUse EXCEPT !.profile = p, !.stored = stored, !.scope = scope, !.got = there,
                              !.outcome = outcome]
  BY Zenon DEF TypedLoad, Visible
<1>2. Valid /\ types = TypesOf /\ merged = Overlaid
  BY <1>1 DEF ManifestInv, Typed, TypesOf
<1>3. there \subseteq Names OBVIOUS
<1>4. ASSUME outcome = "resolved", NEW n \in Mandatory(p) PROVE n \in there
  <2>1. n \in Names BY DEF Mandatory, NamesOf
  <2>2. ~Fails(p, there, Names) BY <1>4
  <2> HIDE DEF outcome
  <2> QED BY <1>1, <1>2, <2>1, <2>2, PromisesKept
<1>5. UnionMandatory \subseteq Mandatory(p) BY <1>1 DEF UnionMandatory
<1>6. TypesOf.union = UnionMandatory /\ TypesOf.profiles[p] = Mandatory(p) BY <1>1 DEF TypesOf
<1> HIDE DEF there, outcome
<1>7. use'.got = there /\ use'.profile = p /\ use'.outcome = outcome BY <1>1 DEF NoUse
<1>8. TypedLoadFits' BY <1>1, <1>2, <1>4, <1>5, <1>6, <1>7 DEF TypedLoadFits
<1>9. ChildSeesItsScope' BY <1>7 DEF ChildSeesItsScope, outcome
<1>10. LoadTypes' BY <1>1, <1>3, <1>7 DEF ManifestInv, LoadTypes, Phases
<1>11. Visited' BY <1>1, NothingVisited DEF Loaded
<1>12. Typed'
  <2>1. Overlaid' = Overlaid /\ Valid' = Valid /\ TypesOf' = TypesOf BY <1>1, SameManifest, SameTypes
  <2> QED BY <1>1, <1>2, <2>1 DEF Typed, TypesOf
<1> QED BY <1>8, <1>9, <1>10, <1>11, <1>12 DEF ManifestInv, LoadsFit

(* A scoped run keeps the invariant: the child sees what the scope admits.  *)
LEMMA RunKeeps ==
    ASSUME ManifestInv, NEW p \in Profiles, NEW stored, NEW inherited, ScopedRun(p, stored, inherited)
    PROVE  ManifestInv'
<1> DEFINE there  == Present(p, stored)
           failed == Fails(p, there, Admitted)
           got    == IF failed THEN {} ELSE there \cap Admitted
           child  == IF failed THEN {} ELSE (inherited \cup got) \ Excluded(p)
           outcome == IF failed THEN "unresolved" ELSE "ran"
<1>1. /\ phase = "ready" /\ phase' = "used" /\ Declares(p)
      /\ UNCHANGED <<world, stack, documents, merged, types>>
      /\ use' = [NoUse EXCEPT !.profile = p, !.stored = stored, !.scope = Admitted,
                              !.inherited = inherited, !.got = got, !.outcome = outcome,
                              !.child = child]
  BY Zenon DEF ScopedRun
<1>2. Valid /\ types = TypesOf /\ merged = Overlaid
  BY <1>1 DEF ManifestInv, Typed, TypesOf
<1>3. got \subseteq Names
  <2>1. there \subseteq NamesOf(p) BY PresentIs
  <2>2. NamesOf(p) \subseteq Names BY DEF NamesOf
  <2> QED BY <2>1, <2>2
<1>4. ASSUME ~failed, NEW n \in Mandatory(p), n \in Admitted PROVE n \in there
  <2> HIDE DEF got, child, outcome
  <2> QED BY <1>1, <1>2, <1>4, PromisesKept
<1> HIDE DEF there, failed
<1>5. ASSUME outcome = "ran"
      PROVE  /\ \A q \in Profiles : Declares(q) => NamesOf(q) \cap child \subseteq Admitted
             /\ Mandatory(p) \cap Admitted \subseteq child
             /\ inherited \ DeclaredNames \subseteq child
  <2>1. ~failed /\ got = there \cap Admitted /\ child = (inherited \cup got) \ Excluded(p) BY <1>5
  <2>2. Excluded(p) = DeclaredNames \ Admitted BY DEF Excluded
  <2>3. \A q \in Profiles : Declares(q) => NamesOf(q) \subseteq DeclaredNames BY DEF DeclaredNames
  <2> HIDE DEF got, child
  <2> QED BY <1>4, <2>1, <2>2, <2>3
<1> HIDE DEF got, child
<1>6. /\ use'.got = got /\ use'.profile = p /\ use'.outcome = outcome /\ use'.child = child
      /\ use'.scope = Admitted /\ use'.inherited = inherited
  BY <1>1 DEF NoUse
<1>7. TypedLoadFits' BY <1>6 DEF TypedLoadFits
<1>8. ChildSeesItsScope'
  <2>1. /\ \A q : Declares(q)' = Declares(q) /\ NamesOf(q)' = NamesOf(q) /\ Mandatory(q)' = Mandatory(q)
        /\ DeclaredNames' = DeclaredNames
    BY <1>1, SameManifest
  <2> SUFFICES ASSUME use'.outcome = "ran"
               PROVE  /\ \A q \in Profiles : Declares(q)' => NamesOf(q)' \cap child \subseteq Admitted
                      /\ Mandatory(p)' \cap Admitted \subseteq child
                      /\ inherited \ DeclaredNames' \subseteq child
    BY <1>6, <2>1 DEF ChildSeesItsScope
  <2> QED BY <1>5, <1>6, <2>1
<1>9. LoadTypes' BY <1>1, <1>3, <1>6 DEF ManifestInv, LoadTypes, Phases
<1>10. Visited' BY <1>1, NothingVisited DEF Loaded
<1>11. Typed'
  <2>1. Overlaid' = Overlaid /\ Valid' = Valid /\ TypesOf' = TypesOf BY <1>1, SameManifest, SameTypes
  <2> QED BY <1>1, <1>2, <2>1 DEF Typed, TypesOf
<1> QED BY <1>7, <1>8, <1>9, <1>10, <1>11 DEF ManifestInv, LoadsFit

(* A step that changes nothing keeps the invariant.                         *)
LEMMA IdleKeeps == ASSUME ManifestInv, UNCHANGED manifestVars PROVE ManifestInv'
<1>1. UNCHANGED <<world, phase, stack, documents, merged, types, use>> BY DEF manifestVars
<1>2. /\ \A p : Declares(p)' = Declares(p) /\ NamesOf(p)' = NamesOf(p) /\ Mandatory(p)' = Mandatory(p)
      /\ DeclaredNames' = DeclaredNames /\ Overlaid' = Overlaid /\ Valid' = Valid /\ TypesOf' = TypesOf
  BY <1>1, SameManifest, SameTypes
<1>3. LoadTypes' BY <1>1 DEF ManifestInv, LoadTypes
<1>4. Visited' BY <1>1, NothingVisited
<1>5. Typed' BY <1>1, <1>2 DEF ManifestInv, Typed, TypesOf
<1>6. TypedLoadFits' BY <1>1 DEF ManifestInv, LoadsFit, TypedLoadFits
<1>7. ChildSeesItsScope' BY <1>1, <1>2 DEF ManifestInv, LoadsFit, ChildSeesItsScope
<1> QED BY <1>3, <1>4, <1>5, <1>6, <1>7 DEF ManifestInv, LoadsFit

(* The visits keep the invariant.                                           *)
LEMMA VisitsKeep == ASSUME ManifestInv, VisitParent \/ Emit PROVE ManifestInv'
<1>1. /\ Visited' /\ stack' \in Seq(Visit) /\ documents' \in Seq(Docs) /\ phase' \in Phases
      /\ phase' \in {"visit", "not_found", "circular", "merge"}
      /\ UNCHANGED <<world, merged, types, use>>
  <2>1. CASE VisitParent
    <3>1. phase' \in {"visit", "not_found", "circular", "merge"} /\ documents' = documents
          /\ UNCHANGED <<world, merged, types, use>>
      BY <2>1, Zenon DEF VisitParent
    <3> QED BY <2>1, <3>1, VisitKeeps DEF ManifestInv, LoadTypes
  <2>2. CASE Emit
    <3>1. phase' \in {"visit", "not_found", "circular", "merge"} /\ UNCHANGED <<world, merged, types, use>>
      BY <2>2 DEF Emit
    <3> QED BY <2>2, <3>1, EmitKeeps
  <2> QED BY <2>1, <2>2
<1>2. LoadTypes' BY <1>1 DEF ManifestInv, LoadTypes
<1>3. Typed' BY <1>1 DEF Typed
<1>4. LoadsFit' BY <1>1 DEF LoadsFit, TypedLoadFits, ChildSeesItsScope
<1> QED BY <1>1, <1>2, <1>3, <1>4 DEF ManifestInv

(* The invariant of every load of a manifest and every use of it.           *)
LEMMA LoadsHold == ManifestSpec => []ManifestInv
<1>1. ManifestInit => ManifestInv BY FirstVisit
<1>2. ManifestInv /\ [ManifestNext]_manifestVars => ManifestInv'
  <2> SUFFICES ASSUME ManifestInv, [ManifestNext]_manifestVars PROVE ManifestInv' OBVIOUS
  <2>1. CASE VisitParent \/ Emit BY <2>1, VisitsKeep
  <2>2. CASE Merge BY <2>2, MergeKeeps
  <2>3. CASE Validate BY <2>3, ValidateKeeps
  <2>4. ASSUME NEW p \in Profiles, NEW stored \in SUBSET Names, NEW scope \in SUBSET Names,
               TypedLoad(p, stored, scope)
        PROVE  ManifestInv'
    BY <2>4, LoadKeeps
  <2>5. ASSUME NEW p \in Profiles, NEW stored \in SUBSET Names, NEW inherited \in SUBSET Names,
               ScopedRun(p, stored, inherited)
        PROVE  ManifestInv'
    BY <2>5, RunKeeps
  <2>6. CASE UNCHANGED manifestVars BY <2>6, IdleKeeps
  <2> QED BY <2>1, <2>2, <2>3, <2>4, <2>5, <2>6 DEF ManifestNext
<1> QED BY <1>1, <1>2, PTL DEF ManifestSpec

(* The visits in progress are of different documents.                       *)
LEMMA CountsVisits ==
    ASSUME ManifestInv PROVE Cardinality(Active) = Len(stack) /\ \A i \in DOMAIN stack : stack[i].doc \in Docs
<1> DEFINE s == [i \in 1..Len(stack) |-> stack[i].doc]
<1>1. stack \in Seq(Visit) /\ PathOf(stack, Emitted) BY DEF ManifestInv, LoadTypes, Visited
<1>2. Len(stack) \in Nat /\ DOMAIN stack = 1..Len(stack) BY <1>1
<1>3. \A i \in 1..Len(stack) : stack[i].doc \in Docs
  <2>1. \A i \in 1..Len(stack) : stack[i] \in Visit BY <1>1, <1>2
  <2> QED BY <2>1 DEF Visit
<1>4. s \in Seq(Docs) /\ Len(s) = Len(stack) /\ DOMAIN s = 1..Len(stack)
  BY <1>2, <1>3
<1>5. \A i, j \in 1..Len(stack) : stack[i].doc = stack[j].doc => i = j
  <2>1. \A i, j \in 1..Len(stack) : i < j => stack[i].doc # stack[j].doc BY <1>1, <1>2 DEF PathOf
  <2> QED BY <1>2, <2>1
<1>6. ToSet(s) = Active BY <1>2, <1>4 DEF ToSet, Active
<1>7. \A i, j \in DOMAIN s : s[i] = s[j] => i = j BY <1>4, <1>5
<1> HIDE DEF s
<1> QED BY <1>2, <1>3, <1>4, <1>6, <1>7, CountedOnce

(* Every variable keeps its type, and no document is visited twice on the   *)
(* way to another.                                                          *)
THEOREM LoadsAreTyped == ManifestSpec => []ManifestTypeOK
<1>1. ManifestInv => ManifestTypeOK BY CountsVisits DEF ManifestInv, LoadTypes, ManifestTypeOK
<1> QED BY <1>1, LoadsHold, PTL

(* Documents that extend one another load as one manifest, in which each    *)
(* counts once and after what it extends; a load fails for a cycle only if  *)
(* there is one, and no definition outlives that of a document that extends *)
(* its own (config.rs, `ConfigGraphLoader`).                                *)
THEOREM GraphsMerge == ManifestSpec => []DocumentsMerge
<1>1. ManifestInv => DocumentsMerge BY MergesOnce, NoneOutlives DEF DocumentsMerge
<1> QED BY <1>1, LoadsHold, PTL

(* A manifest that validation accepts can be satisfied: with all else       *)
(* stored, none of its composed secrets is missing.                         *)
THEOREM AcceptedCanCompose == ManifestSpec => []AcceptedComposes
<1>1. ManifestInv => AcceptedComposes
  <2> SUFFICES ASSUME ManifestInv, phase = "ready", NEW p \in Profiles, Declares(p)
               PROVE  Present(p, Names) = NamesOf(p)
    BY DEF AcceptedComposes
  <2>1. ValidGraph(p) BY DEF ManifestInv, Typed, Valid
  <2> QED BY <2>1, AcceptedIsPresent
<1> QED BY <1>1, LoadsHold, PTL

(* What a program is given fits what the manifest promises of it, whether   *)
(* it loads typed secrets or is run with those that a scope admits.         *)
THEOREM PromisesFit == ManifestSpec => []LoadsFit
<1>1. ManifestInv => LoadsFit BY DEF ManifestInv
<1> QED BY <1>1, LoadsHold, PTL
=============================================================================
