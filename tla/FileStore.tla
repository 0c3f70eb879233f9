----------------------------- MODULE FileStore -----------------------------
(***************************************************************************)
(* The providers that keep all their secrets in one file: dotenv (plain),  *)
(* age (the same text, encrypted) and kdbx (a KeePass database).  A write  *)
(* reads the whole file, changes one key and writes the whole file back:   *)
(* dotenv and age in place (`fs::write` truncates, then fills), kdbx under *)
(* a lock of the process and by an atomic replacement.                     *)
(*                                                                         *)
(* `acked` is the ghost of what the completed writes should have left, and *)
(* `spoiled` notes that something the code does not defend against has     *)
(* happened: a write completed between another's read and write, or a      *)
(* write in place was cut short.  From then on `acked` is not kept.        *)
(***************************************************************************)
EXTENDS Integers, FiniteSets

CONSTANTS
    Procs,     \* operating system processes
    Threads,   \* their threads
    Homes,     \* ways the threads may be spread over the processes
    Kinds,     \* the kinds of store to choose from
    Keys,      \* entries of the file
    Odd,       \* keys outside dotenv's grammar [A-Za-z_][A-Za-z0-9_.]*
    Titles,    \* keys that address a KeePass entry's `Title` field
    Ambiguous, \* keys under a KeePass group or title that is not unique
    Values,
    NoValue

AllKinds == {"dotenv", "age", "kdbx"}
Free     == "free"
Maybe    == Values \cup {NoValue}
Vars     == [Keys -> Maybe]
NoVars   == [k \in Keys |-> NoValue]

ASSUME FileStoreAssumption ==
    /\ Homes \subseteq [Threads -> Procs]
    /\ Kinds \subseteq AllKinds
    /\ Keys # {} /\ Odd \cup Titles \cup Ambiguous \subseteq Keys
    /\ NoValue \notin Values
    /\ Free \notin Threads

VARIABLES
    kind,    \* the kind of store
    home,    \* the process of each thread
    file,    \* the file: absent, emptied, readable or not, and what it holds
    lock,    \* KDBX_IO_LOCK of each process: its holder
    call,    \* each thread's call of the provider
    acked,   \* what the completed writes stored
    spoiled  \* see above

vars == <<kind, home, file, lock, call, acked, spoiled>>

Form == {"absent", "empty", "whole", "broken"}
File(form, v) == [form |-> form, kdbx3 |-> FALSE, vars |-> v]

Blank ==
    [pc |-> "idle", op |-> "get", keys |-> {}, key |-> CHOOSE k \in Keys : TRUE,
     value |-> NoValue, buf |-> NoVars, result |-> "none", seen |-> {}]

Init ==
    /\ kind \in Kinds
    /\ home \in Homes
    /\ \/ file = File("absent", NoVars)
       \/ \E v \in Vars, old \in BOOLEAN :
            /\ kind = "dotenv" => \A k \in Odd : v[k] = NoValue
            /\ kind = "age" => \A k \in Odd : v[k] = NoValue
            /\ old => kind = "kdbx"
            /\ file = [form |-> "whole", kdbx3 |-> old, vars |-> v]
    /\ lock = [p \in Procs |-> Free]
    /\ call = [t \in Threads |-> Blank]
    /\ acked = file.vars
    /\ spoiled = FALSE

At(t, pc)     == call[t].pc = pc
Done(c, how)  == [c EXCEPT !.pc = "done", !.result = how]
Moves(t, c)   == call' = [call EXCEPT ![t] = c]
Quietly(t, c) == Moves(t, c) /\ UNCHANGED <<kind, home, file, lock, acked, spoiled>>
Locked        == kind = "kdbx"
-----------------------------------------------------------------------------
(* dotenv refuses a name its parser could not read back, before it touches  *)
(* the file; age, which stores the same text, does not.  kdbx refuses to    *)
(* write an entry's title.                                                  *)
Refuses(op, k) ==
    \/ kind = "dotenv" /\ k \in Odd
    \/ kind = "kdbx" /\ op = "set" /\ k \in Titles

Started(op) ==
    IF kind # "kdbx" THEN "load" ELSE IF op = "set" THEN "check" ELSE "lock"

(* A read of several keys is one read of the file, but for dotenv, which    *)
(* reads it once for each.                                                  *)
Get(t, K) ==
    /\ At(t, "idle")
    /\ K # {} /\ (kind = "dotenv" => Cardinality(K) = 1)
    /\ LET c == [Blank EXCEPT !.keys = K, !.seen = IF file.form \in {"absent", "whole"}
                                                   THEN {file.vars} ELSE {}]
       IN Quietly(t, IF \E k \in K : Refuses("get", k) THEN Done(c, "refused")
                     ELSE [c EXCEPT !.pc = Started("get")])

Set(t, k, v) ==
    /\ At(t, "idle")
    /\ LET c == [Blank EXCEPT !.op = "set", !.key = k, !.value = v]
       IN Quietly(t, IF Refuses("set", k) THEN Done(c, "refused")
                     ELSE [c EXCEPT !.pc = Started("set")])

(* Of the three only dotenv can delete.                                     *)
Delete(t, k) ==
    /\ At(t, "idle")
    /\ kind = "dotenv"
    /\ LET c == [Blank EXCEPT !.op = "delete", !.key = k]
       IN Quietly(t, IF Refuses("delete", k) THEN Done(c, "refused")
                     ELSE [c EXCEPT !.pc = Started("delete")])

(* `check_writable` looks at the version before the lock is taken.          *)
CheckVersion(t) ==
    /\ At(t, "check")
    /\ Quietly(t, IF file.kdbx3 THEN Done(call[t], "refused")
                  ELSE [call[t] EXCEPT !.pc = "lock"])

LockUnguarded(t) ==
    /\ At(t, "lock")
    /\ Quietly(t, [call[t] EXCEPT !.pc = "load"])

Lock(t) ==
    /\ At(t, "lock")
    /\ lock[home[t]] = Free
    /\ lock' = [lock EXCEPT ![home[t]] = t]
    /\ Moves(t, [call[t] EXCEPT !.pc = "load"])
    /\ UNCHANGED <<kind, home, file, acked, spoiled>>

(* The guard is dropped when the call returns.                              *)
Unlocked(t) ==
    [p \in Procs |-> IF p = home[t] /\ lock[p] = t THEN Free ELSE lock[p]]

Returns(t, c) == Moves(t, c) /\ lock' = Unlocked(t) /\ UNCHANGED <<kind, home, file, acked, spoiled>>
-----------------------------------------------------------------------------
(* An emptied .env file parses, as one without variables; an emptied age    *)
(* file does not decrypt.                                                   *)
ReadableIfEmptied == file.form # "broken"

Readable == file.form # "broken" /\ (file.form = "empty" => kind = "dotenv")

Answers(c) ==
    IF kind = "kdbx" /\ \E k \in c.keys : k \in Ambiguous THEN Done(c, "failed")
    ELSE [Done(c, "ok") EXCEPT !.buf = file.vars]

(* Deleting what is not there leaves the file as it is.  kdbx creates the   *)
(* groups on the way to the entry, which must be unique.                    *)
Edits(c) ==
    IF c.op = "delete" /\ file.vars[c.key] = NoValue THEN Done(c, "absent")
    ELSE IF kind = "kdbx" /\ (file.kdbx3 \/ c.key \in Ambiguous) THEN Done(c, "failed")
    ELSE [c EXCEPT !.pc = "write", !.buf = [file.vars EXCEPT ![c.key] = c.value]]

Load(t) ==
    /\ At(t, "load")
    /\ LET c == IF ~Readable THEN Done(call[t], "failed")
                ELSE IF call[t].op = "get" THEN Answers(call[t]) ELSE Edits(call[t])
       IN IF c.pc = "done" THEN Returns(t, c) ELSE Quietly(t, c)
-----------------------------------------------------------------------------
(* What the file may come to hold.  Text that is not in dotenv's grammar is *)
(* not read back.  The lines are sorted, so a write that is cut short       *)
(* leaves some of them, an empty value after the last `=` (which stands for *)
(* no stored one), or a line that does not parse; of a short encrypted file *)
(* nothing can be read.                                                     *)
Written(v) ==
    IF kind # "kdbx" /\ \E k \in Odd : v[k] # NoValue THEN File("broken", NoVars)
    ELSE File("whole", v)

Torn(v) ==
    {File("empty", NoVars), File("broken", NoVars)} \cup
    IF kind # "dotenv" THEN {}
    ELSE {File("whole", [k \in Keys |-> IF k \in K THEN v[k] ELSE NoValue]) : K \in SUBSET Keys}

(* Filling a file another writer has filled since it was emptied leaves the *)
(* longer text's tail behind.                                               *)
Mixed(v) ==
    {Written(v), File("broken", NoVars)} \cup
    IF kind # "dotenv" THEN {}
    ELSE {File("whole", [k \in Keys |-> IF k \in K THEN file.vars[k] ELSE v[k]]) : K \in SUBSET Keys}

Witnessed(c) ==
    IF c.op = "get" /\ c.pc \notin {"idle", "done"} /\ file'.form = "whole"
    THEN [c EXCEPT !.seen = @ \cup {file'.vars}] ELSE c

Stale(t) ==
    \E u \in Threads \ {t} :
        /\ call[u].pc \in {"write", "fill"}
        /\ Locked => home[u] # home[t]

Commits(t) ==
    /\ call' = [u \in Threads |-> IF u = t THEN Done(call[t], "ok") ELSE Witnessed(call[u])]
    /\ spoiled' = (spoiled \/ Stale(t) \/ file'.form = "broken")
    /\ acked' = IF spoiled' THEN NoVars ELSE [acked EXCEPT ![call[t].key] = call[t].value]
    /\ lock' = Unlocked(t)
    /\ UNCHANGED <<kind, home>>

Truncate(t) ==
    /\ At(t, "write") /\ ~Locked
    /\ file' = File("empty", NoVars)
    /\ Moves(t, [call[t] EXCEPT !.pc = "fill"])
    /\ UNCHANGED <<kind, home, lock, acked, spoiled>>

Fill(t) ==
    /\ At(t, "fill")
    /\ IF file.form = "empty" THEN file' = Written(call[t].buf) ELSE file' \in Mixed(call[t].buf)
    /\ Commits(t)

FillFails(t) ==
    /\ At(t, "fill")
    /\ file' \in Torn(call[t].buf)
    /\ call' = [u \in Threads |-> IF u = t THEN Done(call[t], "failed") ELSE Witnessed(call[u])]
    /\ spoiled' = TRUE
    /\ acked' = NoVars
    /\ UNCHANGED <<kind, home, lock>>

(* `save`: a temporary file is written, flushed and renamed over the file.  *)
Replace(t) ==
    /\ At(t, "write") /\ Locked
    /\ file' = Written(call[t].buf)
    /\ Commits(t)

(* A disk error, a key or a recipient that cannot be had: before the file   *)
(* is touched.                                                              *)
LoadFails(t) == At(t, "load") /\ Returns(t, Done(call[t], "failed"))

WriteFails(t) ==
    /\ At(t, "write")
    /\ Returns(t, Done(call[t], "failed"))

Return(t) == At(t, "done") /\ Quietly(t, Blank)
-----------------------------------------------------------------------------
(* A process dies with all its threads, in the middle of a write in place   *)
(* too.                                                                     *)
Crash(p) ==
    LET mine == {t \in Threads : home[t] = p}
        filling == {t \in mine : At(t, "fill")}
    IN /\ \E t \in mine : ~At(t, "idle")
       /\ IF filling = {} THEN file' = file
          ELSE \E t \in filling : file' \in Torn(call[t].buf) \cup {file}
       /\ call' = [t \in Threads |-> IF t \in mine THEN Blank ELSE Witnessed(call[t])]
       /\ lock' = [lock EXCEPT ![p] = Free]
       /\ spoiled' = (spoiled \/ filling # {})
       /\ acked' = IF spoiled' THEN NoVars ELSE acked
       /\ UNCHANGED <<kind, home>>

(* KeePass saves the database as KDBX 4.                                    *)
Upgrade ==
    /\ file.kdbx3
    /\ file' = [file EXCEPT !.kdbx3 = FALSE]
    /\ UNCHANGED <<kind, home, lock, call, acked, spoiled>>

Next ==
    \/ \E t \in Threads :
         \/ \E K \in SUBSET Keys : Get(t, K)
         \/ \E k \in Keys : Delete(t, k) \/ \E v \in Values : Set(t, k, v)
         \/ CheckVersion(t) \/ Lock(t) \/ Load(t) \/ Truncate(t) \/ Fill(t) \/ FillFails(t)
         \/ Replace(t) \/ LoadFails(t) \/ WriteFails(t) \/ Return(t)
    \/ \E p \in Procs : Crash(p)
    \/ Upgrade

Spec == Init /\ [][Next]_vars
-----------------------------------------------------------------------------
CallType ==
    [pc : {"idle", "check", "lock", "load", "write", "fill", "done"},
     op : {"get", "set", "delete"}, keys : SUBSET Keys, key : Keys, value : Maybe,
     buf : Vars, result : {"none", "ok", "absent", "refused", "failed"}, seen : SUBSET Vars]

(* Every variable stays in its type, and a process's lock is held by one of *)
(* its threads that is reading or writing the file.                         *)
TypeOK ==
    /\ kind \in Kinds
    /\ home \in Homes
    /\ file \in [form : Form, kdbx3 : BOOLEAN, vars : Vars]
    /\ lock \in [Procs -> Threads \cup {Free}]
    /\ call \in [Threads -> CallType]
    /\ acked \in Vars
    /\ spoiled \in BOOLEAN
    /\ \A p \in Procs : lock[p] # Free =>
         home[lock[p]] = p /\ call[lock[p]].pc \in {"load", "write"}

(* As long as no write in place was cut short, no two writes overlapped     *)
(* unprotected and age was given no name it cannot read back, the file      *)
(* holds exactly what the completed writes stored: no write loses another   *)
(* key.  For kdbx this holds across crashes and for the concurrent threads  *)
(* of a process.                                                            *)
NothingLost ==
    ~spoiled /\ (\A t \in Threads : ~At(t, "fill")) =>
        file.form \in {"absent", "whole"} /\ file.vars = acked

(* What a read of an age or a kdbx file returns, the file held all at once  *)
(* at a moment of the read; a half-written file is an error, not an answer. *)
(* A dotenv read may take a file being rewritten for one without variables, *)
(* but only then.                                                           *)
ReadsAreWhole ==
    \A t \in Threads :
        LET c == call[t]
        IN c.op = "get" /\ c.result = "ok" /\ (kind = "dotenv" => ~spoiled /\ c.seen # {}) =>
              \E v \in c.seen : \A k \in c.keys : c.buf[k] = v[k] \/ (kind = "dotenv" /\ c.buf[k] = NoValue)

(* dotenv.rs says of the format it shares with age: what `set` accepts,     *)
(* `get` can read back; a single accepted write of a name the parser does   *)
(* not take poisons the whole file.  So an undisturbed store stays readable.*)
SetMirrorsGet ==
    \A t \in Threads :
        LET Alone == \A u \in Threads \ {t} : At(u, "idle")
        IN call[t].op = "set" /\ call[t].result = "ok" /\ Alone => file.form # "broken"
=============================================================================
