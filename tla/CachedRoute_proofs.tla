------------------------ MODULE CachedRoute_proofs ------------------------
(***************************************************************************)
(* Proofs about CachedRoute for any set of processes, stores, aliases and  *)
(* chains, any bounds and any combination of failures.                     *)
(*                                                                         *)
(* TypeOK is not inductive alone: that a cache address is only ever looked *)
(* up for a cached alias needs ControlOK.  The two together are, and       *)
(* OwnershipRespected follows from them.  HistoryOK, added to them, is the *)
(* invariant behind HitIsRecent; Standing, where commands run one at a     *)
(* time, the one behind HitIsCurrent.                                      *)
(***************************************************************************)
EXTENDS CachedRoute, WellFoundedInduction, TLAPS

USE DEF Specs, Values, NoValue, Wall

Inv == TypeOK /\ ControlOK

(* A chain is a non-empty sequence of leaf stores. *)
LEMMA ChainType ==
    ASSUME NEW spec \in Specs
    PROVE  /\ Chain(spec) \in Seq(Sources)
           /\ 1 \in DOMAIN Chain(spec)
           /\ Primary(spec) \in Sources
           /\ spec \in Aliases => Chain(spec) = ChainOf[spec]
<1>1. CASE spec \in Aliases
  <2>1. ChainOf[spec] \in Seq(Sources) /\ ChainOf[spec] # <<>>
    BY <1>1, ConstantsAssumption
  <2>2. 1 \in DOMAIN ChainOf[spec] /\ ChainOf[spec][1] \in Sources
    BY <2>1
  <2> QED BY <1>1, <2>1, <2>2 DEF Chain, Primary
<1>2. CASE spec \notin Aliases
  <2>1. spec \in Sources BY <1>2
  <2>2. <<spec>> \in Seq(Sources) /\ 1 \in DOMAIN <<spec>> /\ <<spec>>[1] = spec
    BY <2>1
  <2> QED BY <1>2, <2>1, <2>2 DEF Chain, Primary
<1> QED BY <1>1, <1>2

(* The cached alias an operation keeps in step is a spec. *)
LEMMA SyncType ==
    ASSUME NEW op, NEW spec \in Specs
    PROVE  SyncAlias(op, spec) \in Specs
BY ConstantsAssumption DEF SyncAlias

LEMMA InitInv == Init => Inv
<1> SUFFICES ASSUME Init PROVE Inv OBVIOUS
<1>1. Idle \in Process
  BY ConstantsAssumption DEF Idle, Process
<1>2. TypeOK
  BY <1>1, ConstantsAssumption DEF Init, TypeOK, Entry
<1>3. ControlOf(Idle)
  BY DEF ControlOf, Idle
<1>4. ControlOK
  BY <1>3 DEF Init, ControlOK
<1> QED BY <1>2, <1>4 DEF Inv

-----------------------------------------------------------------------------
(* One process moves to a record of the right type and control; the others  *)
(* stay.                                                                    *)
LEMMA ProcessMoves ==
    ASSUME Inv, NEW p \in Procs, NEW r \in Process, ControlOf(r),
           proc' = [proc EXCEPT ![p] = r]
    PROVE  proc' \in [Procs -> Process] /\ ControlOK'
<1>1. proc' \in [Procs -> Process]
  BY DEF Inv, TypeOK
<1>2. ASSUME NEW q \in Procs PROVE ControlOf(proc'[q])
  <2>1. CASE q = p BY <2>1 DEF Inv, TypeOK
  <2>2. CASE q # p BY <2>2 DEF Inv, TypeOK, ControlOK
  <2> QED BY <2>1, <2>2
<1> QED BY <1>1, <1>2 DEF ControlOK

(* The label and the result of a process change, its operation goes on. *)
LEMMA GotoMoves ==
    ASSUME Inv, NEW p \in Procs,
           NEW label \in {"walk", "open", "check"}, Goto(p, label),
           label = "walk" => proc[p].op = "get" /\ proc[p].value = NoValue,
           label \in {"open", "check"} => Synced(p) \in Aliases,
           label \in {"open", "check"} /\ Evicting(p) => proc[p].spec \in Aliases
    PROVE  proc' \in [Procs -> Process] /\ ControlOK'
<1> DEFINE r == [proc[p] EXCEPT !.pc = label]
<1>1. proc[p] \in Process BY DEF Inv, TypeOK
<1>2. r \in Process BY <1>1 DEF Process
<1>3. ControlOf(r) BY <1>1 DEF ControlOf, Synced, Process, Evicting
<1>4. proc' = [proc EXCEPT ![p] = r] BY <1>1 DEF Goto, Inv, TypeOK
<1> QED BY <1>2, <1>3, <1>4, ProcessMoves

LEMMA FinishMoves ==
    ASSUME Inv, NEW p \in Procs,
           NEW result \in {"none", "hit", "value", "missing", "ok", "error"},
           Finish(p, result)
    PROVE  proc' \in [Procs -> Process] /\ ControlOK'
<1> DEFINE r == [proc[p] EXCEPT !.pc = "done", !.result = result]
<1>1. proc[p] \in Process BY DEF Inv, TypeOK
<1>2. r \in Process BY <1>1 DEF Process
<1>3. ControlOf(r) BY <1>1 DEF ControlOf, Process
<1>4. proc' = [proc EXCEPT ![p] = r] BY <1>1 DEF Finish, Inv, TypeOK
<1> QED BY <1>2, <1>3, <1>4, ProcessMoves

LEMMA ResultType ==
    ASSUME NEW p \in Procs
    PROVE  Result(p) \in {"none", "hit", "value", "missing", "ok", "error"}
BY DEF Result

(* Writing an authoritative store or a cache store keeps their types. *)
LEMMA SetAuthType ==
    ASSUME TypeOK, NEW s \in Sources, NEW v \in Values \cup {NoValue}, SetAuth(s, v)
    PROVE  /\ auth' \in [Sources -> Values \cup {NoValue}]
           /\ lastHeld' \in [Sources -> [Values -> Nat]]
BY DEF TypeOK, SetAuth, Held

LEMMA PutType ==
    ASSUME TypeOK, NEW c \in CacheStores, NEW e \in Entry, Put(c, e)
    PROVE  /\ cache' \in [CacheStores -> Entry]
           /\ suspect' \in [CacheStores -> BOOLEAN]
BY DEF TypeOK, Put

LEMMA BeginInv ==
    ASSUME Inv, NEW p \in Procs, NEW op, NEW spec \in Specs, NEW label,
           NEW value \in Values \cup {NoValue}, Begin(p, op, spec, label, value),
           written' \in 0..MaxVersion,
           \/ op = "get" /\ label = "read" /\ spec \in Aliases /\ value = NoValue
           \/ op = "get" /\ label = "walk" /\ value = NoValue
           \/ op = "set" /\ label = "write" /\ value \in Values
           \/ op = "delete" /\ label = "remove"
           \/ op = "clear" /\ label = "open" /\ Declared \in Aliases
    PROVE  Inv'
<1> DEFINE r == [Idle EXCEPT !.pc = label, !.op = op, !.spec = spec,
                             !.value = value, !.asked = now]
<1>1. r \in Process
  BY ConstantsAssumption DEF Idle, Process, Inv, TypeOK
<1>2. ControlOf(r)
  BY DEF ControlOf, Idle, SyncAlias
<1>3. proc' = [proc EXCEPT ![p] = r]
  BY DEF Begin
<1>4. proc' \in [Procs -> Process] /\ ControlOK'
  BY <1>1, <1>2, <1>3, ProcessMoves
<1>5. TypeOK'
  BY <1>4 DEF Inv, TypeOK, Begin
<1> QED BY <1>4, <1>5 DEF Inv

-----------------------------------------------------------------------------
(* Every action keeps Inv: one lemma per action. *)

LEMMA CommandsInv ==
    ASSUME Inv, NEW p \in Procs, NEW spec \in Commanded,
           Get(p, spec) \/ Set(p, spec) \/ Delete(p, spec) \/ ClearCache(p)
    PROVE  Inv'
<1>0. spec \in Specs /\ Declared \in Specs
  BY ConstantsAssumption DEF Commanded
<1>1. written \in 0..MaxVersion /\ MaxVersion \in Nat
  BY ConstantsAssumption DEF Inv, TypeOK
<1>2. CASE Get(p, spec)
  BY <1>0, <1>1, <1>2, BeginInv DEF Get
<1>3. CASE Set(p, spec)
  <2>1. written' \in Values /\ written' \in 0..MaxVersion
    BY <1>1, <1>3 DEF Set
  <2>2. Begin(p, "set", spec, "write", written')
    BY <1>3 DEF Set
  <2> QED BY <1>0, <2>1, <2>2, BeginInv
<1>4. CASE Delete(p, spec)
  BY <1>0, <1>1, <1>4, BeginInv DEF Delete
<1>5. CASE ClearCache(p)
  BY <1>0, <1>1, <1>5, BeginInv DEF ClearCache
<1> QED BY <1>2, <1>3, <1>4, <1>5

(* A fresh verdict is only ever given to an entry of ours. *)
LEMMA FreshIsOurs ==
    ASSUME NEW e \in Entry, e # Absent, NEW f, NEW age, NEW wall, NEW clockOk,
           CachedEntry(e, f, age, wall, clockOk) = "Fresh"
    PROVE  /\ e \in Envelope /\ e.kind = "ours"
           /\ e.route_fingerprint = f
           /\ ~Expired(e, age, wall)
BY DEF Entry, Absent, Foreign, Torn, Unmarked, Envelope, CachedEntry, Ownership

LEMMA ReadCachedInv ==
    ASSUME Inv, NEW p \in Procs, ReadCached(p)
    PROVE  Inv'
<1> DEFINE spec  == proc[p].spec
           entry == cache[CacheOf[spec]]
           Worth(ok) == CachedEntry(entry, ChainOf[spec], MaxAge, Wall, ok)
<1>1. /\ proc[p].pc = "read" /\ proc[p].op = "get" /\ spec \in Aliases
      /\ proc[p].value = NoValue /\ proc[p] \in Process
  BY DEF ReadCached, Inv, TypeOK, ControlOK, ControlOf
<1>2. entry \in Entry
  BY <1>1, ConstantsAssumption DEF Inv, TypeOK
<1>3. CASE Goto(p, "walk")
  <2>1. proc' \in [Procs -> Process] /\ ControlOK'
    BY <1>1, <1>3, GotoMoves
  <2> QED BY <2>1 DEF ReadCached, Inv, TypeOK
<1>4. CASE Goto(p, "check")
  <2>1. Synced(p) \in Aliases
    BY <1>1 DEF Synced, SyncAlias
  <2>2. proc' \in [Procs -> Process] /\ ControlOK'
    BY <1>1, <1>4, <2>1, GotoMoves
  <2> QED BY <2>2 DEF ReadCached, Inv, TypeOK
<1>5. ASSUME NEW ok \in BOOLEAN, entry # Absent, Worth(ok) = "Fresh",
             proc' = [proc EXCEPT ![p].pc = "done", ![p].result = "hit",
                                  ![p].value = entry.value]
      PROVE  Inv'
  <2> DEFINE r == [proc[p] EXCEPT !.pc = "done", !.result = "hit", !.value = entry.value]
  <2>1. entry.value \in Values
    BY <1>2, <1>5, FreshIsOurs DEF Envelope
  <2>2. r \in Process
    BY <1>1, <2>1 DEF Process
  <2>3. ControlOf(r)
    BY <1>1 DEF ControlOf, Process
  <2>4. proc' = [proc EXCEPT ![p] = r]
    BY <1>5 DEF Inv, TypeOK
  <2>5. proc' \in [Procs -> Process] /\ ControlOK'
    BY <2>2, <2>3, <2>4, ProcessMoves
  <2> QED BY <2>5 DEF ReadCached, Inv, TypeOK
<1> QED BY <1>3, <1>4, <1>5 DEF ReadCached

LEMMA WalkInv ==
    ASSUME Inv, NEW p \in Procs, WalkLink(p) \/ WalkEnds(p)
    PROVE  Inv'
<1> DEFINE spec == proc[p].spec
           link == proc[p].link
           held == auth[Chain(spec)[link]]
<1>1. /\ proc[p].pc = "walk" /\ proc[p].op = "get"
      /\ proc[p].value = NoValue /\ proc[p] \in Process /\ spec \in Specs
  BY DEF WalkLink, WalkEnds, Inv, TypeOK, ControlOK, ControlOf, Process
<1>2. CASE WalkEnds(p)
  <2>1. proc' \in [Procs -> Process] /\ ControlOK'
    BY <1>2, FinishMoves DEF WalkEnds
  <2> QED BY <1>2, <2>1 DEF WalkEnds, Inv, TypeOK
<1>3. CASE WalkLink(p)
  <2> DEFINE broken == [proc[p] EXCEPT !.link = link + 1, !.skipped = @ \cup {link}]
             absent == [proc[p] EXCEPT !.link = link + 1]
             found  == [proc[p] EXCEPT !.pc = IF spec \in Aliases THEN "refresh" ELSE "done",
                                       !.value = held,
                                       !.result = IF spec \in Aliases THEN "none" ELSE "value"]
  <2>1. link \in DOMAIN Chain(spec) /\ Chain(spec) \in Seq(Sources) /\ link \in Nat
    BY <1>1, <1>3, ChainType DEF WalkLink, Process
  <2>2. held \in Values \cup {NoValue}
    BY <2>1 DEF Inv, TypeOK
  <2>3. broken \in Process /\ ControlOf(broken)
    <3>1. proc[p].skipped \cup {link} \in SUBSET Nat /\ link + 1 \in Nat
      BY <1>1, <2>1 DEF Process
    <3>2. broken \in Process
      BY <1>1, <3>1 DEF Process
    <3>3. ControlOf(broken)
      BY <1>1 DEF Process, ControlOf
    <3> QED BY <3>2, <3>3
  <2>4. absent \in Process /\ ControlOf(absent)
    BY <1>1, <2>1 DEF Process, ControlOf
  <2>5. ASSUME held # NoValue PROVE found \in Process /\ ControlOf(found)
    BY <1>1, <2>2, <2>5 DEF Process, ControlOf, SyncAlias
  <2>6. \/ proc' = [proc EXCEPT ![p] = broken]
        \/ proc' = [proc EXCEPT ![p] = absent]
        \/ held # NoValue /\ proc' = [proc EXCEPT ![p] = found]
    BY <1>3 DEF WalkLink, Inv, TypeOK
  <2>7. proc' \in [Procs -> Process] /\ ControlOK'
    BY <2>3, <2>4, <2>5, <2>6, ProcessMoves
  <2> QED BY <1>3, <2>7 DEF WalkLink, Inv, TypeOK
<1> QED BY <1>2, <1>3

LEMMA SyncStoreType ==
    ASSUME Inv, NEW p \in Procs, Synced(p) \in Aliases
    PROVE  SyncStore(p) \in CacheStores /\ cache[SyncStore(p)] \in Entry
BY ConstantsAssumption DEF SyncStore, Inv, TypeOK

LEMMA UnacknowledgedMoves ==
    ASSUME Inv, NEW p \in Procs, Unacknowledged(p)
    PROVE  /\ proc' \in [Procs -> Process] /\ ControlOK'
           /\ suspect' \in [CacheStores -> BOOLEAN]
<1>1. proc' \in [Procs -> Process] /\ ControlOK'
  BY FinishMoves DEF Unacknowledged
<1>2. suspect' \in [CacheStores -> BOOLEAN]
  BY DEF Unacknowledged, Inv, TypeOK
<1> QED BY <1>1, <1>2

(* A change the authoritative store accepted, and where it goes next. *)
LEMMA AcceptedMoves ==
    ASSUME Inv, NEW p \in Procs, NEW label,
           proc' = [proc EXCEPT ![p].pc = label, ![p].result = "ok"],
           \/ /\ proc[p].pc = "write" /\ label = SyncAfterWrite(proc[p].spec)
           \/ /\ proc[p].pc = "remove" /\ label = SyncAfterDelete(proc[p].spec)
    PROVE  proc' \in [Procs -> Process] /\ ControlOK'
<1> DEFINE r == [proc[p] EXCEPT !.pc = label, !.result = "ok"]
<1>1. proc[p] \in Process /\ ControlOf(proc[p])
  BY DEF Inv, TypeOK, ControlOK
<1>2. r \in Process
  BY <1>1 DEF Process, SyncAfterWrite, SyncAfterDelete
<1>3. ControlOf(r)
  <2>1. CASE proc[p].pc = "write" /\ label = SyncAfterWrite(proc[p].spec)
    BY <1>1, <2>1 DEF Process, ControlOf, SyncAfterWrite, SyncAlias
  <2>2. CASE proc[p].pc = "remove" /\ label = SyncAfterDelete(proc[p].spec)
    BY <1>1, <2>2 DEF Process, ControlOf, SyncAfterDelete, SyncAlias
  <2> QED BY <2>1, <2>2
<1>4. proc' = [proc EXCEPT ![p] = r]
  BY DEF Inv, TypeOK
<1> QED BY <1>2, <1>3, <1>4, ProcessMoves

LEMMA WriteAuthoritativeInv ==
    ASSUME Inv, NEW p \in Procs, WriteAuthoritative(p)
    PROVE  Inv'
<1>1. proc[p].pc = "write" /\ proc[p].value \in Values /\ proc[p].spec \in Specs
  BY DEF WriteAuthoritative, Inv, TypeOK, ControlOK, ControlOf, Process
<1>2. Primary(proc[p].spec) \in Sources
  BY <1>1, ChainType
<1>3. CASE SetAuth(Primary(proc[p].spec), proc[p].value)
           /\ proc' = [proc EXCEPT ![p].pc = SyncAfterWrite(proc[p].spec), ![p].result = "ok"]
           /\ UNCHANGED suspect
  <2>1. proc' \in [Procs -> Process] /\ ControlOK'
    BY <1>1, <1>3, AcceptedMoves
  <2> QED BY <1>1, <1>2, <1>3, <2>1, SetAuthType DEF WriteAuthoritative, Inv, TypeOK
<1>4. CASE SetAuth(Primary(proc[p].spec), proc[p].value) /\ Unacknowledged(p)
  BY <1>1, <1>2, <1>4, UnacknowledgedMoves, SetAuthType DEF WriteAuthoritative, Inv, TypeOK
<1>5. CASE Finish(p, "error") /\ UNCHANGED <<auth, lastHeld, suspect>>
  <2>1. proc' \in [Procs -> Process] /\ ControlOK'
    BY <1>5, FinishMoves
  <2> QED BY <1>5, <2>1 DEF WriteAuthoritative, Inv, TypeOK
<1> QED BY <1>3, <1>4, <1>5 DEF WriteAuthoritative

LEMMA RemoveAuthoritativeInv ==
    ASSUME Inv, NEW p \in Procs, RemoveAuthoritative(p)
    PROVE  Inv'
<1>1. proc[p].pc = "remove" /\ proc[p].spec \in Specs
  BY DEF RemoveAuthoritative, Inv, TypeOK, Process
<1>2. Primary(proc[p].spec) \in Sources
  BY <1>1, ChainType
<1>3. CASE SetAuth(Primary(proc[p].spec), NoValue)
           /\ proc' = [proc EXCEPT ![p].pc = SyncAfterDelete(proc[p].spec), ![p].result = "ok"]
           /\ UNCHANGED suspect
  <2>1. proc' \in [Procs -> Process] /\ ControlOK'
    BY <1>1, <1>3, AcceptedMoves
  <2> QED BY <1>1, <1>2, <1>3, <2>1, SetAuthType DEF RemoveAuthoritative, Inv, TypeOK
<1>4. CASE SetAuth(Primary(proc[p].spec), NoValue) /\ Unacknowledged(p)
  BY <1>1, <1>2, <1>4, UnacknowledgedMoves, SetAuthType DEF RemoveAuthoritative, Inv, TypeOK
<1>5. CASE Finish(p, "error") /\ UNCHANGED <<auth, lastHeld, suspect>>
  <2>1. proc' \in [Procs -> Process] /\ ControlOK'
    BY <1>5, FinishMoves
  <2> QED BY <1>5, <2>1 DEF RemoveAuthoritative, Inv, TypeOK
<1> QED BY <1>3, <1>4, <1>5 DEF RemoveAuthoritative

(* The check of an address lets the operation on when it saw nothing there  *)
(* or nothing it may not change.                                            *)
LEMMA PassedCheckMoves ==
    ASSUME Inv, NEW p \in Procs, NEW e \in Entry \cup {Unreadable}, NEW label,
           e = Unreadable \/ MayChange(e),
           proc' = [proc EXCEPT ![p].pc = label, ![p].seen = e],
           \/ proc[p].pc = "refresh" /\ label = "store"
           \/ proc[p].pc = "check" /\ label = "drop"
    PROVE  proc' \in [Procs -> Process] /\ ControlOK'
<1> DEFINE r == [proc[p] EXCEPT !.pc = label, !.seen = e]
<1>1. proc[p] \in Process /\ ControlOf(proc[p])
  BY DEF Inv, TypeOK, ControlOK
<1>2. r \in Process
  BY <1>1 DEF Process
<1>3. ControlOf(r)
  BY <1>1 DEF Process, ControlOf
<1>4. proc' = [proc EXCEPT ![p] = r]
  BY DEF Inv, TypeOK
<1> QED BY <1>2, <1>3, <1>4, ProcessMoves

LEMMA AbsentIsOurs == Absent \in Entry /\ MayChange(Absent)
BY DEF Entry, MayChange

LEMMA RefreshCheckInv ==
    ASSUME Inv, NEW p \in Procs, RefreshCheck(p)
    PROVE  Inv'
<1> DEFINE entry == cache[SyncStore(p)]
<1>1. /\ proc[p].pc = "refresh" /\ Synced(p) \in Aliases
      /\ proc[p].value # NoValue
  BY DEF RefreshCheck, Inv, TypeOK, ControlOK, ControlOf, Synced
<1>2. entry \in Entry
  BY <1>1, SyncStoreType
<1>3. CASE Goto(p, "open")
  <2>1. proc' \in [Procs -> Process] /\ ControlOK'
    BY <1>1, <1>3, GotoMoves DEF Evicting
  <2> QED BY <2>1 DEF RefreshCheck, Inv, TypeOK
<1>4. ASSUME NEW e \in Entry \cup {Unreadable}, e = Unreadable \/ MayChange(e),
             proc' = [proc EXCEPT ![p].pc = "store", ![p].seen = e]
      PROVE  Inv'
  <2>1. proc' \in [Procs -> Process] /\ ControlOK'
    BY <1>1, <1>4, PassedCheckMoves
  <2> QED BY <2>1 DEF RefreshCheck, Inv, TypeOK
<1>5. CASE Finish(p, Result(p))
  <2>1. proc' \in [Procs -> Process] /\ ControlOK'
    BY <1>5, FinishMoves, ResultType
  <2> QED BY <2>1 DEF RefreshCheck, Inv, TypeOK
<1> QED BY <1>2, <1>3, <1>4, <1>5, AbsentIsOurs DEF RefreshCheck

LEMMA EncodedType ==
    ASSUME Inv, NEW p \in Procs, proc[p].pc = "store"
    PROVE  Encoded(p) \in Entry /\ Synced(p) \in Aliases /\ proc[p].value \in Values
<1>1. Synced(p) \in Aliases /\ proc[p].value \in Values /\ proc[p] \in Process
  BY DEF Inv, TypeOK, ControlOK, ControlOf, Synced
<1>2. ChainOf[Synced(p)] \in Seq(Sources)
  BY <1>1, ConstantsAssumption
<1>3. now + skew \in Nat /\ now \in Nat
  BY ConstantsAssumption DEF Inv, TypeOK
<1>4. Encoded(p) \in Envelope
  BY <1>1, <1>2, <1>3 DEF Encoded, Envelope, Process
<1> QED BY <1>1, <1>4 DEF Entry

LEMMA StoreEntryInv ==
    ASSUME Inv, NEW p \in Procs, StoreEntry(p)
    PROVE  Inv'
<1>1. /\ proc[p].pc = "store" /\ Synced(p) \in Aliases /\ proc[p].value # NoValue
      /\ Encoded(p) \in Entry
  BY EncodedType DEF StoreEntry
<1>2. SyncStore(p) \in CacheStores
  BY <1>1, SyncStoreType
<1>3. proc' \in [Procs -> Process] /\ ControlOK'
  <2>1. CASE Goto(p, "check")
    BY <1>1, <2>1, GotoMoves DEF Evicting
  <2>2. CASE Finish(p, Result(p))
    BY <2>2, FinishMoves, ResultType
  <2> QED BY <2>1, <2>2 DEF StoreEntry
<1>4. cache' \in [CacheStores -> Entry] /\ suspect' \in [CacheStores -> BOOLEAN]
  <2>1. ASSUME NEW e \in Entry, Put(SyncStore(p), e)
        PROVE  cache' \in [CacheStores -> Entry] /\ suspect' \in [CacheStores -> BOOLEAN]
    BY <1>2, <2>1, PutType DEF Inv
  <2>2. Torn \in Entry
    BY DEF Entry
  <2>3. \/ \E e \in Entry : Put(SyncStore(p), e)
        \/ UNCHANGED <<cache, suspect>>
    BY <1>1, <2>2 DEF StoreEntry
  <2> QED BY <2>1, <2>3 DEF Inv, TypeOK
<1> QED BY <1>3, <1>4 DEF StoreEntry, Inv, TypeOK

LEMMA NotDroppedMoves ==
    ASSUME Inv, NEW p \in Procs, NotDropped(p)
    PROVE  /\ proc' \in [Procs -> Process] /\ ControlOK'
           /\ suspect' \in [CacheStores -> BOOLEAN]
<1>1. CASE Evicting(p) /\ Goto(p, "walk")
  BY <1>1, GotoMoves DEF Evicting, NotDropped, Inv, TypeOK
<1>2. CASE ~Evicting(p) /\ Finish(p, IF proc[p].op = "clear" THEN "error" ELSE Result(p))
  BY <1>2, FinishMoves, ResultType DEF NotDropped, Inv, TypeOK
<1> QED BY <1>1, <1>2 DEF NotDropped

LEMMA OpenCacheInv ==
    ASSUME Inv, NEW p \in Procs, OpenCache(p)
    PROVE  Inv'
<1>1. /\ proc[p].pc = "open" /\ Synced(p) \in Aliases
      /\ Evicting(p) => proc[p].spec \in Aliases
  BY DEF OpenCache, Inv, ControlOK, ControlOf, Synced, Evicting
<1>2. CASE Goto(p, "check") /\ UNCHANGED suspect
  BY <1>1, <1>2, GotoMoves DEF OpenCache, Inv, TypeOK
<1>3. CASE NotDropped(p)
  BY <1>3, NotDroppedMoves DEF OpenCache, Inv, TypeOK
<1> QED BY <1>2, <1>3 DEF OpenCache

LEMMA CheckOwnershipInv ==
    ASSUME Inv, NEW p \in Procs, CheckOwnership(p)
    PROVE  Inv'
<1> DEFINE entry == cache[SyncStore(p)]
<1>1. proc[p].pc = "check" /\ Synced(p) \in Aliases
  BY DEF CheckOwnership, Inv, ControlOK, ControlOf, Synced
<1>2. entry \in Entry
  BY <1>1, SyncStoreType
<1>3. ASSUME NEW e \in Entry \cup {Unreadable}, e = Unreadable \/ MayChange(e),
             UNCHANGED suspect,
             proc' = [proc EXCEPT ![p].pc = "drop", ![p].seen = e]
      PROVE  Inv'
  <2>1. proc' \in [Procs -> Process] /\ ControlOK'
    BY <1>1, <1>3, PassedCheckMoves
  <2> QED BY <1>3, <2>1 DEF CheckOwnership, Inv, TypeOK
<1>4. CASE NotDropped(p)
  BY <1>4, NotDroppedMoves DEF CheckOwnership, Inv, TypeOK
<1> QED BY <1>2, <1>3, <1>4, AbsentIsOurs DEF CheckOwnership

LEMMA DropEntryInv ==
    ASSUME Inv, NEW p \in Procs, DropEntry(p)
    PROVE  Inv'
<1>1. proc[p].pc = "drop" /\ Synced(p) \in Aliases
  BY DEF DropEntry, Inv, ControlOK, ControlOf, Synced
<1>2. SyncStore(p) \in CacheStores /\ Absent \in Entry
  BY <1>1, SyncStoreType, AbsentIsOurs
<1>3. CASE Put(SyncStore(p), Absent) /\ Dropped(p)
  <2>1. proc' \in [Procs -> Process] /\ ControlOK'
    <3>1. CASE Evicting(p) /\ Goto(p, "walk")
      BY <3>1, GotoMoves DEF Evicting
    <3>2. CASE Finish(p, Result(p))
      BY <3>2, FinishMoves, ResultType
    <3> QED BY <1>3, <3>1, <3>2 DEF Dropped
  <2>2. cache' \in [CacheStores -> Entry] /\ suspect' \in [CacheStores -> BOOLEAN]
    BY <1>2, <1>3, PutType DEF Inv
  <2> QED BY <2>1, <2>2 DEF DropEntry, Inv, TypeOK
<1>4. CASE NotDropped(p) /\ cache' \in [CacheStores -> Entry]
  BY <1>4, NotDroppedMoves DEF DropEntry, Inv, TypeOK
<1>5. (\/ UNCHANGED cache
       \/ cache' = [cache EXCEPT ![SyncStore(p)] = Absent])
      => cache' \in [CacheStores -> Entry]
  BY <1>2 DEF Inv, TypeOK
<1> QED BY <1>2, <1>3, <1>4, <1>5 DEF DropEntry, Inv, TypeOK

LEMMA EndsInv ==
    ASSUME Inv, NEW p \in Procs, Return(p) \/ Crash(p)
    PROVE  Inv'
<1>1. Idle \in Process
  BY ConstantsAssumption DEF Idle, Process
<1>2. ControlOf(Idle)
  BY DEF ControlOf, Idle
<1>3. proc' \in [Procs -> Process] /\ ControlOK'
  BY <1>1, <1>2, ProcessMoves DEF Return, Crash
<1> QED BY <1>3 DEF Return, Crash, Inv, TypeOK

LEMMA SurroundingsInv ==
    ASSUME Inv,
           \/ Tick \/ AdjustClock
           \/ \E s \in Sources : WriteOutOfBand(s)
           \/ \E c \in CacheStores : \E e \in {Foreign, Unmarked} : Intrude(c, e)
    PROVE  Inv'
<1>1. CASE Tick
  <2>1. now' \in Nat
    BY <1>1 DEF Tick, Inv, TypeOK
  <2>2. lastHeld' = [s \in Sources |-> [v \in Values |->
                        IF auth[s] = v THEN now' ELSE lastHeld[s][v]]]
    BY <1>1 DEF Tick, Held
  <2>3. lastHeld' \in [Sources -> [Values -> Nat]]
    BY <2>1, <2>2 DEF Inv, TypeOK
  <2> QED BY <1>1, <2>1, <2>3 DEF Tick, Inv, TypeOK, ControlOK
<1>2. CASE AdjustClock
  BY <1>2 DEF AdjustClock, Inv, TypeOK, ControlOK
<1>3. CASE \E s \in Sources : WriteOutOfBand(s)
  <2>1. PICK s \in Sources : WriteOutOfBand(s)
    BY <1>3
  <2>2. written' \in Values /\ written' \in 0..MaxVersion
    BY <2>1, ConstantsAssumption DEF WriteOutOfBand, Inv, TypeOK
  <2>3. /\ auth' \in [Sources -> Values \cup {NoValue}]
        /\ lastHeld' \in [Sources -> [Values -> Nat]]
    BY <2>1, <2>2, SetAuthType DEF WriteOutOfBand, Inv
  <2> QED BY <2>1, <2>2, <2>3 DEF WriteOutOfBand, Inv, TypeOK, ControlOK
<1>4. CASE \E c \in CacheStores : \E e \in {Foreign, Unmarked} : Intrude(c, e)
  <2>1. PICK c \in CacheStores, e \in {Foreign, Unmarked} : Intrude(c, e)
    BY <1>4
  <2>2. e \in Entry
    BY DEF Entry
  <2>3. cache' \in [CacheStores -> Entry] /\ suspect' \in [CacheStores -> BOOLEAN]
    BY <2>1, <2>2, PutType DEF Intrude, Inv
  <2> QED BY <2>1, <2>3 DEF Intrude, Inv, TypeOK, ControlOK
<1> QED BY <1>1, <1>2, <1>3, <1>4

LEMMA NextInv == Inv /\ [Next]_vars => Inv'
<1> SUFFICES ASSUME Inv, [Next]_vars PROVE Inv'
  OBVIOUS
<1>1. CASE UNCHANGED vars
  BY <1>1 DEF vars, Inv, TypeOK, ControlOK
<1>2. ASSUME NEW p \in Procs, NEW spec \in Commanded,
             Get(p, spec) \/ Set(p, spec) \/ Delete(p, spec)
      PROVE  Inv'
  BY <1>2, CommandsInv
<1>3. ASSUME NEW p \in Procs, ClearCache(p) PROVE Inv'
  BY <1>3, CommandsInv DEF Commanded
<1>4. ASSUME NEW p \in Procs, Step(p) PROVE Inv'
  BY <1>4, ReadCachedInv, WalkInv, WriteAuthoritativeInv, RemoveAuthoritativeInv,
     RefreshCheckInv, StoreEntryInv, OpenCacheInv, CheckOwnershipInv, DropEntryInv,
     EndsInv DEF Step
<1>5. ASSUME NEW p \in Procs, Crash(p) PROVE Inv'
  BY <1>5, EndsInv
<1>6. CASE \/ Tick \/ AdjustClock
           \/ \E s \in Sources : WriteOutOfBand(s)
           \/ \E c \in CacheStores : \E e \in {Foreign, Unmarked} : Intrude(c, e)
  BY <1>6, SurroundingsInv
<1> QED BY <1>1, <1>2, <1>3, <1>4, <1>5, <1>6 DEF Next

LEMMA SpecInv == Spec => []Inv
BY InitInv, NextInv, PTL DEF Spec

(* Every variable keeps its type, for any processes, stores, aliases,       *)
(* chains, bounds and failures.                                             *)
THEOREM TypeCorrect == Spec => []TypeOK
<1>1. Inv => TypeOK BY DEF Inv
<1> QED BY SpecInv, <1>1, PTL

-----------------------------------------------------------------------------
(* Ownership: the two actions by which a process changes a cache store run  *)
(* with `seen` holding what its check of the address returned, and ControlOK *)
(* says that was nothing, or ours, or that the read failed.                 *)
OwnershipStep ==
    \A p \in Procs, c \in CacheStores :
        (proc'[p] # proc[p] /\ cache'[c] # cache[c] /\ cache[c] \in {Foreign, Unmarked})
            => proc[p].seen \notin {NotLooked, cache[c]}

(* A process that moves is the one that acts, and only the last two of its  *)
(* steps touch a cache store.                                               *)
LEMMA MoverActs ==
    ASSUME Inv, Next, NEW p \in Procs, proc'[p] # proc[p],
           NEW c \in CacheStores, cache'[c] # cache[c]
    PROVE  proc[p].pc \in {"store", "drop"}
<1>1. PICK q \in Procs :
        \/ \E spec \in Commanded : Get(q, spec) \/ Set(q, spec) \/ Delete(q, spec)
        \/ ClearCache(q) \/ Step(q) \/ Crash(q)
  BY DEF Next, Tick, AdjustClock, WriteOutOfBand, Intrude
<1>2. CASE StoreEntry(q) \/ DropEntry(q)
  <2>1. \E r : proc' = [proc EXCEPT ![q] = r]
    BY <1>2 DEF StoreEntry, DropEntry, Goto, Finish, Dropped, NotDropped, Inv, TypeOK
  <2>2. q = p
    BY <2>1 DEF Inv, TypeOK
  <2> QED BY <1>2, <2>2 DEF StoreEntry, DropEntry
<1>3. CASE ~(StoreEntry(q) \/ DropEntry(q))
  BY <1>1, <1>3 DEF Get, Set, Delete, ClearCache, Begin, Step, Crash, Return, ReadCached,
     WalkLink, WalkEnds, WriteAuthoritative, RemoveAuthoritative, RefreshCheck,
     OpenCache, CheckOwnership
<1> QED BY <1>2, <1>3

(* An operation never replaces or removes somebody else's value that its    *)
(* own check of the address returned, however steps of others, failures and *)
(* crashes fall between the check and the change.                           *)
THEOREM OwnershipHolds == Spec => OwnershipRespected
<1>1. Inv /\ [Next]_vars => OwnershipStep
  <2> SUFFICES ASSUME Inv, Next, NEW p \in Procs, NEW c \in CacheStores,
                      proc'[p] # proc[p], cache'[c] # cache[c],
                      cache[c] \in {Foreign, Unmarked}
               PROVE  proc[p].seen \notin {NotLooked, cache[c]}
    BY DEF OwnershipStep, vars
  <2>1. proc[p].pc \in {"store", "drop"}
    BY MoverActs
  <2>2. \/ proc[p].seen = Unreadable
        \/ proc[p].seen \in Entry /\ MayChange(proc[p].seen)
    BY <2>1 DEF Inv, ControlOK, ControlOf
  <2>3. ~MayChange(Foreign) /\ ~MayChange(Unmarked)
    BY DEF MayChange, Ownership, Foreign, Unmarked, Absent
  <2>4. NotLooked \notin Entry /\ Unreadable \notin {NotLooked, Foreign, Unmarked}
    BY DEF NotLooked, Unreadable, Entry, Absent, Foreign, Torn, Unmarked, Envelope
  <2> QED BY <2>2, <2>3, <2>4
<1> QED BY SpecInv, <1>1, PTL DEF Spec, OwnershipRespected, OwnershipStep
-----------------------------------------------------------------------------
(* Bounded staleness.  History only grows, so what it says of an entry or a *)
(* process that did not change stays true; the actions that bring in a new  *)
(* entry or value are looked at one by one.                                 *)
History == [Sources -> [Values -> Nat]]
Grows(old, new) == \A s \in Sources, v \in Values : old[s][v] <= new[s][v]

LEMMA HistoryIsTimes ==
    ASSUME NEW h \in History, NEW s \in Sources, NEW v \in Values
    PROVE  h[s][v] \in Nat
BY DEF History

LEMMA EntryHistoryKept ==
    ASSUME NEW e \in Entry, NEW old \in History, NEW new \in History,
           Grows(old, new), EntryHistory(e, old)
    PROVE  EntryHistory(e, new)
<1> SUFFICES ASSUME e.kind = "ours" PROVE EntryHistory(e, new)
  BY DEF EntryHistory
<1>1. e \in Envelope
  BY DEF Entry, Absent, Foreign, Torn, Unmarked
<1>2. PICK i \in DOMAIN e.route_fingerprint :
        e.asked <= old[e.route_fingerprint[i]][e.value]
  BY DEF EntryHistory
<1>3. e.route_fingerprint[i] \in Sources /\ e.value \in Values /\ e.asked \in Nat
  BY <1>1 DEF Envelope
<1>4. e.asked <= new[e.route_fingerprint[i]][e.value]
  <2>1. /\ old[e.route_fingerprint[i]][e.value] \in Nat
        /\ new[e.route_fingerprint[i]][e.value] \in Nat
    BY <1>3, HistoryIsTimes
  <2>2. old[e.route_fingerprint[i]][e.value] <= new[e.route_fingerprint[i]][e.value]
    BY <1>3 DEF Grows
  <2> QED BY <1>2, <1>3, <2>1, <2>2
<1> QED BY <1>4 DEF EntryHistory

LEMMA ProcessHistoryKept ==
    ASSUME NEW r \in Process, ControlOf(r), NEW old \in History, NEW new \in History,
           NEW t \in Nat, NEW u \in Nat, t <= u,
           Grows(old, new), ProcessHistory(r, old, t)
    PROVE  ProcessHistory(r, new, u)
<1>1. r.pc # "idle" => 0 < r.asked /\ r.asked <= u
  BY DEF ProcessHistory, Process
<1>2. ASSUME r.pc \in {"refresh", "store"}
      PROVE  \E i \in DOMAIN ChainOf[r.spec] : r.asked <= new[ChainOf[r.spec][i]][r.value]
  <2>1. PICK i \in DOMAIN ChainOf[r.spec] : r.asked <= old[ChainOf[r.spec][i]][r.value]
    BY <1>2 DEF ProcessHistory
  <2>2. r.spec \in Aliases /\ r.value \in Values /\ r.asked \in Nat
    BY <1>2 DEF ControlOf, Process
  <2>3. ChainOf[r.spec][i] \in Sources
    BY <2>1, <2>2, ConstantsAssumption
  <2>4. r.asked <= new[ChainOf[r.spec][i]][r.value]
    <3>1. /\ old[ChainOf[r.spec][i]][r.value] \in Nat
          /\ new[ChainOf[r.spec][i]][r.value] \in Nat
      BY <2>2, <2>3, HistoryIsTimes
    <3>2. old[ChainOf[r.spec][i]][r.value] <= new[ChainOf[r.spec][i]][r.value]
      BY <2>2, <2>3 DEF Grows
    <3> QED BY <2>1, <2>2, <3>1, <3>2
  <2> QED BY <2>4
<1> QED BY <1>1, <1>2 DEF ProcessHistory

LEMMA HeldHistory ==
    ASSUME NEW a, NEW t \in Nat, TypeOK, SourceHistory(auth, lastHeld, now), now <= t,
           lastHeld' = Held(a, t)
    PROVE  SourceHistory(a, lastHeld', t) /\ Grows(lastHeld, lastHeld')
<1>1. ASSUME NEW s \in Sources, NEW v \in Values
      PROVE  /\ lastHeld'[s][v] = IF a[s] = v THEN t ELSE lastHeld[s][v]
             /\ lastHeld[s][v] <= now /\ lastHeld[s][v] \in Nat /\ now \in Nat
  <2>1. lastHeld'[s][v] = IF a[s] = v THEN t ELSE lastHeld[s][v]
    BY DEF Held
  <2>2. lastHeld[s][v] <= now
    BY DEF SourceHistory
  <2>3. lastHeld[s][v] \in Nat /\ now \in Nat
    BY DEF TypeOK
  <2> QED BY <2>1, <2>2, <2>3
<1>2. ASSUME NEW s \in Sources, NEW v \in Values
      PROVE  /\ lastHeld'[s][v] <= t
             /\ a[s] = v => lastHeld'[s][v] = t
             /\ lastHeld[s][v] <= lastHeld'[s][v]
  BY <1>1
<1> QED BY <1>2 DEF SourceHistory, Grows

LEMMA SourceHistoryStep ==
    ASSUME Inv, HistoryOK, [Next]_vars
    PROVE  /\ SourceHistory(auth', lastHeld', now')
           /\ Grows(lastHeld, lastHeld')
           /\ now <= now'
<1>1. now \in Nat /\ SourceHistory(auth, lastHeld, now)
  BY DEF Inv, TypeOK, HistoryOK
<1>2. CASE UNCHANGED <<auth, lastHeld, now>>
  <2>1. SourceHistory(auth', lastHeld', now') /\ now <= now'
    BY <1>1, <1>2
  <2>2. Grows(lastHeld, lastHeld)
    BY HistoryIsTimes DEF Grows, History, Inv, TypeOK
  <2> QED BY <1>2, <2>1, <2>2
<1>3. ASSUME NEW s, NEW v, SetAuth(s, v), UNCHANGED now
      PROVE  /\ SourceHistory(auth', lastHeld', now')
             /\ Grows(lastHeld, lastHeld') /\ now <= now'
  <2>1. lastHeld' = Held(auth', now) /\ now' = now
    BY <1>3 DEF SetAuth
  <2>2. SourceHistory(auth', lastHeld', now) /\ Grows(lastHeld, lastHeld')
    BY <1>1, <2>1, HeldHistory DEF Inv
  <2>3. now <= now' BY <1>1, <2>1
  <2> QED BY <2>1, <2>2, <2>3
<1>4. CASE Tick
  <2>1. now' = now + 1 /\ now' \in Nat /\ lastHeld' = Held(auth, now') /\ auth' = auth
    BY <1>1, <1>4 DEF Tick
  <2>2. SourceHistory(auth, lastHeld', now') /\ Grows(lastHeld, lastHeld')
    BY <1>1, <2>1, HeldHistory DEF Inv
  <2> QED BY <1>1, <2>1, <2>2
<1>5. \/ UNCHANGED <<auth, lastHeld, now>>
      \/ \E s, v : SetAuth(s, v) /\ UNCHANGED now
      \/ Tick
  <2>1. ASSUME NEW p \in Procs,
               \/ \E spec \in Commanded : Get(p, spec) \/ Set(p, spec) \/ Delete(p, spec)
               \/ ClearCache(p) \/ Return(p) \/ Crash(p) \/ ReadCached(p) \/ WalkLink(p)
               \/ WalkEnds(p) \/ RefreshCheck(p) \/ StoreEntry(p) \/ OpenCache(p)
               \/ CheckOwnership(p) \/ DropEntry(p)
        PROVE  UNCHANGED <<auth, lastHeld, now>>
    BY <2>1 DEF Get, Set, Delete, ClearCache, Begin, Return, Crash, ReadCached, WalkLink,
       WalkEnds, RefreshCheck, StoreEntry, OpenCache, CheckOwnership, DropEntry
  <2>2. ASSUME NEW p \in Procs, WriteAuthoritative(p) \/ RemoveAuthoritative(p)
        PROVE  \/ UNCHANGED <<auth, lastHeld, now>>
               \/ \E s, v : SetAuth(s, v) /\ UNCHANGED now
    BY <2>2 DEF WriteAuthoritative, RemoveAuthoritative
  <2>3. ASSUME NEW s \in Sources, WriteOutOfBand(s)
        PROVE  \E x, v : SetAuth(x, v) /\ UNCHANGED now
    BY <2>3 DEF WriteOutOfBand
  <2>4. CASE UNCHANGED vars \/ AdjustClock
             \/ \E c \in CacheStores : \E e \in {Foreign, Unmarked} : Intrude(c, e)
    BY <2>4 DEF vars, AdjustClock, Intrude
  <2> QED BY <2>1, <2>2, <2>3, <2>4 DEF Next, Step
<1> QED BY <1>2, <1>3, <1>4, <1>5

(* A step leaves every cache store alone, or puts in one an entry that      *)
(* carries nothing of ours, or the entry a process has just encoded.        *)
LEMMA CacheStep ==
    ASSUME Inv, HistoryOK, [Next]_vars, NEW c \in CacheStores
    PROVE  \/ cache'[c] = cache[c]
           \/ cache'[c].kind # "ours"
           \/ \E p \in Procs : /\ proc[p].pc = "store" /\ cache'[c] = Encoded(p)
                               /\ UNCHANGED <<lastHeld, now>>
<1>1. ASSUME NEW p \in Procs, StoreEntry(p)
      PROVE  \/ cache'[c] = cache[c] \/ cache'[c].kind # "ours"
             \/ proc[p].pc = "store" /\ cache'[c] = Encoded(p) /\ UNCHANGED <<lastHeld, now>>
  <2>1. Torn.kind # "ours" BY DEF Torn
  <2>2. \/ \E e \in {Torn, Encoded(p)} : Put(SyncStore(p), e)
        \/ UNCHANGED cache
    BY <1>1 DEF StoreEntry
  <2> QED BY <1>1, <2>1, <2>2 DEF StoreEntry, Put, Inv, TypeOK
<1>2. ASSUME NEW p \in Procs, DropEntry(p)
      PROVE  cache'[c] = cache[c] \/ cache'[c].kind # "ours"
  <2>1. Absent.kind # "ours" BY DEF Absent
  <2> QED BY <1>2, <2>1 DEF DropEntry, Put, Inv, TypeOK
<1>3. ASSUME NEW d \in CacheStores, NEW e \in {Foreign, Unmarked}, Intrude(d, e)
      PROVE  cache'[c] = cache[c] \/ cache'[c].kind # "ours"
  <2>1. e.kind # "ours" BY DEF Foreign, Unmarked
  <2> QED BY <1>3, <2>1 DEF Intrude, Put, Inv, TypeOK
<1>4. ASSUME NEW p \in Procs,
             \/ \E spec \in Commanded : Get(p, spec) \/ Set(p, spec) \/ Delete(p, spec)
             \/ ClearCache(p) \/ Return(p) \/ Crash(p) \/ ReadCached(p) \/ WalkLink(p)
             \/ WalkEnds(p) \/ RefreshCheck(p) \/ OpenCache(p) \/ CheckOwnership(p)
             \/ WriteAuthoritative(p) \/ RemoveAuthoritative(p)
      PROVE  UNCHANGED cache
  BY <1>4 DEF Get, Set, Delete, ClearCache, Begin, Return, Crash, ReadCached, WalkLink,
     WalkEnds, RefreshCheck, OpenCache, CheckOwnership, WriteAuthoritative,
     RemoveAuthoritative
<1>5. CASE UNCHANGED vars \/ Tick \/ AdjustClock \/ \E s \in Sources : WriteOutOfBand(s)
  BY <1>5 DEF vars, Tick, AdjustClock, WriteOutOfBand
<1> QED BY <1>1, <1>2, <1>3, <1>4, <1>5 DEF Next, Step

LEMMA EntryHistoryStep ==
    ASSUME Inv, HistoryOK, [Next]_vars, NEW c \in CacheStores
    PROVE  EntryHistory(cache'[c], lastHeld')
<1>1. Inv' /\ lastHeld \in History /\ lastHeld' \in History /\ Grows(lastHeld, lastHeld')
  BY NextInv, SourceHistoryStep DEF Inv, TypeOK, History
<1>2. CASE cache'[c] = cache[c]
  <2>1. cache[c] \in Entry /\ EntryHistory(cache[c], lastHeld)
    BY DEF Inv, TypeOK, HistoryOK
  <2> QED BY <1>1, <1>2, <2>1, EntryHistoryKept
<1>3. CASE cache'[c].kind # "ours"
  BY <1>3 DEF EntryHistory
<1>4. ASSUME NEW p \in Procs, proc[p].pc = "store", cache'[c] = Encoded(p),
             UNCHANGED <<lastHeld, now>>
      PROVE  EntryHistory(cache'[c], lastHeld')
  <2>1. /\ proc[p] \in Process /\ ControlOf(proc[p])
        /\ ProcessHistory(proc[p], lastHeld, now)
        /\ now \in Nat /\ skew \in 0..MaxSkew /\ MaxSkew \in Nat
    BY ConstantsAssumption DEF Inv, TypeOK, ControlOK, HistoryOK
  <2>2. Synced(p) = proc[p].spec
    BY <1>4, <2>1 DEF ControlOf, Synced, SyncAlias
  <2>3. PICK i \in DOMAIN ChainOf[proc[p].spec] :
          proc[p].asked <= lastHeld[ChainOf[proc[p].spec][i]][proc[p].value]
    BY <1>4, <2>1 DEF ProcessHistory
  <2>4. 0 < proc[p].asked /\ proc[p].asked <= now /\ now + skew <= now + MaxSkew
    BY <1>4, <2>1 DEF ProcessHistory
  <2>5. EntryHistory(Encoded(p), lastHeld)
    BY <2>2, <2>3, <2>4 DEF EntryHistory, Encoded
  <2> QED BY <1>4, <2>5
<1> QED BY <1>2, <1>3, <1>4, CacheStep

(* How one process moves, as far as its history goes: it comes to rest or   *)
(* begins; it goes on to a step that carries no value; it passes the check  *)
(* before a store; or it takes up a value some source of its chain holds.   *)
Rests(new)       == new.pc = "idle"
Begins(new)      == new.asked = now /\ new.pc \notin {"refresh", "store"}
GoesOn(old, new) == /\ old.pc # "idle" /\ new.asked = old.asked
                    /\ new.pc \notin {"refresh", "store"}
Passes(old, new) == /\ old.pc = "refresh" /\ new.pc = "store"
                    /\ new.spec = old.spec /\ new.value = old.value /\ new.asked = old.asked
TakesUp(old, new) ==
    /\ old.pc # "idle" /\ new.pc = "refresh" /\ new.asked = old.asked
    /\ \E i \in DOMAIN ChainOf[new.spec] :
          ChainOf[new.spec][i] \in Sources /\ auth'[ChainOf[new.spec][i]] = new.value

Moves(old, new) == \/ Rests(new) \/ Begins(new) \/ GoesOn(old, new)
                   \/ Passes(old, new) \/ TakesUp(old, new)

LEMMA BeginMoves ==
    ASSUME Inv, NEW p \in Procs, NEW op, NEW spec, NEW value,
           NEW label \in {"read", "walk", "write", "remove", "open"},
           Begin(p, op, spec, label, value)
    PROVE  Begins(proc'[p])
BY DEF Begins, Begin, Idle, Inv, TypeOK

LEMMA LabelMoves ==
    ASSUME Inv, NEW p \in Procs, proc[p].pc # "idle",
           \/ \E label \in {"walk", "open", "check"} : Goto(p, label)
           \/ \E result : Finish(p, result)
    PROVE  GoesOn(proc[p], proc'[p])
<1>1. proc[p] \in Process
  BY DEF Inv, TypeOK
<1>2. CASE \E label \in {"walk", "open", "check"} : Goto(p, label)
  <2>1. PICK label \in {"walk", "open", "check"} : Goto(p, label)
    BY <1>2
  <2>2. proc'[p].pc = label /\ proc'[p].asked = proc[p].asked
    BY <1>1, <2>1 DEF Goto, Inv, TypeOK, Process
  <2> QED BY <2>1, <2>2 DEF GoesOn
<1>3. CASE \E result : Finish(p, result)
  <2>1. PICK result : Finish(p, result)
    BY <1>3
  <2>2. proc'[p].pc = "done" /\ proc'[p].asked = proc[p].asked
    BY <1>1, <2>1 DEF Finish, Inv, TypeOK, Process
  <2> QED BY <2>2 DEF GoesOn
<1> QED BY <1>2, <1>3

LEMMA WalkLinkMoves ==
    ASSUME Inv, NEW p \in Procs, WalkLink(p)
    PROVE  Moves(proc[p], proc'[p])
<1> DEFINE spec == proc[p].spec
           link == proc[p].link
<1>1. proc[p] \in Process /\ spec \in Specs /\ proc[p].pc = "walk"
  BY DEF WalkLink, Inv, TypeOK, Process
<1>2. Chain(spec) \in Seq(Sources) /\ link \in DOMAIN Chain(spec)
  BY <1>1, ChainType DEF WalkLink
<1>3. CASE \/ proc' = [proc EXCEPT ![p].link = link + 1, ![p].skipped = @ \cup {link}]
           \/ proc' = [proc EXCEPT ![p].link = link + 1]
  BY <1>1, <1>3 DEF Moves, GoesOn, Inv, TypeOK, Process
<1>4. CASE proc' = [proc EXCEPT ![p].pc = IF spec \in Aliases THEN "refresh" ELSE "done",
                                ![p].value = auth[Chain(spec)[link]],
                                ![p].result = IF spec \in Aliases THEN "none" ELSE "value"]
  <2>1. /\ proc'[p].pc = IF spec \in Aliases THEN "refresh" ELSE "done"
        /\ proc'[p].asked = proc[p].asked /\ proc'[p].spec = spec
        /\ proc'[p].value = auth[Chain(spec)[link]]
    BY <1>1, <1>4 DEF Inv, TypeOK, Process
  <2>2. auth' = auth
    BY DEF WalkLink
  <2>3. CASE spec \in Aliases
    <3>1. Chain(spec) = ChainOf[spec] /\ ChainOf[spec][link] \in Sources
      BY <1>1, <1>2, <2>3, ChainType
    <3> QED BY <1>1, <1>2, <2>1, <2>2, <2>3, <3>1 DEF Moves, TakesUp
  <2>4. CASE spec \notin Aliases
    BY <1>1, <2>1, <2>4 DEF Moves, GoesOn
  <2> QED BY <2>3, <2>4
<1> QED BY <1>3, <1>4 DEF WalkLink

LEMMA AuthoritativeMoves ==
    ASSUME Inv, NEW p \in Procs, WriteAuthoritative(p) \/ RemoveAuthoritative(p)
    PROVE  Moves(proc[p], proc'[p])
<1> DEFINE spec == proc[p].spec
<1>1. proc[p] \in Process /\ ControlOf(proc[p]) /\ proc[p].pc \in {"write", "remove"}
  BY DEF WriteAuthoritative, RemoveAuthoritative, Inv, TypeOK, ControlOK
<1>2. CASE Finish(p, "error")
  BY <1>1, <1>2, LabelMoves DEF Moves
<1>3. ASSUME RemoveAuthoritative(p),
             proc' = [proc EXCEPT ![p].pc = SyncAfterDelete(spec), ![p].result = "ok"]
      PROVE  Moves(proc[p], proc'[p])
  BY <1>1, <1>3 DEF Moves, GoesOn, SyncAfterDelete, Inv, TypeOK, Process
<1>4. ASSUME WriteAuthoritative(p), SetAuth(Primary(spec), proc[p].value),
             proc' = [proc EXCEPT ![p].pc = SyncAfterWrite(spec), ![p].result = "ok"]
      PROVE  Moves(proc[p], proc'[p])
  <2>1. /\ proc'[p].pc = SyncAfterWrite(spec) /\ proc'[p].asked = proc[p].asked
        /\ proc'[p].spec = spec /\ proc'[p].value = proc[p].value /\ spec \in Specs
    BY <1>1, <1>4 DEF Inv, TypeOK, Process
  <2>2. CASE spec \in Aliases
    <3>1. /\ Primary(spec) = ChainOf[spec][1] /\ 1 \in DOMAIN ChainOf[spec]
          /\ Primary(spec) \in Sources
      BY <2>1, <2>2, ChainType DEF Primary
    <3>2. auth'[Primary(spec)] = proc[p].value
      BY <1>4, <3>1 DEF SetAuth, Inv, TypeOK
    <3> QED BY <1>1, <2>1, <2>2, <3>1, <3>2 DEF Moves, TakesUp, SyncAfterWrite
  <2>3. CASE spec \notin Aliases
    BY <1>1, <2>1, <2>3 DEF Moves, GoesOn, SyncAfterWrite
  <2> QED BY <2>2, <2>3
<1> QED BY <1>2, <1>3, <1>4 DEF WriteAuthoritative, RemoveAuthoritative, Unacknowledged

LEMMA OtherStepMoves ==
    ASSUME Inv, NEW p \in Procs,
           \/ ReadCached(p) \/ WalkEnds(p) \/ RefreshCheck(p) \/ StoreEntry(p)
           \/ OpenCache(p) \/ CheckOwnership(p) \/ DropEntry(p)
    PROVE  Moves(proc[p], proc'[p])
<1>1. proc[p] \in Process /\ proc[p].pc # "idle"
  BY DEF ReadCached, WalkEnds, RefreshCheck, StoreEntry, OpenCache, CheckOwnership,
     DropEntry, Inv, TypeOK
<1>2. CASE \/ \E label \in {"walk", "open", "check"} : Goto(p, label)
           \/ \E result : Finish(p, result)
  BY <1>1, <1>2, LabelMoves DEF Moves
<1>3. ASSUME NEW value, proc' = [proc EXCEPT ![p].pc = "done", ![p].result = "hit",
                                             ![p].value = value]
      PROVE  Moves(proc[p], proc'[p])
  BY <1>1, <1>3 DEF Moves, GoesOn, Inv, TypeOK, Process
<1>4. ASSUME NEW e, proc[p].pc = "refresh",
             proc' = [proc EXCEPT ![p].pc = "store", ![p].seen = e]
      PROVE  Moves(proc[p], proc'[p])
  BY <1>1, <1>4 DEF Moves, Passes, Inv, TypeOK, Process
<1>5. ASSUME NEW e, proc' = [proc EXCEPT ![p].pc = "drop", ![p].seen = e]
      PROVE  Moves(proc[p], proc'[p])
  BY <1>1, <1>5 DEF Moves, GoesOn, Inv, TypeOK, Process
<1>6. CASE ReadCached(p)
  BY <1>2, <1>3, <1>6 DEF ReadCached
<1>7. CASE RefreshCheck(p)
  BY <1>2, <1>4, <1>7 DEF RefreshCheck
<1>8. CASE CheckOwnership(p)
  BY <1>2, <1>5, <1>8 DEF CheckOwnership, NotDropped
<1>9. CASE WalkEnds(p) \/ StoreEntry(p) \/ OpenCache(p) \/ DropEntry(p)
  BY <1>2, <1>9 DEF WalkEnds, StoreEntry, OpenCache, DropEntry, Dropped, NotDropped
<1> QED BY <1>6, <1>7, <1>8, <1>9

LEMMA ProcessMovesHistory ==
    ASSUME Inv, HistoryOK, [Next]_vars, NEW p \in Procs, Moves(proc[p], proc'[p])
    PROVE  ProcessHistory(proc'[p], lastHeld', now')
<1> DEFINE old == proc[p]
           new == proc'[p]
<1>1. /\ old \in Process /\ new \in Process /\ ControlOf(old) /\ ControlOf(new)
      /\ lastHeld \in History /\ lastHeld' \in History /\ now \in Nat /\ now' \in Nat
      /\ 0 < now
  BY NextInv DEF Inv, TypeOK, ControlOK, History, HistoryOK
<1>2. /\ SourceHistory(auth', lastHeld', now') /\ Grows(lastHeld, lastHeld') /\ now <= now'
      /\ ProcessHistory(old, lastHeld, now)
  BY SourceHistoryStep DEF HistoryOK
<1>3. ProcessHistory(old, lastHeld', now')
  BY <1>1, <1>2, ProcessHistoryKept
<1>4. CASE Rests(new)
  BY <1>4 DEF Rests, ProcessHistory
<1>5. CASE Begins(new)
  BY <1>1, <1>2, <1>5 DEF Begins, ProcessHistory
<1>6. CASE GoesOn(old, new)
  BY <1>3, <1>6 DEF GoesOn, ProcessHistory
<1>7. CASE Passes(old, new)
  BY <1>3, <1>7 DEF Passes, ProcessHistory
<1>8. CASE TakesUp(old, new)
  <2>1. PICK i \in DOMAIN ChainOf[new.spec] :
          ChainOf[new.spec][i] \in Sources /\ auth'[ChainOf[new.spec][i]] = new.value
    BY <1>8 DEF TakesUp
  <2>2. new.value \in Values
    BY <1>1, <1>8 DEF TakesUp, ControlOf
  <2>3. lastHeld'[ChainOf[new.spec][i]][new.value] = now'
    BY <1>2, <2>1, <2>2 DEF SourceHistory
  <2>4. new.pc = "refresh" /\ 0 < new.asked /\ new.asked <= now'
    BY <1>3, <1>8 DEF TakesUp, ProcessHistory
  <2> QED BY <2>1, <2>3, <2>4 DEF ProcessHistory
<1> QED BY <1>4, <1>5, <1>6, <1>7, <1>8 DEF Moves

(* A step of one process leaves the others where they are. *)
LEMMA OnlyActorMoves ==
    ASSUME Inv, NEW p \in Procs, NEW q \in Procs, proc'[q] # proc[q],
           \/ \E spec \in Commanded : Get(p, spec) \/ Set(p, spec) \/ Delete(p, spec)
           \/ ClearCache(p) \/ Step(p) \/ Crash(p)
    PROVE  p = q
<1> SUFFICES ASSUME p # q PROVE proc'[q] = proc[q]
  OBVIOUS
<1>1. CASE \/ \E spec \in Commanded : Get(p, spec) \/ Set(p, spec) \/ Delete(p, spec)
           \/ ClearCache(p) \/ Return(p) \/ Crash(p)
  BY <1>1 DEF Get, Set, Delete, ClearCache, Begin, Return, Crash, Inv, TypeOK
<1>2. CASE ReadCached(p)
  BY <1>2 DEF ReadCached, Goto, Inv, TypeOK
<1>3. CASE WalkLink(p) \/ WalkEnds(p)
  BY <1>3 DEF WalkLink, WalkEnds, Finish, Inv, TypeOK
<1>4. CASE WriteAuthoritative(p) \/ RemoveAuthoritative(p)
  BY <1>4 DEF WriteAuthoritative, RemoveAuthoritative, Unacknowledged, Finish, Inv, TypeOK
<1>5. CASE RefreshCheck(p) \/ StoreEntry(p)
  BY <1>5 DEF RefreshCheck, StoreEntry, Goto, Finish, Inv, TypeOK
<1>6. CASE OpenCache(p) \/ CheckOwnership(p) \/ DropEntry(p)
  BY <1>6 DEF OpenCache, CheckOwnership, DropEntry, Dropped, NotDropped, Goto, Finish,
     Inv, TypeOK
<1> QED BY <1>1, <1>2, <1>3, <1>4, <1>5, <1>6 DEF Step

LEMMA ProcessHistoryStep ==
    ASSUME Inv, HistoryOK, [Next]_vars, NEW q \in Procs
    PROVE  ProcessHistory(proc'[q], lastHeld', now')
<1>1. CASE proc'[q] = proc[q]
  <2>1. /\ proc[q] \in Process /\ ControlOf(proc[q]) /\ ProcessHistory(proc[q], lastHeld, now)
        /\ lastHeld \in History /\ lastHeld' \in History /\ now \in Nat /\ now' \in Nat
    BY NextInv DEF Inv, TypeOK, ControlOK, History, HistoryOK
  <2> QED BY <1>1, <2>1, SourceHistoryStep, ProcessHistoryKept
<1>2. ASSUME NEW p \in Procs, proc'[q] # proc[q],
             \/ \E spec \in Commanded : Get(p, spec) \/ Set(p, spec) \/ Delete(p, spec)
             \/ ClearCache(p) \/ Step(p) \/ Crash(p)
      PROVE  Moves(proc[q], proc'[q])
  <2>2. p = q
    BY <1>2, OnlyActorMoves
  <2>3. CASE \/ \E spec \in Commanded : Get(p, spec) \/ Set(p, spec) \/ Delete(p, spec)
             \/ ClearCache(p)
    BY <2>2, <2>3, BeginMoves DEF Get, Set, Delete, ClearCache, Moves
  <2>4. CASE Return(p) \/ Crash(p)
    BY <2>2, <2>4 DEF Return, Crash, Moves, Rests, Idle, Inv, TypeOK
  <2>5. CASE Step(p) /\ ~Return(p)
    BY <2>2, <2>5, WalkLinkMoves, AuthoritativeMoves, OtherStepMoves DEF Step
  <2> QED BY <1>2, <2>3, <2>4, <2>5
<1>3. \/ proc'[q] = proc[q]
      \/ \E p \in Procs :
           \/ \E spec \in Commanded : Get(p, spec) \/ Set(p, spec) \/ Delete(p, spec)
           \/ ClearCache(p) \/ Step(p) \/ Crash(p)
  BY DEF Next, vars, Tick, AdjustClock, WriteOutOfBand, Intrude
<1>4. CASE proc'[q] # proc[q]
  BY <1>2, <1>3, <1>4, ProcessMovesHistory
<1> QED BY <1>1, <1>4

LEMMA InitHistory == Init => HistoryOK
<1> SUFFICES ASSUME Init PROVE HistoryOK
  OBVIOUS
<1>1. SourceHistory(auth, lastHeld, now)
  BY ConstantsAssumption DEF Init, SourceHistory
<1>2. \A c \in CacheStores : EntryHistory(cache[c], lastHeld)
  BY DEF Init, EntryHistory, Absent
<1>3. \A p \in Procs : ProcessHistory(proc[p], lastHeld, now)
  BY DEF Init, ProcessHistory, Idle
<1>4. 0 < now
  BY DEF Init
<1> QED BY <1>1, <1>2, <1>3, <1>4 DEF HistoryOK

LEMMA NextHistory == Inv /\ HistoryOK /\ [Next]_vars => HistoryOK'
<1> SUFFICES ASSUME Inv, HistoryOK, [Next]_vars PROVE HistoryOK'
  OBVIOUS
<1>1. SourceHistory(auth', lastHeld', now') /\ 0 < now'
  <2>1. 0 < now /\ now <= now' /\ now \in Nat /\ now' \in Nat
    BY NextInv, SourceHistoryStep DEF HistoryOK, Inv, TypeOK
  <2> QED BY <2>1, SourceHistoryStep
<1>2. \A c \in CacheStores : EntryHistory(cache'[c], lastHeld')
  BY EntryHistoryStep
<1>3. \A p \in Procs : ProcessHistory(proc'[p], lastHeld', now')
  BY ProcessHistoryStep
<1> QED BY <1>1, <1>2, <1>3 DEF HistoryOK

LEMMA SpecHistory == Spec => [](Inv /\ HistoryOK)
BY InitInv, NextInv, InitHistory, NextHistory, PTL DEF Spec

(* A read answered from the cache is the fresh branch of `read_cached_secret`. *)
LEMMA ServesIsFresh ==
    ASSUME Inv, [Next]_vars, NEW p \in Procs, Serves(p)
    PROVE  /\ proc[p].spec \in Aliases
           /\ Served(p) \in Envelope /\ Served(p).kind = "ours"
           /\ Served(p).route_fingerprint = ChainOf[proc[p].spec]
           /\ ~Expired(Served(p), MaxAge, now + skew)
           /\ proc'[p].value = Served(p).value
<1>1. /\ proc[p].pc = "read" /\ proc[p].result = "none" /\ proc[p].spec \in Aliases
      /\ proc[p] \in Process
  BY DEF Serves, Inv, TypeOK, ControlOK, ControlOf
<1>2. Served(p) \in Entry
  BY <1>1, ConstantsAssumption DEF Served, Inv, TypeOK
<1>3. \E q \in Procs :
        \/ \E spec \in Commanded : Get(q, spec) \/ Set(q, spec) \/ Delete(q, spec)
        \/ ClearCache(q) \/ Step(q) \/ Crash(q)
  BY <1>1 DEF Next, vars, Tick, AdjustClock, WriteOutOfBand, Intrude, Serves
<1>4. PICK q \in Procs :
        \/ \E spec \in Commanded : Get(q, spec) \/ Set(q, spec) \/ Delete(q, spec)
        \/ ClearCache(q) \/ Step(q) \/ Crash(q)
  BY <1>3
<1>5. q = p
  BY <1>1, <1>4, OnlyActorMoves DEF Serves
<1>6. ~Crash(p)
  BY <1>1 DEF Crash, Idle, Serves, Inv, TypeOK
<1>7. ReadCached(p)
  BY <1>1, <1>4, <1>5, <1>6 DEF Get, Set, Delete, ClearCache, Begin, Step, WalkLink,
     WalkEnds, WriteAuthoritative, RemoveAuthoritative, RefreshCheck, StoreEntry,
     OpenCache, CheckOwnership, DropEntry, Return
<1>8. ~Goto(p, "walk") /\ ~Goto(p, "check")
  BY <1>1 DEF Goto, Serves, Inv, TypeOK, Process
<1>9. PICK ok \in {TRUE, ~Fails("clock")} :
        /\ Served(p) # Absent
        /\ CachedEntry(Served(p), ChainOf[proc[p].spec], MaxAge, now + skew, ok) = "Fresh"
        /\ proc' = [proc EXCEPT ![p].pc = "done", ![p].result = "hit",
                                ![p].value = Served(p).value]
  BY <1>7, <1>8 DEF ReadCached, Served
<1>10. proc'[p].value = Served(p).value
  BY <1>1, <1>9 DEF Inv, TypeOK, Process
<1> QED BY <1>1, <1>2, <1>9, <1>10, FreshIsOurs

HitIsRecentStep ==
    \A p \in Procs : Serves(p) =>
        \E s \in Links(proc[p].spec) :
            /\ lastHeld[s][proc'[p].value] > 0
            /\ now <= lastHeld[s][proc'[p].value] + MaxAge + MaxSkew
                        + (Served(p).stored - Served(p).asked)

(* Whatever other processes, tools and failures do, a value served from the *)
(* cache was in a source of the route's own chain at some time, and has     *)
(* been gone for no longer than `max_age`, the time the operation that      *)
(* cached it took, and what the clock was moved.                            *)
THEOREM StalenessIsBounded == Spec => HitIsRecent
<1>1. Inv /\ HistoryOK /\ [Next]_vars => HitIsRecentStep
  <2> SUFFICES ASSUME Inv, HistoryOK, [Next]_vars, NEW p \in Procs, Serves(p)
               PROVE  \E s \in Links(proc[p].spec) :
                        /\ lastHeld[s][proc'[p].value] > 0
                        /\ now <= lastHeld[s][proc'[p].value] + MaxAge + MaxSkew
                                    + (Served(p).stored - Served(p).asked)
    BY DEF HitIsRecentStep
  <2> DEFINE e == Served(p)
             chain == ChainOf[proc[p].spec]
  <2>1. /\ proc[p].spec \in Aliases /\ e \in Envelope /\ e.kind = "ours"
        /\ e.route_fingerprint = chain /\ ~Expired(e, MaxAge, now + skew)
        /\ proc'[p].value = e.value
    BY ServesIsFresh
  <2>2. EntryHistory(e, lastHeld)
    BY <2>1, ConstantsAssumption DEF HistoryOK, Served
  <2>3. PICK i \in DOMAIN chain : e.asked <= lastHeld[chain[i]][e.value]
    BY <2>1, <2>2 DEF EntryHistory
  <2>4. chain[i] \in Links(proc[p].spec) /\ chain[i] \in Sources
    BY <2>1, <2>3, ConstantsAssumption DEF Links, Chain
  <2>5. 0 < e.asked /\ e.asked <= e.stored /\ e.cached_at <= e.stored + MaxSkew
    BY <2>1, <2>2 DEF EntryHistory
  <2>6. /\ e.value \in Values /\ {e.asked, e.stored, e.cached_at} \subseteq Nat
        /\ {now, skew, MaxAge, MaxSkew} \subseteq Nat
    BY <2>1, ConstantsAssumption DEF Envelope, Inv, TypeOK
  <2>7. lastHeld[chain[i]][e.value] \in Nat
    BY <2>4, <2>6 DEF Inv, TypeOK
  <2>8. now + skew - e.cached_at <= MaxAge
    BY <2>1, <2>6 DEF Expired
  <2>9. /\ lastHeld[chain[i]][e.value] > 0
        /\ now <= lastHeld[chain[i]][e.value] + MaxAge + MaxSkew + (e.stored - e.asked)
    BY <2>3, <2>5, <2>6, <2>7, <2>8
  <2> QED BY <2>1, <2>4, <2>9
<1> QED BY SpecHistory, <1>1, PTL DEF Spec, HitIsRecent, HitIsRecentStep
-----------------------------------------------------------------------------
(* A value served is current.  For commands run one after another, and      *)
(* sources nothing else writes, the invariant behind HitIsCurrent says that *)
(* an entry of a route answers what its chain would answer past the links   *)
(* the entry skipped - except while the command that superseded it is still *)
(* under way, or once that command died, failed or warned.  It rests on     *)
(* what a walk has passed over: every link before the one it is at was      *)
(* broken or held nothing.                                                  *)
(*                                                                         *)
(* The routes have to keep step: a command that writes a source must        *)
(* synchronise the store of every route that reads that source.  The code   *)
(* synchronises one alias (SyncAlias); with two aliases that share a source *)
(* and not a store it leaves the other one stale.                           *)
OneAtATime == \A p, q \in Procs : p = q

RoutesKeepStep ==
    \A spec \in Commanded, a \in Commanded \cap Aliases :
        Primary(spec) \in Links(a) =>
            /\ SyncAlias("set", spec) \in Aliases
            /\ CacheOf[SyncAlias("set", spec)] = CacheOf[a]

AnswerOf(held, spec, skipped) ==
    LET live == {i \in DOMAIN Chain(spec) \ skipped : held[Chain(spec)[i]] # NoValue}
    IN IF live = {} THEN NoValue
       ELSE held[Chain(spec)[CHOOSE i \in live : \A j \in live : i <= j]]

Superseding(r, c) ==
    /\ r.op \in {"set", "delete"}
    /\ r.pc \in {"refresh", "store", "open", "check", "drop"}
    /\ CacheOf[SyncAlias(r.op, r.spec)] = c

Pending(c) == \E p \in Procs : Superseding(proc[p], c)

EntryFits(e, a, held) ==
    e.kind = "ours" /\ e.route_fingerprint = ChainOf[a] => e.value = AnswerOf(held, a, e.skipped)

EntryStands(a) ==
    \/ suspect[CacheOf[a]]
    \/ Pending(CacheOf[a])
    \/ EntryFits(cache[CacheOf[a]], a, auth)

WalkStands(r, held) ==
    /\ r.skipped \subseteq 1..(r.link - 1)
    /\ \A i \in DOMAIN Chain(r.spec) \ r.skipped : i < r.link => held[Chain(r.spec)[i]] = NoValue

ProcessStands(r, held) ==
    /\ r.spec \in Commanded
    /\ r.op # "get" => r.skipped = {}
    /\ r.op = "get" /\ r.value = NoValue => WalkStands(r, held)
    /\ r.pc \in {"refresh", "store"} => r.value = AnswerOf(held, r.spec, r.skipped)

Standing == /\ \A a \in Commanded \cap Aliases : EntryStands(a)
            /\ \A p \in Procs : ProcessStands(proc[p], auth)

LEMMA LeastElement ==
    ASSUME NEW S, S \subseteq Nat, S # {}
    PROVE  \E k \in S : \A j \in S : k <= j
<1> DEFINE R == OpToRel(<, Nat)
<1>1. IsWellFoundedOn(R, Nat) BY NatLessThanWellFounded
<1>2. PICK k \in S : \A j \in S : <<j, k>> \notin R
  <2> HIDE DEF R
  <2> QED BY <1>1, WFMin, Zenon
<1>3. \A j \in S : ~(j < k)
  BY <1>2 DEF OpToRel
<1> QED BY <1>3

(* The first live link of a chain answers. *)
LEMMA FirstAnswers ==
    ASSUME NEW held, NEW spec \in Specs, NEW skipped,
           NEW k \in DOMAIN Chain(spec) \ skipped, held[Chain(spec)[k]] # NoValue,
           \A i \in DOMAIN Chain(spec) \ skipped : i < k => held[Chain(spec)[i]] = NoValue
    PROVE  AnswerOf(held, spec, skipped) = held[Chain(spec)[k]]
<1> DEFINE live == {i \in DOMAIN Chain(spec) \ skipped : held[Chain(spec)[i]] # NoValue}
           first == CHOOSE i \in live : \A j \in live : i <= j
<1>1. DOMAIN Chain(spec) \subseteq Nat
  BY ChainType
<1>2. k \in live /\ \A j \in live : k <= j
  BY <1>1
<1>3. first \in live /\ \A j \in live : first <= j
  BY <1>2
<1>4. first = k
  <2>1. first \in Nat /\ k \in Nat /\ first <= k /\ k <= first
    BY <1>1, <1>2, <1>3
  <2> HIDE DEF first
  <2> QED BY <2>1
<1> QED BY <1>2, <1>4 DEF AnswerOf

(* An answer depends on the chain and on what its links hold. *)
LEMMA AnswerKept ==
    ASSUME NEW old, NEW new, NEW spec \in Specs, NEW skipped,
           \A s \in Links(spec) : new[s] = old[s]
    PROVE  AnswerOf(new, spec, skipped) = AnswerOf(old, spec, skipped)
<1> DEFINE live == {i \in DOMAIN Chain(spec) \ skipped : old[Chain(spec)[i]] # NoValue}
<1>1. DOMAIN Chain(spec) \subseteq Nat
  BY ChainType
<1>2. \A i \in DOMAIN Chain(spec) : new[Chain(spec)[i]] = old[Chain(spec)[i]]
  BY DEF Links
<1>3. CASE live = {}
  BY <1>2, <1>3 DEF AnswerOf
<1>4. CASE live # {}
  <2>1. PICK k \in live : \A j \in live : k <= j
    BY <1>1, <1>4, LeastElement
  <2>2. \A i \in DOMAIN Chain(spec) \ skipped : i < k => old[Chain(spec)[i]] = NoValue
    BY <1>1, <2>1
  <2>3. AnswerOf(old, spec, skipped) = old[Chain(spec)[k]]
    BY <2>1, <2>2, FirstAnswers
  <2>4. AnswerOf(new, spec, skipped) = new[Chain(spec)[k]]
    BY <1>2, <2>1, <2>2, FirstAnswers
  <2> QED BY <1>2, <2>1, <2>3, <2>4
<1> QED BY <1>3, <1>4

-----------------------------------------------------------------------------
(* What a step does to an entry.  A step that leaves the sources and the    *)
(* entry's store alone, and leaves no supersession unfinished without       *)
(* marking the store, keeps it standing.                                    *)
LEMMA EntryKept ==
    ASSUME NEW a \in Aliases, EntryStands(a), UNCHANGED auth,
           cache'[CacheOf[a]] = cache[CacheOf[a]],
           suspect[CacheOf[a]] => suspect'[CacheOf[a]],
           Pending(CacheOf[a]) => Pending(CacheOf[a])' \/ suspect'[CacheOf[a]]
    PROVE  EntryStands(a)'
BY DEF EntryStands, EntryFits

LEMMA EntryReplaced ==
    ASSUME NEW a \in Aliases, cache'[CacheOf[a]].kind # "ours"
    PROVE  EntryStands(a)'
BY DEF EntryStands, EntryFits

(* With one command at a time, whatever is under way is what p does. *)
LEMMA PendingIsMine ==
    ASSUME OneAtATime, NEW p \in Procs, NEW c, Pending(c)
    PROVE  Superseding(proc[p], c)
BY DEF OneAtATime, Pending

(* The command that goes on from one step of its synchronisation to the     *)
(* next still supersedes the same store's entry.                            *)
LEMMA StillPending ==
    ASSUME OneAtATime, Inv, NEW p \in Procs, NEW c, Pending(c),
           NEW label \in {"store", "open", "check", "drop"}, NEW seen,
           \/ Goto(p, label)
           \/ proc' = [proc EXCEPT ![p].pc = label, ![p].seen = seen]
    PROVE  Pending(c)'
<1>1. Superseding(proc[p], c) /\ proc[p] \in Process
  BY PendingIsMine DEF Inv, TypeOK
<1>2. /\ proc'[p].op = proc[p].op /\ proc'[p].spec = proc[p].spec /\ proc'[p].pc = label
  BY <1>1 DEF Goto, Inv, TypeOK, Process
<1> QED BY <1>1, <1>2 DEF Superseding, Pending

(* Giving up on a store marks it whenever its entry was being superseded.   *)
LEMMA GivingUpMarks ==
    ASSUME OneAtATime, Inv, NEW p \in Procs, NotDropped(p), Synced(p) \in Aliases,
           NEW c \in CacheStores
    PROVE  /\ suspect[c] => suspect'[c]
           /\ Pending(c) => suspect'[c]
<1>1. suspect \in [CacheStores -> BOOLEAN] /\ SyncStore(p) \in CacheStores
  BY SyncStoreType DEF Inv, TypeOK
<1>2. suspect[c] => suspect'[c]
  BY <1>1 DEF NotDropped
<1>3. ASSUME Pending(c) PROVE suspect'[c]
  <2>1. Superseding(proc[p], c)
    BY <1>3, PendingIsMine
  <2>2. ~Evicting(p) /\ proc[p].op # "clear" /\ SyncStore(p) = c
    BY <2>1 DEF Superseding, Evicting, SyncStore, Synced
  <2> QED BY <1>1, <2>2 DEF NotDropped
<1> QED BY <1>2, <1>3

(* What is not ours may not be changed, and what is ours may. *)
LEMMA OursMayChange ==
    ASSUME NEW e, e.kind = "ours"
    PROVE  MayChange(e)
BY DEF MayChange, Ownership

(* One lemma per kind of action.  Commands begin, reads and walks go on,    *)
(* and processes return while nothing is being superseded.                  *)
LEMMA BetweenEntries ==
    ASSUME OneAtATime, Inv, NEW p \in Procs, NEW a \in Aliases, EntryStands(a),
           \/ \E spec \in Commanded : Get(p, spec) \/ Set(p, spec) \/ Delete(p, spec)
           \/ ClearCache(p) \/ ReadCached(p) \/ WalkLink(p) \/ WalkEnds(p) \/ Return(p)
    PROVE  EntryStands(a)'
<1>1. UNCHANGED <<auth, cache, suspect>>
  BY DEF Get, Set, Delete, ClearCache, Begin, ReadCached, WalkLink, WalkEnds, Return
<1>2. proc[p].pc \in {"idle", "read", "walk", "done"}
  BY DEF Get, Set, Delete, ClearCache, Begin, ReadCached, WalkLink, WalkEnds, Return
<1>3. ~Pending(CacheOf[a])
  BY <1>2, PendingIsMine DEF Superseding
<1> QED BY <1>1, <1>3, EntryKept

LEMMA CrashEntries ==
    ASSUME OneAtATime, Inv, NEW p \in Procs, NEW a \in Aliases, EntryStands(a), Crash(p)
    PROVE  EntryStands(a)'
<1>1. CacheOf[a] \in CacheStores /\ suspect \in [CacheStores -> BOOLEAN]
  BY ConstantsAssumption DEF Inv, TypeOK
<1>2. UNCHANGED <<auth, cache>> /\ (suspect[CacheOf[a]] => suspect'[CacheOf[a]])
  BY <1>1 DEF Crash
<1>3. ASSUME Pending(CacheOf[a]) PROVE suspect'[CacheOf[a]]
  <2>1. Superseding(proc[p], CacheOf[a])
    BY <1>3, PendingIsMine
  <2> QED BY <1>1, <2>1 DEF Crash, Superseding, SyncStore, Synced
<1> QED BY <1>2, <1>3, EntryKept

LEMMA SurroundingsEntries ==
    ASSUME Inv, NEW a \in Aliases, EntryStands(a),
           \/ UNCHANGED vars \/ Tick \/ AdjustClock
           \/ \E c \in CacheStores : \E e \in {Foreign, Unmarked} : Intrude(c, e)
    PROVE  EntryStands(a)'
<1>1. CASE UNCHANGED vars \/ Tick \/ AdjustClock
  <2>1. UNCHANGED <<auth, cache, proc, suspect>>
    BY <1>1 DEF vars, Tick, AdjustClock
  <2>2. Pending(CacheOf[a]) => Pending(CacheOf[a])'
    BY <2>1 DEF Pending
  <2> QED BY <2>1, <2>2, EntryKept
<1>2. CASE \E c \in CacheStores : \E e \in {Foreign, Unmarked} : Intrude(c, e)
  <2>1. PICK c \in CacheStores, e \in {Foreign, Unmarked} : Intrude(c, e)
    BY <1>2
  <2>2. e.kind # "ours" /\ UNCHANGED <<auth, proc>> /\ Put(c, e)
    BY <2>1 DEF Intrude, Foreign, Unmarked
  <2>3. Pending(CacheOf[a]) => Pending(CacheOf[a])'
    BY <2>2 DEF Pending
  <2>4. CacheOf[a] \in CacheStores
    BY ConstantsAssumption
  <2>5. CASE c = CacheOf[a]
    BY <2>2, <2>4, <2>5, EntryReplaced DEF Put, Inv, TypeOK
  <2>6. CASE c # CacheOf[a]
    <3>1. cache'[CacheOf[a]] = cache[CacheOf[a]] /\ suspect'[CacheOf[a]] = suspect[CacheOf[a]]
      BY <2>2, <2>4, <2>6 DEF Put, Inv, TypeOK
    <3> QED BY <2>2, <2>3, <3>1, EntryKept
  <2> QED BY <2>5, <2>6
<1> QED BY <1>1, <1>2

(* A refresh that is refused found somebody else's value there. *)
LEMMA RefreshCheckEntries ==
    ASSUME OneAtATime, Inv, NEW p \in Procs, NEW a \in Aliases, EntryStands(a),
           RefreshCheck(p)
    PROVE  EntryStands(a)'
<1> DEFINE entry == cache[SyncStore(p)]
<1>1. UNCHANGED <<auth, cache, suspect>>
  BY DEF RefreshCheck
<1>2. CASE Pending(CacheOf[a]) /\ ~MayChange(entry)
  <2>1. SyncStore(p) = CacheOf[a]
    BY <1>2, PendingIsMine DEF Superseding, SyncStore, Synced
  <2>2. cache'[CacheOf[a]].kind # "ours"
    BY <1>1, <1>2, <2>1, OursMayChange
  <2> QED BY <2>2, EntryReplaced
<1>3. ASSUME NEW label \in {"store", "open"}, NEW seen,
             \/ Goto(p, label)
             \/ proc' = [proc EXCEPT ![p].pc = label, ![p].seen = seen]
      PROVE  EntryStands(a)'
  <2>1. Pending(CacheOf[a]) => Pending(CacheOf[a])'
    BY <1>3, StillPending
  <2> QED BY <1>1, <2>1, EntryKept
<1>4. CASE ~Pending(CacheOf[a])
  BY <1>1, <1>4, EntryKept
<1>5. \/ Goto(p, "open")
      \/ \E seen : proc' = [proc EXCEPT ![p].pc = "store", ![p].seen = seen]
      \/ ~MayChange(entry)
  BY DEF RefreshCheck
<1> QED BY <1>2, <1>3, <1>4, <1>5

(* An entry is encoded from the value its process holds, which is what its  *)
(* chain answers.                                                           *)
LEMMA EncodedFits ==
    ASSUME Inv, NEW p \in Procs, proc[p].pc = "store", ProcessStands(proc[p], auth),
           NEW a \in Aliases
    PROVE  EntryFits(Encoded(p), a, auth)
<1>1. proc[p].spec \in Aliases /\ Synced(p) = proc[p].spec
  BY DEF Inv, ControlOK, ControlOf, Synced, SyncAlias
<1>2. Encoded(p).value = AnswerOf(auth, proc[p].spec, Encoded(p).skipped)
  BY DEF Encoded, ProcessStands
<1>3. ASSUME Encoded(p).route_fingerprint = ChainOf[a]
      PROVE  Chain(a) = Chain(proc[p].spec)
  BY <1>1, <1>3 DEF Encoded, Chain
<1>4. ASSUME NEW skipped, Chain(a) = Chain(proc[p].spec)
      PROVE  AnswerOf(auth, a, skipped) = AnswerOf(auth, proc[p].spec, skipped)
  BY <1>4 DEF AnswerOf
<1> QED BY <1>2, <1>3, <1>4 DEF EntryFits

LEMMA StoreEntryEntries ==
    ASSUME OneAtATime, Inv, NEW p \in Procs, NEW a \in Aliases, EntryStands(a),
           ProcessStands(proc[p], auth), StoreEntry(p)
    PROVE  EntryStands(a)'
<1> DEFINE c == CacheOf[a]
<1>1. UNCHANGED auth /\ proc[p].pc = "store" /\ SyncStore(p) \in CacheStores /\ c \in CacheStores
  BY EncodedType, SyncStoreType, ConstantsAssumption DEF StoreEntry
<1>2. ASSUME NEW e \in {Torn, Encoded(p)}, Put(SyncStore(p), e), c = SyncStore(p)
      PROVE  EntryStands(a)'
  <2>1. cache'[c] = e
    BY <1>1, <1>2 DEF Put, Inv, TypeOK
  <2>2. CASE e = Torn
    BY <2>1, <2>2, EntryReplaced DEF Torn
  <2>3. CASE e = Encoded(p)
    <3>1. EntryFits(cache'[c], a, auth')
      BY <1>1, <2>1, <2>3, EncodedFits
    <3> QED BY <3>1 DEF EntryStands
  <2> QED BY <2>2, <2>3
<1>3. ASSUME NEW e, Put(SyncStore(p), e), c # SyncStore(p)
      PROVE  EntryStands(a)'
  <2>1. cache'[c] = cache[c] /\ suspect'[c] = suspect[c]
    BY <1>1, <1>3 DEF Put, Inv, TypeOK
  <2>2. ~Pending(c)
    BY <1>3, PendingIsMine DEF Superseding, SyncStore, Synced
  <2> QED BY <1>1, <2>1, <2>2, EntryKept
<1>4. ASSUME UNCHANGED <<cache, suspect>>, Goto(p, "check")
      PROVE  EntryStands(a)'
  <2>1. Pending(c) => Pending(c)'
    BY <1>4, StillPending
  <2> QED BY <1>1, <1>4, <2>1, EntryKept
<1> QED BY <1>2, <1>3, <1>4 DEF StoreEntry

LEMMA OpenOrCheckEntries ==
    ASSUME OneAtATime, Inv, NEW p \in Procs, NEW a \in Aliases, EntryStands(a),
           OpenCache(p) \/ CheckOwnership(p)
    PROVE  EntryStands(a)'
<1>1. UNCHANGED <<auth, cache>> /\ CacheOf[a] \in CacheStores /\ Synced(p) \in Aliases
  BY ConstantsAssumption DEF OpenCache, CheckOwnership, Inv, ControlOK, ControlOf, Synced
<1>2. CASE NotDropped(p)
  BY <1>1, <1>2, GivingUpMarks, EntryKept
<1>3. ASSUME NEW label \in {"check", "drop"}, NEW seen, UNCHANGED suspect,
             \/ Goto(p, label)
             \/ proc' = [proc EXCEPT ![p].pc = label, ![p].seen = seen]
      PROVE  EntryStands(a)'
  <2>1. Pending(CacheOf[a]) => Pending(CacheOf[a])'
    BY <1>3, StillPending
  <2> QED BY <1>1, <1>3, <2>1, EntryKept
<1> QED BY <1>2, <1>3 DEF OpenCache, CheckOwnership

LEMMA DropEntryEntries ==
    ASSUME OneAtATime, Inv, NEW p \in Procs, NEW a \in Aliases, EntryStands(a), DropEntry(p)
    PROVE  EntryStands(a)'
<1> DEFINE c == CacheOf[a]
<1>1. UNCHANGED auth /\ c \in CacheStores /\ Synced(p) \in Aliases
  BY ConstantsAssumption DEF DropEntry, Inv, ControlOK, ControlOf, Synced
<1>2. \/ cache' = cache
      \/ cache' = [cache EXCEPT ![SyncStore(p)] = Absent]
  BY DEF DropEntry, Put
<1>3. CASE c = SyncStore(p) /\ cache' = [cache EXCEPT ![SyncStore(p)] = Absent]
  BY <1>1, <1>3, EntryReplaced DEF Absent, Inv, TypeOK
<1>4. CASE NotDropped(p) /\ cache'[c] = cache[c]
  BY <1>1, <1>4, GivingUpMarks, EntryKept
<1>5. CASE c # SyncStore(p)
  <2>1. cache'[c] = cache[c]
    BY <1>1, <1>2, <1>5 DEF Inv, TypeOK
  <2>2. CASE Put(SyncStore(p), Absent)
    <3>1. suspect'[c] = suspect[c]
      BY <1>5, <2>2 DEF Put
    <3>2. ~Pending(c)
      BY <1>5, PendingIsMine DEF Superseding, SyncStore, Synced
    <3> QED BY <1>1, <2>1, <3>1, <3>2, EntryKept
  <2> QED BY <1>4, <2>1, <2>2 DEF DropEntry
<1> QED BY <1>2, <1>3, <1>4, <1>5 DEF DropEntry, Put

(* A change the primary accepted leaves an entry of the stores it concerns  *)
(* either superseded by its command or marked; other chains do not see it.  *)
LEMMA AcceptedEntries ==
    ASSUME OneAtATime, RoutesKeepStep, Inv, NEW p \in Procs,
           proc[p].pc \in {"write", "remove"}, ProcessStands(proc[p], auth),
           NEW a \in Commanded \cap Aliases, EntryStands(a),
           NEW v, SetAuth(Primary(proc[p].spec), v), UNCHANGED cache,
           \A c \in CacheStores : suspect[c] => suspect'[c],
           \A c \in CacheStores : Synced(p) \in Aliases /\ SyncStore(p) = c
                                   => Pending(c)' \/ suspect'[c]
    PROVE  EntryStands(a)'
<1> DEFINE spec == proc[p].spec
           c    == CacheOf[a]
<1>1. /\ spec \in Commanded /\ proc[p].op \in {"set", "delete"} /\ spec \in Specs
      /\ c \in CacheStores /\ Primary(spec) \in Sources
  BY ConstantsAssumption, ChainType DEF ProcessStands, Inv, ControlOK, ControlOf, TypeOK, Process
<1>2. CASE Primary(spec) \in Links(a)
  <2>1. SyncAlias("set", spec) \in Aliases /\ CacheOf[SyncAlias("set", spec)] = c
    BY <1>1, <1>2 DEF RoutesKeepStep
  <2>2. Synced(p) = SyncAlias("set", spec)
    BY <1>1 DEF Synced, SyncAlias
  <2>3. SyncStore(p) = c
    BY <2>1, <2>2 DEF SyncStore
  <2> QED BY <1>1, <2>1, <2>2, <2>3 DEF EntryStands
<1>3. CASE Primary(spec) \notin Links(a)
  <2>1. \A s \in Links(a) : auth'[s] = auth[s]
    BY <1>1, <1>3 DEF SetAuth, Inv, TypeOK
  <2>2. \A skipped : AnswerOf(auth', a, skipped) = AnswerOf(auth, a, skipped)
    BY <2>1, AnswerKept
  <2>3. ~Pending(c)
    BY PendingIsMine DEF Superseding
  <2>4. EntryFits(cache[c], a, auth) => EntryFits(cache'[c], a, auth')
    BY <2>2 DEF EntryFits
  <2> QED BY <1>1, <2>3, <2>4 DEF EntryStands
<1> QED BY <1>2, <1>3

LEMMA AuthoritativeEntries ==
    ASSUME OneAtATime, RoutesKeepStep, Inv, NEW p \in Procs,
           WriteAuthoritative(p) \/ RemoveAuthoritative(p), ProcessStands(proc[p], auth),
           NEW a \in Commanded \cap Aliases, EntryStands(a)
    PROVE  EntryStands(a)'
<1> DEFINE spec == proc[p].spec
<1>1. /\ proc[p].pc \in {"write", "remove"} /\ proc[p].op \in {"set", "delete"}
      /\ proc[p] \in Process /\ suspect \in [CacheStores -> BOOLEAN] /\ UNCHANGED cache
  BY DEF WriteAuthoritative, RemoveAuthoritative, Inv, TypeOK, ControlOK, ControlOf
<1>2. CASE UNCHANGED <<auth, suspect>>
  <2>1. ~Pending(CacheOf[a])
    BY <1>1, PendingIsMine DEF Superseding
  <2> QED BY <1>1, <1>2, <2>1, EntryKept
<1>3. ASSUME NEW v, SetAuth(Primary(spec), v), Unacknowledged(p)
      PROVE  EntryStands(a)'
  <2>1. \A c \in CacheStores : /\ suspect[c] => suspect'[c]
                               /\ Synced(p) \in Aliases /\ SyncStore(p) = c => suspect'[c]
    BY <1>1, <1>3 DEF Unacknowledged
  <2> QED BY <1>1, <1>3, <2>1, AcceptedEntries
<1>4. ASSUME NEW v, NEW label, SetAuth(Primary(spec), v), UNCHANGED suspect,
             label \in {SyncAfterWrite(spec), SyncAfterDelete(spec)},
             proc' = [proc EXCEPT ![p].pc = label, ![p].result = "ok"]
      PROVE  EntryStands(a)'
  <2>1. proc'[p].op = proc[p].op /\ proc'[p].spec = spec /\ proc'[p].pc = label
    BY <1>1, <1>4 DEF Inv, TypeOK, Process
  <2>2. ASSUME NEW c \in CacheStores, Synced(p) \in Aliases, SyncStore(p) = c
        PROVE  Pending(c)'
    <3>1. label \in {"refresh", "open"}
      BY <1>1, <1>4, <2>2 DEF SyncAfterWrite, SyncAfterDelete, Synced, SyncAlias
    <3>2. CacheOf[SyncAlias(proc'[p].op, proc'[p].spec)] = c
      BY <2>1, <2>2 DEF SyncStore, Synced
    <3> QED BY <1>1, <2>1, <3>1, <3>2 DEF Pending, Superseding
  <2> QED BY <1>1, <1>4, <2>2, AcceptedEntries
<1> QED BY <1>2, <1>3, <1>4 DEF WriteAuthoritative, RemoveAuthoritative

LEMMA StepEntries ==
    ASSUME OneAtATime, ~OutOfBand, RoutesKeepStep, Inv, Standing, [Next]_vars,
           NEW a \in Commanded \cap Aliases
    PROVE  EntryStands(a)'
<1>1. EntryStands(a) /\ a \in Aliases /\ \A p \in Procs : ProcessStands(proc[p], auth)
  BY DEF Standing
<1>2. ASSUME NEW p \in Procs, Step(p) PROVE EntryStands(a)'
  BY <1>1, <1>2, BetweenEntries, AuthoritativeEntries, RefreshCheckEntries,
     StoreEntryEntries, OpenOrCheckEntries, DropEntryEntries DEF Step
<1>3. ASSUME NEW p \in Procs,
             \/ \E spec \in Commanded : Get(p, spec) \/ Set(p, spec) \/ Delete(p, spec)
             \/ ClearCache(p) \/ Crash(p)
      PROVE  EntryStands(a)'
  BY <1>1, <1>3, BetweenEntries, CrashEntries
<1>4. CASE \/ UNCHANGED vars \/ Tick \/ AdjustClock
           \/ \E c \in CacheStores : \E e \in {Foreign, Unmarked} : Intrude(c, e)
  BY <1>1, <1>4, SurroundingsEntries
<1>5. ~\E s \in Sources : WriteOutOfBand(s)
  BY DEF WriteOutOfBand
<1> QED BY <1>2, <1>3, <1>4, <1>5 DEF Next

-----------------------------------------------------------------------------
(* What a step does to the process that takes it. *)
LEMMA CarriesOn ==
    ASSUME NEW held, NEW old, ProcessStands(old, held), NEW new,
           new.spec = old.spec, new.op = old.op, new.skipped = old.skipped,
           new.link = old.link, new.value = old.value,
           new.pc \in {"refresh", "store"} => old.pc \in {"refresh", "store"}
    PROVE  ProcessStands(new, held)
BY DEF ProcessStands, WalkStands

LEMMA IdleStands ==
    ASSUME NEW held
    PROVE  ProcessStands(Idle, held)
BY DEF ProcessStands, Idle, Commanded

LEMMA BegunStands ==
    ASSUME NEW held, NEW r, r.spec \in Commanded, r.skipped = {}, r.link = 1,
           r.pc \notin {"refresh", "store"}
    PROVE  ProcessStands(r, held)
<1>1. DOMAIN Chain(r.spec) = 1..Len(Chain(r.spec))
  BY ChainType, ConstantsAssumption DEF Commanded
<1>2. \A i \in DOMAIN Chain(r.spec) : ~(i < 1)
  BY <1>1
<1> QED BY <1>2 DEF ProcessStands, WalkStands

LEMMA CommandStands ==
    ASSUME Inv, NEW p \in Procs, NEW spec \in Commanded,
           Get(p, spec) \/ Set(p, spec) \/ Delete(p, spec) \/ ClearCache(p)
    PROVE  ProcessStands(proc'[p], auth')
<1>1. ASSUME NEW op, NEW s \in Commanded, NEW value, NEW label \in {"read", "walk", "write", "remove", "open"},
             Begin(p, op, s, label, value)
      PROVE  ProcessStands(proc'[p], auth')
  <2>1. /\ proc'[p].spec = s /\ proc'[p].skipped = {} /\ proc'[p].link = 1
        /\ proc'[p].pc = label
    BY <1>1 DEF Begin, Idle, Inv, TypeOK
  <2> QED BY <1>1, <2>1, BegunStands
<1>2. Declared \in Commanded
  BY DEF Commanded
<1> QED BY <1>1, <1>2 DEF Get, Set, Delete, ClearCache

LEMMA ReadCachedStands ==
    ASSUME Inv, NEW p \in Procs, ReadCached(p), ProcessStands(proc[p], auth)
    PROVE  ProcessStands(proc'[p], auth')
<1> DEFINE entry == cache[CacheOf[proc[p].spec]]
<1>1. /\ proc[p].pc = "read" /\ proc[p].spec \in Aliases /\ proc[p] \in Process
      /\ entry \in Entry /\ UNCHANGED auth
  BY ConstantsAssumption DEF ReadCached, Inv, TypeOK, ControlOK, ControlOf
<1>2. ASSUME NEW label \in {"walk", "check"}, Goto(p, label)
      PROVE  ProcessStands(proc'[p], auth')
  <2>1. proc'[p] = [proc[p] EXCEPT !.pc = label]
    BY <1>2 DEF Goto, Inv, TypeOK
  <2> QED BY <1>1, <2>1, CarriesOn DEF Process
<1>3. ASSUME NEW ok, entry # Absent,
             CachedEntry(entry, ChainOf[proc[p].spec], MaxAge, Wall, ok) = "Fresh",
             proc' = [proc EXCEPT ![p].pc = "done", ![p].result = "hit",
                                  ![p].value = entry.value]
      PROVE  ProcessStands(proc'[p], auth')
  <2>1. entry.value # NoValue
    BY <1>1, <1>3, FreshIsOurs DEF Envelope
  <2>2. /\ proc'[p].spec = proc[p].spec /\ proc'[p].op = proc[p].op /\ proc'[p].pc = "done"
        /\ proc'[p].skipped = proc[p].skipped /\ proc'[p].value = entry.value
    BY <1>1, <1>3 DEF Inv, TypeOK, Process
  <2> QED BY <2>1, <2>2 DEF ProcessStands
<1> QED BY <1>2, <1>3 DEF ReadCached

(* One link further, and what was passed over is still worth nothing; the   *)
(* first value found is what the chain answers past the broken links.       *)
LEMMA WalkLinkStands ==
    ASSUME Inv, NEW p \in Procs, WalkLink(p), ProcessStands(proc[p], auth)
    PROVE  ProcessStands(proc'[p], auth')
<1> DEFINE old  == proc[p]
           spec == proc[p].spec
           link == proc[p].link
           held == auth[Chain(spec)[link]]
<1>1. /\ old.pc = "walk" /\ old.op = "get" /\ old.value = NoValue /\ old \in Process
      /\ spec \in Specs /\ link \in DOMAIN Chain(spec) /\ UNCHANGED auth
  BY DEF WalkLink, Inv, TypeOK, ControlOK, ControlOf, Process
<1>2. /\ DOMAIN Chain(spec) \subseteq Nat /\ link \in Nat
      /\ spec \in Commanded /\ WalkStands(old, auth)
  BY <1>1, ChainType DEF ProcessStands
<1>3. /\ old.skipped \subseteq 1..(link - 1)
      /\ \A i \in DOMAIN Chain(spec) \ old.skipped : i < link => auth[Chain(spec)[i]] = NoValue
  BY <1>2 DEF WalkStands
<1>4. 1 <= link
  BY <1>1, ChainType
<1>5. ASSUME NEW skipped \in {old.skipped, old.skipped \cup {link}},
             skipped = old.skipped => held = NoValue,
             proc'[p] = [old EXCEPT !.link = link + 1, !.skipped = skipped]
      PROVE  ProcessStands(proc'[p], auth')
  <2>1. skipped \subseteq 1..((link + 1) - 1)
    BY <1>2, <1>3, <1>4, <1>5
  <2>2. ASSUME NEW i \in DOMAIN Chain(spec) \ skipped, i < link + 1
        PROVE  auth[Chain(spec)[i]] = NoValue
    <3>1. i < link \/ i = link
      BY <1>2, <2>2
    <3>2. i = link => skipped = old.skipped
      BY <1>5
    <3> QED BY <1>3, <1>5, <3>1, <3>2
  <2>3. /\ proc'[p].spec = spec /\ proc'[p].op = "get" /\ proc'[p].pc = "walk"
        /\ proc'[p].link = link + 1 /\ proc'[p].skipped = skipped
    BY <1>1, <1>5 DEF Process
  <2>4. WalkStands(proc'[p], auth')
    BY <1>1, <2>1, <2>2, <2>3 DEF WalkStands
  <2> QED BY <1>2, <2>3, <2>4 DEF ProcessStands
<1>6. ASSUME held # NoValue,
             proc'[p].value = held /\ proc'[p].spec = spec /\ proc'[p].op = "get"
               /\ proc'[p].skipped = old.skipped
      PROVE  ProcessStands(proc'[p], auth')
  <2>1. link \notin old.skipped
    <3>1. ~(link <= link - 1)
      BY <1>2
    <3> QED BY <1>3, <3>1
  <2>2. AnswerOf(auth, spec, old.skipped) = held
    BY <1>1, <1>3, <1>6, <2>1, FirstAnswers
  <2> QED BY <1>1, <1>2, <1>6, <2>2 DEF ProcessStands
<1>7. \/ proc'[p] = [old EXCEPT !.link = link + 1, !.skipped = old.skipped \cup {link}]
      \/ held = NoValue /\ proc'[p] = [old EXCEPT !.link = link + 1]
      \/ /\ held # NoValue
         /\ proc'[p].value = held /\ proc'[p].spec = spec /\ proc'[p].op = "get"
         /\ proc'[p].skipped = old.skipped
  <2> DEFINE found == [old EXCEPT !.pc = IF spec \in Aliases THEN "refresh" ELSE "done",
                                  !.value = held,
                                  !.result = IF spec \in Aliases THEN "none" ELSE "value"]
  <2>1. \/ proc'[p] = [old EXCEPT !.link = link + 1, !.skipped = old.skipped \cup {link}]
        \/ held = NoValue /\ proc'[p] = [old EXCEPT !.link = link + 1]
        \/ held # NoValue /\ proc'[p] = found
    BY DEF WalkLink, Inv, TypeOK
  <2>2. /\ found.value = held /\ found.spec = spec /\ found.op = "get"
        /\ found.skipped = old.skipped
    BY <1>1 DEF Process
  <2> QED BY <2>1, <2>2
<1>8. CASE proc'[p] = [old EXCEPT !.link = link + 1, !.skipped = old.skipped \cup {link}]
  <2>1. link \notin old.skipped
    <3>1. ~(link <= link - 1)
      BY <1>2
    <3> QED BY <1>3, <3>1
  <2> QED BY <1>5, <1>8, <2>1
<1>9. CASE held = NoValue /\ proc'[p] = [old EXCEPT !.link = link + 1]
  <2>1. proc'[p] = [old EXCEPT !.link = link + 1, !.skipped = old.skipped]
    BY <1>1, <1>9 DEF Process
  <2> QED BY <1>5, <1>9, <2>1
<1> QED BY <1>6, <1>7, <1>8, <1>9

(* With nothing skipped, a primary that holds a value is the answer. *)
LEMMA PrimaryAnswers ==
    ASSUME NEW held, NEW spec \in Specs, held[Chain(spec)[1]] # NoValue
    PROVE  AnswerOf(held, spec, {}) = held[Chain(spec)[1]]
<1>1. Chain(spec) \in Seq(Sources) /\ 1 \in DOMAIN Chain(spec)
  BY ChainType
<1>2. \A i \in DOMAIN Chain(spec) : ~(i < 1)
  BY <1>1
<1>3. 1 \in DOMAIN Chain(spec) \ {}
  BY <1>1
<1> QED BY <1>2, <1>3, FirstAnswers

LEMMA AuthoritativeStands ==
    ASSUME Inv, NEW p \in Procs, WriteAuthoritative(p) \/ RemoveAuthoritative(p),
           ProcessStands(proc[p], auth)
    PROVE  ProcessStands(proc'[p], auth')
<1> DEFINE old == proc[p]
<1>1. /\ old \in Process /\ old.spec \in Commanded /\ old.op \in {"set", "delete"}
      /\ old.skipped = {} /\ old.spec \in Specs
  BY DEF WriteAuthoritative, RemoveAuthoritative, Inv, TypeOK, ControlOK, ControlOf,
     ProcessStands, Process
<1>2. /\ proc'[p].spec = old.spec /\ proc'[p].op = old.op /\ proc'[p].skipped = {}
      /\ proc'[p].value = old.value
  <2>1. \/ proc' = [proc EXCEPT ![p].pc = SyncAfterWrite(old.spec), ![p].result = "ok"]
        \/ proc' = [proc EXCEPT ![p].pc = SyncAfterDelete(old.spec), ![p].result = "ok"]
        \/ proc' = [proc EXCEPT ![p].pc = "done", ![p].result = "error"]
    BY DEF WriteAuthoritative, RemoveAuthoritative, Unacknowledged, Finish
  <2>2. proc \in [Procs -> Process]
    BY DEF Inv, TypeOK
  <2> QED BY <1>1, <2>1, <2>2 DEF Process
<1>3. ASSUME proc'[p].pc \in {"refresh", "store"}
      PROVE  old.value = AnswerOf(auth', old.spec, {})
  <2>1. /\ old.pc = "write" /\ old.value \in Values
        /\ SetAuth(Primary(old.spec), old.value)
    BY <1>1, <1>3 DEF WriteAuthoritative, RemoveAuthoritative, Unacknowledged, Finish,
       SyncAfterDelete, Inv, TypeOK, ControlOK, ControlOf, Process
  <2>2. /\ Chain(old.spec) \in Seq(Sources) /\ 1 \in DOMAIN Chain(old.spec)
        /\ Primary(old.spec) \in Sources
    BY <1>1, ChainType
  <2>3. auth'[Chain(old.spec)[1]] = old.value /\ old.value # NoValue
    BY <2>1, <2>2 DEF SetAuth, Primary, Inv, TypeOK
  <2> QED BY <1>1, <2>3, PrimaryAnswers DEF Primary
<1> QED BY <1>1, <1>2, <1>3 DEF ProcessStands

LEMMA OtherStepStands ==
    ASSUME Inv, NEW p \in Procs, ProcessStands(proc[p], auth),
           \/ WalkEnds(p) \/ RefreshCheck(p) \/ StoreEntry(p)
           \/ OpenCache(p) \/ CheckOwnership(p) \/ DropEntry(p)
    PROVE  ProcessStands(proc'[p], auth')
<1>1. proc[p] \in Process /\ UNCHANGED auth
  BY DEF WalkEnds, RefreshCheck, StoreEntry, OpenCache, CheckOwnership, DropEntry, Inv, TypeOK
<1>2. CASE \/ \E label \in {"walk", "open", "check"} : Goto(p, label)
           \/ \E result : Finish(p, result)
  <2>1. /\ proc'[p].spec = proc[p].spec /\ proc'[p].op = proc[p].op
        /\ proc'[p].skipped = proc[p].skipped /\ proc'[p].link = proc[p].link
        /\ proc'[p].value = proc[p].value /\ proc'[p].pc \notin {"refresh", "store"}
    BY <1>1, <1>2 DEF Goto, Finish, Inv, TypeOK, Process
  <2> QED BY <1>1, <2>1, CarriesOn
<1>3. ASSUME NEW seen, NEW label \in {"store", "drop"}, label = "store" => proc[p].pc = "refresh",
             proc' = [proc EXCEPT ![p].pc = label, ![p].seen = seen]
      PROVE  ProcessStands(proc'[p], auth')
  <2>1. /\ proc'[p].spec = proc[p].spec /\ proc'[p].op = proc[p].op
        /\ proc'[p].skipped = proc[p].skipped /\ proc'[p].link = proc[p].link
        /\ proc'[p].value = proc[p].value /\ proc'[p].pc = label
    BY <1>1, <1>3 DEF Inv, TypeOK, Process
  <2> QED BY <1>1, <1>3, <2>1, CarriesOn
<1>4. CASE RefreshCheck(p)
  BY <1>2, <1>3, <1>4 DEF RefreshCheck
<1>5. CASE CheckOwnership(p)
  BY <1>2, <1>3, <1>5 DEF CheckOwnership, NotDropped
<1>6. CASE WalkEnds(p) \/ StoreEntry(p) \/ OpenCache(p) \/ DropEntry(p)
  BY <1>2, <1>6 DEF WalkEnds, StoreEntry, OpenCache, DropEntry, Dropped, NotDropped
<1> QED BY <1>4, <1>5, <1>6

LEMMA StepProcesses ==
    ASSUME OneAtATime, ~OutOfBand, Inv, Standing, [Next]_vars, NEW q \in Procs
    PROVE  ProcessStands(proc'[q], auth')
<1>1. ProcessStands(proc[q], auth)
  BY DEF Standing
<1>2. ASSUME NEW p \in Procs,
             \/ \E spec \in Commanded : Get(p, spec) \/ Set(p, spec) \/ Delete(p, spec)
             \/ ClearCache(p)
      PROVE  ProcessStands(proc'[q], auth')
  BY <1>2, CommandStands DEF OneAtATime, Commanded
<1>3. ASSUME NEW p \in Procs, Crash(p) \/ Return(p)
      PROVE  ProcessStands(proc'[q], auth')
  <2>1. p = q /\ proc'[q] = Idle
    BY <1>3 DEF OneAtATime, Crash, Return, Inv, TypeOK
  <2> QED BY <2>1, IdleStands
<1>4. ASSUME NEW p \in Procs, Step(p), ~Return(p)
      PROVE  ProcessStands(proc'[q], auth')
  <2>1. p = q
    BY DEF OneAtATime
  <2> QED BY <1>1, <1>4, <2>1, ReadCachedStands, WalkLinkStands, AuthoritativeStands,
          OtherStepStands DEF Step
<1>5. CASE \/ UNCHANGED vars \/ Tick \/ AdjustClock
           \/ \E c \in CacheStores : \E e \in {Foreign, Unmarked} : Intrude(c, e)
  BY <1>1, <1>5 DEF vars, Tick, AdjustClock, Intrude
<1>6. ~\E s \in Sources : WriteOutOfBand(s)
  BY DEF WriteOutOfBand
<1> QED BY <1>2, <1>3, <1>4, <1>5, <1>6 DEF Next

LEMMA InitStanding == Init => Standing
<1> SUFFICES ASSUME Init PROVE Standing
  OBVIOUS
<1>1. \A a \in Commanded \cap Aliases : EntryStands(a)
  BY ConstantsAssumption DEF Init, EntryStands, EntryFits, Absent
<1>2. \A p \in Procs : ProcessStands(proc[p], auth)
  BY IdleStands DEF Init
<1> QED BY <1>1, <1>2 DEF Standing

LEMMA NextStanding ==
    ASSUME OneAtATime, ~OutOfBand, RoutesKeepStep
    PROVE  Inv /\ Standing /\ [Next]_vars => Standing'
<1> SUFFICES ASSUME Inv, Standing, [Next]_vars PROVE Standing'
  OBVIOUS
<1>1. \A a \in Commanded \cap Aliases : EntryStands(a)'
  BY StepEntries
<1>2. \A p \in Procs : ProcessStands(proc'[p], auth')
  BY StepProcesses
<1> QED BY <1>1, <1>2 DEF Standing, Commanded

HitIsCurrentStep ==
    \A p \in Procs : Serves(p) =>
        \/ suspect[CacheOf[proc[p].spec]]
        \/ proc'[p].value = Answer(proc[p].spec, Served(p).skipped)

(* One command at a time, nothing else writing the sources, and routes that *)
(* keep step: a value served from the cache is what the route would answer  *)
(* now, whichever calls failed and wherever commands died before, unless    *)
(* the command that superseded the entry died, failed or warned.            *)
THEOREM HitsAreCurrent ==
    ASSUME OneAtATime, ~OutOfBand, RoutesKeepStep
    PROVE  Spec => HitIsCurrent
<1>1. Inv /\ Standing /\ [Next]_vars => HitIsCurrentStep
  <2> SUFFICES ASSUME Inv, Standing, [Next]_vars, NEW p \in Procs, Serves(p)
               PROVE  \/ suspect[CacheOf[proc[p].spec]]
                      \/ proc'[p].value = Answer(proc[p].spec, Served(p).skipped)
    BY DEF HitIsCurrentStep
  <2> DEFINE a == proc[p].spec
  <2>1. /\ a \in Aliases /\ Served(p).kind = "ours"
        /\ Served(p).route_fingerprint = ChainOf[a] /\ proc'[p].value = Served(p).value
    BY ServesIsFresh
  <2>2. a \in Commanded
    BY DEF Standing, ProcessStands
  <2>3. EntryStands(a)
    BY <2>1, <2>2 DEF Standing
  <2>4. ~Pending(CacheOf[a])
    BY PendingIsMine DEF Serves, Superseding
  <2>5. Answer(a, Served(p).skipped) = AnswerOf(auth, a, Served(p).skipped)
    BY DEF Answer, AnswerOf
  <2> QED BY <2>1, <2>3, <2>4, <2>5 DEF EntryStands, EntryFits, Served
<1>2. Init => Standing
  BY InitStanding
<1>3. Inv /\ Standing /\ [Next]_vars => Standing'
  BY NextStanding
<1> QED BY SpecInv, <1>1, <1>2, <1>3, PTL DEF Spec, HitIsCurrent, HitIsCurrentStep
=============================================================================
