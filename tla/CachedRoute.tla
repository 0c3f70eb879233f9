---------------------------- MODULE CachedRoute ----------------------------
(***************************************************************************)
(* One declared secret behind cached provider routes, used by any number   *)
(* of SecretSpec processes at once.                                        *)
(*                                                                         *)
(* Each process runs `get`, `set`, `delete` or `clear_cache` of secrets.rs.*)
(* A call to a provider (one read, one write, one delete) is one step, so  *)
(* everything the code does between two calls - deciding what an entry is  *)
(* worth, whose it is, what to do next - is made from what the last call   *)
(* returned, while other processes go on.  Providers fail, processes die,  *)
(* other tools write to the same stores, and the wall clock is adjusted.   *)
(*                                                                         *)
(* A spec names either a leaf provider (an element of Sources, the chain   *)
(* of one link) or a cached alias (an element of Aliases, a chain of       *)
(* leaves behind a cache).  A command uses the declared spec unless        *)
(* --provider, SECRETSPEC_PROVIDER or the builder overrides it.            *)
(*                                                                         *)
(* SyncAfterWriteRouteOnly is an altered form of the definition that       *)
(* follows it; the specification does not use it.                          *)
(***************************************************************************)
EXTENDS Integers, Sequences

CONSTANTS
    Procs,         \* processes
    Sources,       \* authoritative leaf stores
    Aliases,       \* cached aliases
    ChainOf,       \* the `fallback` list of a cached alias
    CacheStores,   \* leaf stores that hold cache entries
    CacheOf,       \* the `cache.provider` of a cached alias
    Declared,      \* the spec the manifest (or the user's default) declares
    Overrides,     \* specs commands are overridden with
    MaxAge,        \* `max_age`, in ticks of the clock
    Faults,        \* the failures that may happen, a subset of FaultKinds
    OutOfBand,     \* whether other tools write to the authoritative stores
    MaxVersion,    \* bound: values ever written
    MaxTime,       \* bound: ticks of the clock
    MaxSkew,       \* bound: how far the wall clock is ever moved
    MaxIntrusions  \* bound: writes of others to the cache stores

Specs      == Sources \cup Aliases
Values     == 1..MaxVersion
NoValue    == 0
FaultKinds == {"cacheBuild", "cacheRead", "cacheWrite", "cacheDelete", "clock",
               "authRead", "authWrite", "authAck", "crash"}

(* What a process knows of a cache address before it looks there, and after *)
(* a look that failed.                                                      *)
NotLooked  == [kind |-> "not looked"]
Unreadable == [kind |-> "unreadable"]

INSTANCE CacheEntry WITH Fingerprints <- Seq(Sources), Values <- Values

ASSUME ConstantsAssumption ==
    /\ Sources \cap Aliases = {}
    /\ ChainOf \in [Aliases -> Seq(Sources) \ {<<>>}]
    /\ CacheOf \in [Aliases -> CacheStores]
    /\ Declared \in Specs
    /\ Overrides \subseteq Specs
    /\ Faults \subseteq FaultKinds
    /\ OutOfBand \in BOOLEAN
    /\ {MaxAge, MaxVersion, MaxTime, MaxSkew, MaxIntrusions} \subseteq Nat

(* `cached_route` refuses an alias whose cache is one of its own sources; a *)
(* cache store holds nothing else here.                                     *)
ASSUME DistinctStoresAssumption == Sources \cap CacheStores = {}

VARIABLES
    auth,       \* what each authoritative store holds
    cache,      \* what each cache store holds at the secret's cache address
    proc,       \* where each process is in its operation
    now,        \* real time
    skew,       \* the wall clock runs this far ahead of real time
    written,    \* versions written so far
    intrusions, \* writes of others so far
    lastHeld,   \* history: when each source last held each value (0: never)
    suspect     \* history: the command that superseded a store's entry died,
                \* failed or printed that it could not drop it

vars == <<auth, cache, proc, now, skew, written, intrusions, lastHeld, suspect>>
-----------------------------------------------------------------------------
Chain(spec) == IF spec \in Aliases THEN ChainOf[spec] ELSE <<spec>>
Links(spec) == {Chain(spec)[i] : i \in DOMAIN Chain(spec)}
Primary(spec) == Chain(spec)[1]
Wall == now + skew

(* The cached alias whose entry an operation keeps in step: the one it goes *)
(* through, or else the one the manifest declares (`sync_cache_after_write` *)
(* and `_delete`).  `clear_cache` ignores overrides.                        *)
SyncAlias(op, spec) == IF op # "clear" /\ spec \in Aliases THEN spec ELSE Declared
Synced(p) == SyncAlias(proc[p].op, proc[p].spec)
SyncStore(p) == CacheOf[Synced(p)]

Idle == [pc |-> "idle", op |-> "none", spec |-> Declared, link |-> 1, skipped |-> {},
         value |-> NoValue, seen |-> NotLooked, asked |-> 0, result |-> "none"]

Goto(p, label)     == proc' = [proc EXCEPT ![p].pc = label]
Finish(p, result)  == proc' = [proc EXCEPT ![p].pc = "done", ![p].result = result]
Fails(kind)        == kind \in Faults
Result(p)          == IF proc[p].op = "get" THEN "value" ELSE "ok"

(* A store's entry replaced or dropped: whatever was left there is gone.    *)
Put(c, e) == /\ cache' = [cache EXCEPT ![c] = e]
             /\ suspect' = [suspect EXCEPT ![c] = FALSE]

(* Every value a source holds from now until the next tick. *)
Held(newAuth, time) ==
    [s \in Sources |-> [v \in Values |->
        IF newAuth[s] = v THEN time ELSE lastHeld[s][v]]]

SetAuth(s, v) == /\ auth' = [auth EXCEPT ![s] = v]
                 /\ lastHeld' = Held(auth', now)

Init ==
    /\ auth = [s \in Sources |-> NoValue]
    /\ cache = [c \in CacheStores |-> Absent]
    /\ proc = [p \in Procs |-> Idle]
    /\ now = 1
    /\ skew = 0
    /\ written = 0
    /\ intrusions = 0
    /\ lastHeld = [s \in Sources |-> [v \in Values |-> 0]]
    /\ suspect = [c \in CacheStores |-> FALSE]
-----------------------------------------------------------------------------
(* Commands.  Planning (`plan_secret`) fixes the route from the spec.       *)
Begin(p, op, spec, label, value) ==
    /\ proc[p].pc = "idle"
    /\ proc' = [proc EXCEPT ![p] = [Idle EXCEPT !.pc = label, !.op = op, !.spec = spec,
                                                !.value = value, !.asked = now]]
    /\ UNCHANGED <<auth, cache, now, skew, intrusions, lastHeld, suspect>>

Get(p, spec)    == /\ Begin(p, "get", spec, IF spec \in Aliases THEN "read" ELSE "walk", NoValue)
                   /\ UNCHANGED written
Delete(p, spec) == Begin(p, "delete", spec, "remove", NoValue) /\ UNCHANGED written

(* Every `set` brings a value never used before. *)
Set(p, spec) == /\ written < MaxVersion
                /\ written' = written + 1
                /\ Begin(p, "set", spec, "write", written')

(* `clear_cache` of a named secret; without a cached declaration there is   *)
(* no entry it would look for, and it says so.                              *)
ClearCache(p) == /\ Declared \in Aliases
                 /\ Begin(p, "clear", Declared, "open", NoValue)
                 /\ UNCHANGED written
-----------------------------------------------------------------------------
(* `read_cached_secret`: a fresh entry answers the read; one that is ours   *)
(* and unusable is dropped on the way; every failure is a miss.             *)
ReadCached(p) ==
    /\ proc[p].pc = "read"
    /\ LET spec  == proc[p].spec
           entry == cache[CacheOf[spec]]
           Worth(clockOk) == CachedEntry(entry, ChainOf[spec], MaxAge, Wall, clockOk)
       IN \/ /\ Fails("cacheBuild") \/ Fails("cacheRead") \/ entry = Absent
             /\ Goto(p, "walk")
          \/ \E clockOk \in {TRUE, ~Fails("clock")} :
               /\ entry # Absent
               /\ \/ /\ Worth(clockOk) = "Fresh"
                     /\ proc' = [proc EXCEPT ![p].pc = "done", ![p].result = "hit",
                                             ![p].value = entry.value]
                  \/ Worth(clockOk) = "Stale" /\ Goto(p, "check")
                  \/ Worth(clockOk) = "Foreign" /\ Goto(p, "walk")
    /\ UNCHANGED <<auth, cache, now, skew, written, intrusions, lastHeld, suspect>>

(* `get_secret_from_providers`, one link: a broken link is skipped, a link  *)
(* without the value is passed, the first value found ends the walk and is  *)
(* cached when the route has a cache.                                       *)
WalkLink(p) ==
    /\ proc[p].pc = "walk"
    /\ proc[p].link \in DOMAIN Chain(proc[p].spec)
    /\ LET spec == proc[p].spec
           link == proc[p].link
           held == auth[Chain(spec)[link]]
       IN \/ /\ Fails("authRead")
             /\ proc' = [proc EXCEPT ![p].link = link + 1,
                                     ![p].skipped = @ \cup {link}]
          \/ /\ held = NoValue
             /\ proc' = [proc EXCEPT ![p].link = link + 1]
          \/ /\ held # NoValue
             /\ proc' = [proc EXCEPT ![p].pc = IF spec \in Aliases THEN "refresh" ELSE "done",
                                     ![p].value = held,
                                     ![p].result = IF spec \in Aliases THEN "none" ELSE "value"]
    /\ UNCHANGED <<auth, cache, now, skew, written, intrusions, lastHeld, suspect>>

(* The end of the chain: an error only if no link said "not found".         *)
WalkEnds(p) ==
    /\ proc[p].pc = "walk"
    /\ proc[p].link \notin DOMAIN Chain(proc[p].spec)
    /\ Finish(p, IF proc[p].skipped = DOMAIN Chain(proc[p].spec) THEN "error" ELSE "missing")
    /\ UNCHANGED <<auth, cache, now, skew, written, intrusions, lastHeld, suspect>>
-----------------------------------------------------------------------------
(* What `sync_cache_after_write` and `_delete` do next, once the            *)
(* authoritative store has accepted the change.                             *)
SyncAfterWrite(spec)  == IF spec \in Aliases THEN "refresh"
                         ELSE IF Declared \in Aliases THEN "open" ELSE "done"

SyncAfterDelete(spec) == IF spec \in Aliases \/ Declared \in Aliases THEN "open" ELSE "done"

(* A write whose acknowledgement is lost reports an error: `set` and        *)
(* `delete` return before the cache is synchronised.                        *)
Unacknowledged(p) ==
    /\ Fails("authAck")
    /\ Finish(p, "error")
    /\ suspect' = IF Synced(p) \in Aliases THEN [suspect EXCEPT ![SyncStore(p)] = TRUE]
                                           ELSE suspect

(* `set`: the write goes to the primary of the route, never further. *)
WriteAuthoritative(p) ==
    /\ proc[p].pc = "write"
    /\ LET Accept == SetAuth(Primary(proc[p].spec), proc[p].value)
       IN \/ /\ Accept
             /\ proc' = [proc EXCEPT ![p].pc = SyncAfterWrite(proc[p].spec), ![p].result = "ok"]
             /\ UNCHANGED suspect
          \/ Accept /\ Unacknowledged(p)
          \/ /\ Fails("authWrite")
             /\ Finish(p, "error")
             /\ UNCHANGED <<auth, lastHeld, suspect>>
    /\ UNCHANGED <<cache, now, skew, written, intrusions>>

(* `delete`: only the primary's copy; removing nothing still synchronises.  *)
RemoveAuthoritative(p) ==
    /\ proc[p].pc = "remove"
    /\ \/ /\ SetAuth(Primary(proc[p].spec), NoValue)
          /\ proc' = [proc EXCEPT ![p].pc = SyncAfterDelete(proc[p].spec), ![p].result = "ok"]
          /\ UNCHANGED suspect
       \/ SetAuth(Primary(proc[p].spec), NoValue) /\ Unacknowledged(p)
       \/ /\ Fails("authWrite")
          /\ Finish(p, "error")
          /\ UNCHANGED <<auth, lastHeld, suspect>>
    /\ UNCHANGED <<cache, now, skew, written, intrusions>>
-----------------------------------------------------------------------------
(* `write_cached_secret`: build the cache provider and read the address     *)
(* first.  Somebody else's value there ends the refresh; an address that    *)
(* cannot be read counts as ours.                                           *)
RefreshCheck(p) ==
    /\ proc[p].pc = "refresh"
    /\ LET entry == cache[SyncStore(p)]
       IN \/ Fails("cacheBuild") /\ Goto(p, "open")
          \/ /\ Fails("cacheRead")
             /\ proc' = [proc EXCEPT ![p].pc = "store", ![p].seen = Unreadable]
          \/ /\ MayChange(entry)
             /\ proc' = [proc EXCEPT ![p].pc = "store", ![p].seen = entry]
          \/ ~MayChange(entry) /\ Finish(p, Result(p))
    /\ UNCHANGED <<auth, cache, now, skew, written, intrusions, lastHeld, suspect>>

(* `encode_entry` and `set_expiring`.  A failed write may have left nothing, *)
(* part of the entry or all of it; the code then drops what is there.       *)
Encoded(p) == [kind |-> "ours", route_fingerprint |-> ChainOf[Synced(p)],
               cached_at |-> Wall, value |-> proc[p].value,
               asked |-> proc[p].asked, stored |-> now, skipped |-> proc[p].skipped]

StoreEntry(p) ==
    /\ proc[p].pc = "store"
    /\ \/ Put(SyncStore(p), Encoded(p)) /\ Finish(p, Result(p))
       \/ /\ Fails("cacheWrite")
          /\ \/ \E e \in {Torn, Encoded(p)} : Put(SyncStore(p), e)
             \/ UNCHANGED <<cache, suspect>>
          /\ Goto(p, "check")
       \/ /\ Fails("clock")
          /\ Goto(p, "check")
          /\ UNCHANGED <<cache, suspect>>
    /\ UNCHANGED <<auth, now, skew, written, intrusions, lastHeld>>
-----------------------------------------------------------------------------
(* Dropping an entry: `evict_cache_entry` for an unusable one met by a      *)
(* read, `remediate_failed_cache_refresh` after a failed refresh, and       *)
(* `invalidate_cached_secret` after a change that bypassed or ended the     *)
(* cached value, or for `clear_cache`.  All of them end in                  *)
(* `delete_cache_entry`.                                                    *)
Evicting(p) == proc[p].op = "get" /\ proc[p].value = NoValue

Dropped(p) == IF Evicting(p) THEN Goto(p, "walk") ELSE Finish(p, Result(p))

(* An eviction that fails changes nothing for its read.  A failed           *)
(* remediation or invalidation prints that a read may serve the old value;  *)
(* `clear_cache` returns the failure.                                       *)
NotDropped(p) ==
    /\ IF Evicting(p) THEN Goto(p, "walk")
       ELSE Finish(p, IF proc[p].op = "clear" THEN "error" ELSE Result(p))
    /\ suspect' = IF Evicting(p) \/ proc[p].op = "clear" THEN suspect
                  ELSE [suspect EXCEPT ![SyncStore(p)] = TRUE]

(* Building the cache provider for an invalidation, or once more without    *)
(* its declared credentials for a remediation.                              *)
OpenCache(p) ==
    /\ proc[p].pc = "open"
    /\ \/ Goto(p, "check") /\ UNCHANGED suspect
       \/ Fails("cacheBuild") /\ NotDropped(p)
    /\ UNCHANGED <<auth, cache, now, skew, written, intrusions, lastHeld>>

(* `check_cache_address_is_ours` inside `delete_cache_entry`. *)
CheckOwnership(p) ==
    /\ proc[p].pc = "check"
    /\ LET entry == cache[SyncStore(p)]
       IN \/ /\ Fails("cacheRead")
             /\ proc' = [proc EXCEPT ![p].pc = "drop", ![p].seen = Unreadable]
             /\ UNCHANGED suspect
          \/ /\ MayChange(entry)
             /\ proc' = [proc EXCEPT ![p].pc = "drop", ![p].seen = entry]
             /\ UNCHANGED suspect
          \/ ~MayChange(entry) /\ NotDropped(p)
    /\ UNCHANGED <<auth, cache, now, skew, written, intrusions, lastHeld>>

DropEntry(p) ==
    /\ proc[p].pc = "drop"
    /\ \/ Put(SyncStore(p), Absent) /\ Dropped(p)
       \/ Fails("cacheDelete") /\ UNCHANGED cache /\ NotDropped(p)
       \/ /\ Fails("cacheDelete")
          /\ cache' = [cache EXCEPT ![SyncStore(p)] = Absent]
          /\ NotDropped(p)
    /\ UNCHANGED <<auth, now, skew, written, intrusions, lastHeld>>

(* The command returns, or its process dies where it stands. *)
Return(p) ==
    /\ proc[p].pc = "done"
    /\ proc' = [proc EXCEPT ![p] = Idle]
    /\ UNCHANGED <<auth, cache, now, skew, written, intrusions, lastHeld, suspect>>

Crash(p) ==
    /\ Fails("crash")
    /\ proc[p].pc \notin {"idle", "done"}
    /\ proc' = [proc EXCEPT ![p] = Idle]
    /\ suspect' = IF /\ proc[p].op \in {"set", "delete"}
                     /\ proc[p].pc \in {"refresh", "store", "open", "check", "drop"}
                  THEN [suspect EXCEPT ![SyncStore(p)] = TRUE] ELSE suspect
    /\ UNCHANGED <<auth, cache, now, skew, written, intrusions, lastHeld>>
-----------------------------------------------------------------------------
(* The surroundings: time, the administrator's clock, other tools writing   *)
(* the authoritative stores, and whoever else uses the cache stores.        *)
Tick ==
    /\ now < MaxTime
    /\ now' = now + 1
    /\ lastHeld' = Held(auth, now')
    /\ UNCHANGED <<auth, cache, proc, skew, written, intrusions, suspect>>

AdjustClock ==
    /\ skew' \in 0..MaxSkew \ {skew}
    /\ UNCHANGED <<auth, cache, proc, now, written, intrusions, lastHeld, suspect>>

WriteOutOfBand(s) ==
    /\ OutOfBand
    /\ written < MaxVersion
    /\ written' = written + 1
    /\ SetAuth(s, written')
    /\ UNCHANGED <<cache, proc, now, skew, intrusions, suspect>>

Intrude(c, e) ==
    /\ intrusions < MaxIntrusions
    /\ intrusions' = intrusions + 1
    /\ cache[c] # e
    /\ Put(c, e)
    /\ UNCHANGED <<auth, proc, now, skew, written, lastHeld>>

Step(p) ==
    \/ ReadCached(p) \/ WalkLink(p) \/ WalkEnds(p)
    \/ WriteAuthoritative(p) \/ RemoveAuthoritative(p)
    \/ RefreshCheck(p) \/ StoreEntry(p)
    \/ OpenCache(p) \/ CheckOwnership(p) \/ DropEntry(p)
    \/ Return(p)

Commanded == Overrides \cup {Declared}

Next ==
    \/ \E p \in Procs :
         \/ \E spec \in Commanded : Get(p, spec) \/ Set(p, spec) \/ Delete(p, spec)
         \/ ClearCache(p)
         \/ Step(p)
         \/ Crash(p)
    \/ Tick \/ AdjustClock
    \/ \E s \in Sources : WriteOutOfBand(s)
    \/ \E c \in CacheStores : \E e \in {Foreign, Unmarked} : Intrude(c, e)

Spec == Init /\ [][Next]_vars

(* A command that was started is carried out by its thread. *)
FairSpec == Spec /\ \A p \in Procs : WF_vars(Step(p))
-----------------------------------------------------------------------------
(* Properties *)

Process == [pc : {"idle", "read", "walk", "write", "remove", "refresh", "store", "open",
                  "check", "drop", "done"},
            op : {"none", "get", "set", "delete", "clear"},
            spec : Specs, link : Nat, skipped : SUBSET Nat, value : Values \cup {NoValue},
            seen : Entry \cup {NotLooked, Unreadable}, asked : Nat,
            result : {"none", "hit", "value", "missing", "ok", "error"}]

(* Every variable stays in its type; in particular a cache write always     *)
(* carries a real value under the fingerprint of a cached alias.            *)
TypeOK ==
    /\ auth \in [Sources -> Values \cup {NoValue}]
    /\ cache \in [CacheStores -> Entry]
    /\ proc \in [Procs -> Process]
    /\ now \in Nat
    /\ skew \in 0..MaxSkew
    /\ written \in 0..MaxVersion
    /\ intrusions \in Nat
    /\ lastHeld \in [Sources -> [Values -> Nat]]
    /\ suspect \in [CacheStores -> BOOLEAN]

(* Where a process can be in which operation; an operation about to change  *)
(* a cache store has seen nothing there that forbids it.                    *)
ControlOf(r) ==
    /\ r.pc = "read" =>
          r.op = "get" /\ r.spec \in Aliases /\ r.value = NoValue /\ r.result = "none"
    /\ r.pc = "walk" => r.op = "get" /\ r.value = NoValue
    /\ r.pc = "write" => r.op = "set" /\ r.value \in Values
    /\ r.pc = "remove" => r.op = "delete"
    /\ r.pc \in {"refresh", "store"} =>
          r.op \in {"get", "set"} /\ r.spec \in Aliases /\ r.value \in Values
    /\ r.pc \in {"refresh", "store", "open", "check", "drop"} =>
          SyncAlias(r.op, r.spec) \in Aliases
    /\ r.pc \in {"store", "drop"} =>
          r.seen = Unreadable \/ (r.seen \in Entry /\ MayChange(r.seen))
    /\ r.op = "get" /\ r.value = NoValue /\ r.pc \in {"open", "check", "drop"} =>
          r.spec \in Aliases

ControlOK == \A p \in Procs : ControlOf(proc[p])

(* What the history says of the stores and of every value under way: each   *)
(* was in a source of its chain at some time since its operation began.     *)
SourceHistory(holds, held, time) ==
    \A s \in Sources, v \in Values :
        /\ held[s][v] <= time
        /\ holds[s] = v => held[s][v] = time

EntryHistory(e, held) ==
    e.kind = "ours" =>
        /\ 0 < e.asked /\ e.asked <= e.stored
        /\ e.cached_at <= e.stored + MaxSkew
        /\ \E i \in DOMAIN e.route_fingerprint :
              e.asked <= held[e.route_fingerprint[i]][e.value]

ProcessHistory(r, held, time) ==
    /\ r.pc # "idle" => 0 < r.asked /\ r.asked <= time
    /\ r.pc \in {"refresh", "store"} =>
          \E i \in DOMAIN ChainOf[r.spec] : r.asked <= held[ChainOf[r.spec][i]][r.value]

HistoryOK ==
    /\ 0 < now
    /\ SourceHistory(auth, lastHeld, now)
    /\ \A c \in CacheStores : EntryHistory(cache[c], lastHeld)
    /\ \A p \in Procs : ProcessHistory(proc[p], lastHeld, now)

(* `get` answers from the cache in this step. *)
Serves(p) == proc[p].pc = "read" /\ proc'[p].result = "hit"
Served(p) == cache[CacheOf[proc[p].spec]]

(* Bounded staleness, whatever else runs, fails or writes to the stores: a  *)
(* value served from the cache was held by a source of the very chain the   *)
(* read goes through, and has been gone from it for at most `max_age` plus  *)
(* the time the operation that cached it took and what the clock was moved. *)
HitIsRecent ==
    [][\A p \in Procs : Serves(p) =>
         \E s \in Links(proc[p].spec) :
            /\ lastHeld[s][proc'[p].value] > 0
            /\ now <= lastHeld[s][proc'[p].value] + MaxAge + MaxSkew
                        + (Served(p).stored - Served(p).asked)]_vars

(* What the authoritative route answers, past the links known to be broken. *)
Answer(spec, skipped) ==
    LET live == {i \in DOMAIN Chain(spec) \ skipped : auth[Chain(spec)[i]] # NoValue}
    IN IF live = {} THEN NoValue
       ELSE auth[Chain(spec)[CHOOSE i \in live : \A j \in live : i <= j]]

(* For commands run one after another, the sources being written by nothing *)
(* else: a value served from the cache is what the route would answer now,  *)
(* unless the command that superseded it died, failed or printed a warning  *)
(* (the aim of `sync_cache_after_write`, `sync_cache_after_delete` and      *)
(* `remediate_failed_cache_refresh`).                                       *)
HitIsCurrent ==
    [][\A p \in Procs : Serves(p) =>
         \/ suspect[CacheOf[proc[p].spec]]
         \/ proc'[p].value = Answer(proc[p].spec, Served(p).skipped)]_vars

(* Somebody else's value in a cache store is replaced or removed only by an *)
(* operation that looked at the address first and was not shown that value  *)
(* (`check_cache_address_is_ours`): it came later, or could not be read.    *)
OwnershipRespected ==
    [][\A p \in Procs, c \in CacheStores :
         (proc'[p] # proc[p] /\ cache'[c] # cache[c] /\ cache[c] \in {Foreign, Unmarked})
            => proc[p].seen \notin {NotLooked, cache[c]}]_vars

(* "It deletes expired, malformed, and route-mismatched entries when found" *)
(* (caching.md): an expired entry a read has found leaves the store, when   *)
(* nothing fails.                                                           *)
HoldsExpired(c) == cache[c].kind = "ours" /\ Expired(cache[c], MaxAge, Wall)

FoundExpiredIsDropped ==
    \A p \in Procs, c \in CacheStores :
        (proc[p].pc = "read" /\ CacheOf[proc[p].spec] = c /\ HoldsExpired(c)) ~> ~HoldsExpired(c)

-----------------------------------------------------------------------------
(* What the repository's words promise and the code does not keep. *)

(* "A direct write, such as `secretspec set API_KEY --provider azure`,      *)
(* invalidates the corresponding cache entry." (caching.md:65) - for any    *)
(* cached alias whose primary was written, however commands select it.      *)
DirectWriteInvalidates ==
    [][\A p \in Procs, a \in Aliases :
         (/\ proc[p].op = "set" /\ Primary(a) = proc[p].spec
          /\ proc[p].pc # "done" /\ proc'[p].pc = "done" /\ proc'[p].result = "ok")
            => (cache'[CacheOf[a]].kind = "ours" => cache'[CacheOf[a]].value >= proc[p].value)]_vars

(* "A successful deletion also invalidates the manifest's cache so a later  *)
(* read cannot return the removed value." (secrets.rs:2678): a read that    *)
(* has the stores to itself serves no value the route has lost.             *)
RemovedIsNotServed ==
    [][\A p \in Procs : (Serves(p) /\ \A q \in Procs \ {p} : proc[q].pc = "idle") =>
         \E s \in Links(proc[p].spec) : auth[s] = proc'[p].value]_vars
=============================================================================
