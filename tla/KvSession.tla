----------------------------- MODULE KvSession -----------------------------
(***************************************************************************)
(* The Vault and OpenBao provider: each operation opens a session, whose   *)
(* login tokens have a limited number of uses and a lease, and sends its   *)
(* requests with a use claimed from the session's pool.  A batch of reads  *)
(* fetches each path once, in waves of threads that share the pool; writes *)
(* with a maximum age and deletes are two requests each.                   *)
(*                                                                         *)
(* The server is modelled with them: it charges a token for every request  *)
(* that reaches it, and answers may be late or get lost.                   *)
(***************************************************************************)
EXTENDS Integers, Sequences, FiniteSets, FiniteSetsExt

CONSTANTS
    Main,       \* the thread that runs the operation
    Nobody,     \* holds the pool's lock when no thread does
    Paths,      \* KV paths; each is read by a thread of its own
    Names,      \* secrets
    PathOf,     \* the path of each name
    Batches,    \* the sets of names read together
    Invalid,    \* names whose reference lacks a field
    Width,      \* get_each_concurrency
    Attempts,   \* sends of one request
    Unlimited,  \* usize::MAX, as uses of a token
    Grants,     \* what a login may grant, and how much of it the response says
    MaxLogins,  \* logins the role still permits
    Second,     \* ticks of the clock in a second
    MaxAge,     \* ticks a value may be held by `set_expiring`
    Targets,    \* paths that operations on one secret address
    Instants    \* what the clock may show

Actors == Paths \cup {Main}
Never  == Max(Instants) + MaxAge + 1

ASSUME KvSessionAssumption ==
    /\ Main \notin Paths /\ Nobody \notin Paths \cup {Main}
    /\ IsFiniteSet(Paths) /\ Names # {}
    /\ PathOf \in [Names -> Paths] /\ Invalid \subseteq Names
    /\ Batches \subseteq (SUBSET Names) \ {{}}
    /\ {Width, Attempts, Second, MaxAge} \subseteq Nat \ {0}
    /\ Targets \subseteq Paths
    /\ 0 \in Instants /\ Instants \subseteq Nat
    /\ \E last \in Instants : \A i \in Instants : i <= last
    /\ MaxLogins \in Nat /\ Unlimited \in Nat
    /\ Grants \subseteq [uses : 0 .. Unlimited - 1, lease : Nat, saysUses : BOOLEAN, saysLease : BOOLEAN]

VARIABLES
    now,    \* the clock
    mount,  \* KV version, the kind of authentication, and the role
    store,  \* what the server holds at each path
    issued, \* the server's view of the session's tokens
    pool,   \* TokenPool: the session's view of them
    holder, \* of the pool's lock, while it logs in
    op,     \* the operation
    work    \* each thread's request

vars == <<now, mount, store, issued, pool, holder, op, work>>

Bare == [meta |-> FALSE, ttl |-> FALSE, held |-> FALSE, dies |-> Never]

Entries ==
    {[Bare EXCEPT !.meta = TRUE, !.ttl = (d # Never), !.held = TRUE, !.dies = d] : d \in {0, MaxAge, Never}}

Idle == [pc |-> "idle", then |-> "idle", step |-> "read", token |-> 0, tries |-> 1,
         started |-> 0, more |-> 0, reply |-> "none"]

NoOp == [name |-> "none", path |-> PathOf[CHOOSE n \in Names : TRUE], names |-> {}, todo |-> {},
         got |-> [p \in Paths |-> "unread"], result |-> "none", answer |-> {},
         before |-> Bare, bare |-> {}, disturbed |-> FALSE, touched |-> FALSE]

Init ==
    /\ now = 0
    /\ mount \in [kv : {1, 2}, auth : {"static", "login"}, left : 0..MaxLogins, grant : Grants]
    /\ mount.auth = "static" => mount.left = 0 /\ mount.grant = CHOOSE g \in Grants : TRUE
    /\ store \in [Paths -> {Bare} \cup Entries]
    /\ \A p \in Paths \ Targets : store[p].dies = Never
    /\ mount.kv = 1 => \A p \in Paths : store[p].dies = Never
    /\ issued = <<>> /\ pool = <<>> /\ holder = Nobody
    /\ op = NoOp
    /\ work = [a \in Actors |-> Idle]

At(a, pc)    == work[a].pc = pc
Moves(a, w)  == work' = [work EXCEPT ![a] = w]
Live(p)      == store[p].held /\ now < store[p].dies
Path(a)      == IF a = Main THEN op.path ELSE a
Ends(result) == op' = [op EXCEPT !.result = result] /\ work' = [work EXCEPT ![Main] = Idle]
Running      == op.name # "none" /\ op.result = "none"
-----------------------------------------------------------------------------
(* What the session makes of a login response.  Uses or a lease that the    *)
(* response does not state make the token good for one request.             *)
Margin(lease) == Min({5 * Second, lease \div 10})

Uses(g) ==
    IF ~g.saysUses \/ ~g.saysLease THEN 1
    ELSE IF g.uses = 0 THEN Unlimited ELSE g.uses

DeadlineFromReceipt(g, started) ==
    IF ~g.saysLease \/ g.lease = 0 THEN Never ELSE now + g.lease - Margin(g.lease)

Deadline(g, started) ==
    IF ~g.saysLease \/ g.lease = 0 THEN Never ELSE started + g.lease - Margin(g.lease)

Usable(t)     == t.uses > 0 /\ now < t.until
Claimed(t)    == IF t.uses = Unlimited THEN t ELSE [t EXCEPT !.uses = @ - 1]
Usables(ts)   == {i \in DOMAIN ts : Usable(ts[i])}
Available(ts) == Cardinality(UNION {{i} \X (1 .. ts[i].uses) : i \in Usables(ts)})

LogsIn(w, then) == [w EXCEPT !.pc = "login", !.then = then, !.started = now]

(* An operation first checks what it can without the server, then           *)
(* authenticates.  A configured token is taken for good.                    *)
FirstStep(name) ==
    CASE name = "get_many" -> "batch" [] name = "set_expiring" -> "ensure" [] OTHER -> "claim"

RequestDataFirst(name) ==
    CASE name \in {"set", "set_expiring"} -> "data" [] name = "delete" -> "exists" [] OTHER -> "read"

Request(name) ==
    CASE name = "set_expiring" -> "policy" [] name = "set" -> "data"
      [] name = "delete" -> "exists" [] OTHER -> "read"

Begin(name, p, N) ==
    /\ op = NoOp
    /\ LET o == [NoOp EXCEPT !.name = name, !.path = p, !.names = N,
                             !.todo = {PathOf[n] : n \in N}, !.before = IF name = "set_expiring" THEN store[p] ELSE Bare]
           refused == N \cap Invalid # {} \/ (name = "set_expiring" /\ mount.kv = 1)
           w == [Idle EXCEPT !.step = Request(name)]
       IN \/ /\ refused
             /\ op' = [o EXCEPT !.result = "refused"]
             /\ UNCHANGED <<issued, pool, work>>
          \/ /\ ~refused
             /\ op' = o
             /\ IF mount.auth = "static"
                THEN /\ issued' = <<[uses |-> Unlimited, expires |-> Never]>>
                     /\ pool' = <<[id |-> 1, uses |-> Unlimited, until |-> Never]>>
                     /\ Moves(Main, [w EXCEPT !.pc = FirstStep(name)])
                ELSE /\ Moves(Main, LogsIn(w, FirstStep(name)))
                     /\ UNCHANGED <<issued, pool>>
    /\ UNCHANGED <<now, mount, store, holder>>

Fails(a, how) ==
    /\ \/ a = Main /\ Ends(how)
       \/ /\ a # Main /\ op' = [op EXCEPT !.got[a] = "failed"]
          /\ Moves(a, [Idle EXCEPT !.pc = "done"])
    /\ holder' = IF holder = a THEN Nobody ELSE holder
    /\ UNCHANGED <<now, mount, store, issued, pool>>

(* The lease begins when the server issues the token, which is some time    *)
(* before the response is read.                                             *)
Grant(a) ==
    /\ At(a, "login") /\ mount.left > 0
    /\ mount' = [mount EXCEPT !.left = @ - 1]
    /\ LET g == mount.grant
       IN issued' = Append(issued,
            [uses |-> IF g.uses = 0 THEN Unlimited ELSE g.uses,
             expires |-> IF g.lease = 0 THEN Never ELSE now + g.lease])
    /\ Moves(a, [work[a] EXCEPT !.pc = "granted", !.token = Len(issued')])
    /\ UNCHANGED <<now, store, pool, holder, op>>

Admit(a) ==
    /\ At(a, "granted")
    /\ pool' = Append(pool, [id |-> work[a].token, uses |-> Uses(mount.grant),
                             until |-> Deadline(mount.grant, work[a].started)])
    /\ Moves(a, [work[a] EXCEPT !.pc = work[a].then, !.token = 0, !.then = "idle", !.started = 0])
    /\ UNCHANGED <<now, mount, store, issued, holder, op>>

LoginFails(a) == (At(a, "login") \/ At(a, "granted")) /\ Fails(a, "no_login")
-----------------------------------------------------------------------------
(* `claim_token` drops spent tokens from the front, and keeps the lock      *)
(* while it logs in for another.                                            *)
Foremost(i) == i \in Usables(pool) /\ \A j \in Usables(pool) : i <= j
From(ts, i) == <<Claimed(ts[i])>> \o SubSeq(ts, i + 1, Len(ts))

Takes(a, i) ==
    /\ pool' = From(pool, i)
    /\ Moves(a, [work[a] EXCEPT !.pc = "flight", !.token = pool[i].id])

ClaimUnlocked(a) ==
    /\ At(a, "claim")
    /\ \/ \E i \in DOMAIN pool : Foremost(i) /\ Takes(a, i)
       \/ Usables(pool) = {} /\ pool' = <<>> /\ Moves(a, LogsIn(work[a], "claim"))
    /\ UNCHANGED <<now, mount, store, issued, op, holder>>

Claim(a) ==
    /\ At(a, "claim") /\ holder \in {a, Nobody}
    /\ \/ \E i \in DOMAIN pool : Foremost(i) /\ Takes(a, i) /\ holder' = Nobody
       \/ /\ Usables(pool) = {}
          /\ pool' = <<>> /\ holder' = a
          /\ Moves(a, LogsIn(work[a], "claim"))
    /\ UNCHANGED <<now, mount, store, issued, op>>

(* `ensure_claims(2)`, before the first of the two requests: the tokens     *)
(* still usable are kept in their order, and logins add to them.            *)
Needed    == 2
Orders(I) == {f \in [1 .. Cardinality(I) -> I] : \A i, j \in DOMAIN f : i < j => f[i] < f[j]}

Ensure ==
    /\ At(Main, "ensure")
    /\ \E at \in Orders(Usables(pool)) : pool' = [i \in DOMAIN at |-> pool[at[i]]]
    /\ \/ Available(pool) >= Needed
          /\ Moves(Main, [work[Main] EXCEPT !.pc = "claim", !.more = 0])
       \/ Available(pool) < Needed /\ work[Main].more < Needed
          /\ Moves(Main, [LogsIn(work[Main], "ensure") EXCEPT !.more = @ + 1])
    /\ UNCHANGED <<now, mount, store, issued, holder, op>>

EnsureFails ==
    /\ At(Main, "ensure") /\ Available(pool) < Needed /\ work[Main].more >= Needed
    /\ Fails(Main, "failed")
-----------------------------------------------------------------------------
(* An expired version is no longer served, but the history it leaves can be *)
(* recovered: what a KV v2 delete looks for is the path's metadata.         *)
ThereByData(p) == Live(p)
There(p)       == IF mount.kv = 2 THEN store[p].meta ELSE Live(p)

(* One request, as the server sees it.                                      *)
Serve(a) ==
    /\ At(a, "flight")
    /\ LET t == issued[work[a].token]
           p == Path(a)
           step == work[a].step
           Answers(reply) == Moves(a, [work[a] EXCEPT !.pc = "reply", !.reply = reply])
           Stores(e) == store' = [store EXCEPT ![p] = e]
           Says(there) == Answers(IF there THEN "yes" ELSE "no") /\ UNCHANGED store
       IN /\ issued' = [issued EXCEPT ![work[a].token].uses = IF @ = Unlimited THEN @ ELSE @ - 1]
          /\ \/ Answers("error") /\ UNCHANGED <<store, op>>
             \/ /\ t.uses > 0 /\ now < t.expires
                /\ CASE step = "read" -> Says(Live(p))
                     [] step = "exists" -> Says(There(p))
                     [] step = "policy" -> Answers("yes") /\ Stores([store[p] EXCEPT !.meta = TRUE, !.ttl = TRUE])
                     [] step = "data" -> Answers("yes") /\ Stores([store[p] EXCEPT !.meta = TRUE, !.held = TRUE,
                                             !.dies = IF store[p].ttl THEN now + MaxAge ELSE Never])
                     [] step = "destroy" -> Answers("yes") /\ Stores(Bare)
                /\ op' = IF step = "read" /\ ~Live(p) THEN [op EXCEPT !.bare = @ \cup {p}] ELSE op
    /\ UNCHANGED <<now, mount, pool, holder>>

(* A request that could not be sent keeps its claim; one that timed out may *)
(* have been served, and is retried with another.                           *)
Unreached(a) ==
    /\ At(a, "flight") /\ work[a].tries < Attempts
    /\ Moves(a, [work[a] EXCEPT !.tries = @ + 1])
    /\ UNCHANGED <<now, mount, store, issued, pool, holder, op>>

Disturbed == [op EXCEPT !.disturbed = (op.name = "set_expiring")]

Retried(w)         == [w EXCEPT !.pc = "claim", !.tries = @ + 1, !.token = 0, !.reply = "none"]

TimesOut(a) ==
    /\ At(a, "flight") \/ At(a, "reply")
    /\ work[a].tries < Attempts
    /\ Moves(a, Retried(work[a]))
    /\ op' = Disturbed
    /\ UNCHANGED <<now, mount, store, issued, pool, holder>>

RequestFails(a) ==
    /\ At(a, "flight") \/ At(a, "reply")
    /\ Fails(a, "failed")

(* What the answer means to the operation.                                  *)
After(a) == [Idle EXCEPT !.pc = "claim"]

Accept(a) ==
    /\ At(a, "reply") /\ work[a].reply # "error"
    /\ CASE work[a].step = "read" /\ a # Main ->
              Moves(a, [Idle EXCEPT !.pc = "done"]) /\ op' = [op EXCEPT !.got[a] = work[a].reply]
         [] work[a].step = "read" /\ a = Main -> Ends(work[a].reply)
         [] work[a].step = "policy" -> Moves(a, [After(a) EXCEPT !.step = "data"]) /\ UNCHANGED op
         [] work[a].step = "exists" /\ work[a].reply = "yes" ->
              Moves(a, [After(a) EXCEPT !.step = "destroy"]) /\ UNCHANGED op
         [] work[a].step = "exists" /\ work[a].reply = "no" -> Ends("no")
         [] OTHER -> Ends("yes")
    /\ UNCHANGED <<now, mount, store, issued, pool, holder>>
-----------------------------------------------------------------------------
(* `get_each_with`: the next wave starts when every thread of the last one  *)
(* has answered.  A failed read fails the batch, after all of them.         *)
Wave(W) ==
    /\ At(Main, "batch")
    /\ \A p \in Paths : work[p].pc \in {"idle", "done"}
    /\ W \subseteq op.todo /\ Cardinality(W) = Min({Width, Cardinality(op.todo)}) /\ W # {}
    /\ work' = [a \in Actors |-> IF a \in W THEN [Idle EXCEPT !.pc = "claim"] ELSE work[a]]
    /\ op' = [op EXCEPT !.todo = @ \ W]
    /\ UNCHANGED <<now, mount, store, issued, pool, holder>>

FailedNone == FALSE
Failed     == \E n \in op.names : op.got[PathOf[n]] = "failed"

Collect ==
    /\ At(Main, "batch") /\ op.todo = {}
    /\ \A p \in Paths : work[p].pc \in {"idle", "done"}
    /\ op' = [op EXCEPT !.result = IF Failed THEN "failed" ELSE "yes",
                        !.answer = {n \in op.names : op.got[PathOf[n]] = "yes"}]
    /\ work' = [a \in Actors |-> Idle]
    /\ UNCHANGED <<now, mount, store, issued, pool, holder>>

(* The session ends with the operation, and its tokens with it.             *)
Return ==
    /\ op.result # "none"
    /\ op' = NoOp /\ issued' = <<>> /\ pool' = <<>>
    /\ UNCHANGED <<now, mount, store, holder, work>>
-----------------------------------------------------------------------------
Tick ==
    /\ now' \in {i \in Instants : i > now}
    /\ op' = IF Running THEN Disturbed ELSE op
    /\ UNCHANGED <<mount, store, issued, pool, holder, work>>

(* Another process destroys the path of an operation of two requests, or    *)
(* stores a value there: at most once in an operation.                      *)
Elsewhere(p) ==
    /\ Running /\ op.name \in {"set_expiring", "delete"} /\ p = op.path /\ ~op.touched
    /\ \E e \in {Bare, [store[p] EXCEPT !.meta = TRUE, !.held = TRUE,
                         !.dies = IF store[p].ttl THEN now + MaxAge ELSE Never]} :
          e # store[p] /\ store' = [store EXCEPT ![p] = e]
    /\ op' = [op EXCEPT !.touched = TRUE]
    /\ UNCHANGED <<now, mount, issued, pool, holder, work>>

Next ==
    \/ \E p \in Targets, name \in {"get", "set", "set_expiring", "delete"} : Begin(name, p, {})
    \/ \E N \in Batches : Begin("get_many", PathOf[CHOOSE n \in N : TRUE], N)
    \/ \E a \in Actors :
         \/ Grant(a) \/ Admit(a) \/ LoginFails(a) \/ Claim(a) \/ Serve(a)
         \/ Unreached(a) \/ TimesOut(a) \/ RequestFails(a) \/ Accept(a)
    \/ Ensure \/ EnsureFails
    \/ \E W \in SUBSET Paths : Wave(W)
    \/ Collect \/ Return
    \/ Tick
    \/ \E p \in Paths : Elsewhere(p)

Spec == Init /\ [][Next]_vars

Token    == [id : Nat, uses : Nat, until : Nat]
Entry    == [meta : BOOLEAN, ttl : BOOLEAN, held : BOOLEAN, dies : Nat]
WorkType ==
    [pc : {"idle", "login", "granted", "ensure", "batch", "claim", "flight", "reply", "done"},
     then : {"idle", "ensure", "batch", "claim"}, step : {"read", "data", "policy", "exists", "destroy"},
     token : Nat, tries : 1 .. Attempts, started : Instants, more : Nat,
     reply : {"none", "yes", "no", "error"}]
OpType   ==
    [name : {"none", "get", "set", "set_expiring", "delete", "get_many"}, path : Paths,
     names : SUBSET Names, todo : SUBSET Paths, got : [Paths -> {"unread", "yes", "no", "failed"}],
     result : {"none", "refused", "no_login", "failed", "yes", "no"}, answer : SUBSET Names,
     before : Entry, bare : SUBSET Paths, disturbed : BOOLEAN, touched : BOOLEAN]

(* The variables stay in their types, threads claim and spend tokens the    *)
(* server issued, and the pool is locked only by a thread that is logging   *)
(* in for the token it claims.                                              *)
TypeOK ==
    /\ now \in Instants
    /\ mount \in [kv : {1, 2}, auth : {"static", "login"}, left : 0..MaxLogins, grant : Grants]
    /\ store \in [Paths -> Entry]
    /\ issued \in Seq([uses : Int, expires : Nat])
    /\ pool \in Seq(Token) /\ \A i \in DOMAIN pool : pool[i].id \in DOMAIN issued
    /\ holder \in Actors \cup {Nobody}
    /\ holder # Nobody => work[holder].pc \in {"login", "granted", "claim"}
    /\ op \in OpType
    /\ work \in [Actors -> WorkType]
    /\ \A a \in Actors : work[a].pc \in {"flight", "granted"} => work[a].token \in DOMAIN issued

(* No request spends a use its token does not have, however many threads    *)
(* share the pool, and whatever was sent again: the server never sees a     *)
(* token more often than it allowed.                                        *)
WithinBudget == \A i \in DOMAIN issued : issued[i].uses >= 0

(* A claimed token is one the server still honours at that moment, wherever *)
(* between request and response its lease began.                            *)
ClaimsAreLive ==
    [][\A a \in Actors :
         At(a, "claim") /\ work'[a].pc = "flight" /\ mount.grant.saysLease =>
            now < issued[work'[a].token].expires]_vars

(* Threads that find the pool exhausted together log in once: a batch never *)
(* holds two tokens that could serve it.                                    *)
OneLoginServesAll ==
    op.name = "get_many" => Cardinality({i \in DOMAIN pool : Usable(pool[i])}) <= 1

(* The threads of an operation share its tokens: within what each allows,   *)
(* and without a login more than they need (vault_common.rs, TokenPool).    *)
TokensAreShared == WithinBudget /\ OneLoginServesAll

(* A write with a maximum age that fails because the role can no longer log *)
(* in leaves no expiry policy behind, unless an answer was lost or time     *)
(* passed since it made sure of its two requests.                           *)
NoHalfPolicy ==
    op.name = "set_expiring" /\ op.result = "no_login" /\ ~op.disturbed /\ ~op.touched =>
        store[op.path] = op.before

(* `set_expiring` that succeeds leaves a value that will expire, unless     *)
(* another process destroyed the path while it ran.                         *)
StoredToExpire ==
    op.name = "set_expiring" /\ op.result = "yes" /\ ~op.touched =>
        store[op.path].held /\ store[op.path].dies # Never

(* A write with a maximum age is both its requests or, for want of a login, *)
(* neither (vault_common.rs, `set_expiring`).                               *)
ExpiryIsWhole == StoredToExpire /\ NoHalfPolicy

(* The first half, whatever others do: what the comment on `set_expiring`   *)
(* asks.                                                                    *)
NeverUnexpiring ==
    op.name = "set_expiring" /\ op.result = "yes" /\ store[op.path].held =>
        store[op.path].dies # Never

(* After a delete nothing can be recovered, whether it found something to   *)
(* destroy or nothing, and also when the last version had expired.          *)
NothingRecoverable ==
    op.name = "delete" /\ op.result \in {"yes", "no"} /\ ~op.touched => store[op.path] = Bare

(* A batch answers for every name or fails: a name it leaves out was not    *)
(* there when its path was read.                                            *)
BatchIsWhole ==
    op.name = "get_many" /\ op.result = "yes" =>
        \A n \in op.names \ op.answer : PathOf[n] \in op.bare
=============================================================================
