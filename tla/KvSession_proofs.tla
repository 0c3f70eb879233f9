-------------------------- MODULE KvSession_proofs --------------------------
(***************************************************************************)
(* Proofs about KvSession for any paths, batches, grants, numbers of       *)
(* threads and logins: the types, and what a session promises of tokens,   *)
(* leases, expiring writes, deletes and batches.                           *)
(***************************************************************************)
EXTENDS KvSession, FiniteSetTheorems, TLAPS

(* Who is doing what: between operations nothing is left over; an operation *)
(* on one secret runs in Main alone; a batch is read by the threads of its  *)
(* paths once Main has authenticated.                                       *)
Resting == op.name = "none" \/ op.result # "none"

Single == op.name \in {"get", "set", "set_expiring", "delete"}

PathThread(p) ==
    /\ work[p].step = "read"
    /\ work[p].pc \in {"idle", "login", "granted", "claim", "flight", "reply", "done"}
    /\ work[p].pc \in {"login", "granted"} => work[p].then = "claim" /\ holder = p /\ pool = <<>>

Steps(name) ==
    CASE name = "set_expiring" -> {"policy", "data"} [] name = "set" -> {"data"}
      [] name = "delete" -> {"exists", "destroy"} [] OTHER -> {"read"}

Roles ==
    /\ op.name = "none" => op = NoOp /\ pool = <<>> /\ issued = <<>>
    /\ Resting => holder = Nobody /\ \A a \in Actors : work[a] = Idle
    /\ Single => \A p \in Paths : work[p] = Idle
    /\ Single /\ op.result = "none" =>
         /\ work[Main].step \in Steps(op.name)
         /\ work[Main].pc \in {"login", "granted", "ensure", "claim", "flight", "reply"}
         /\ work[Main].pc \in {"login", "granted"} => work[Main].then \in {"claim", "ensure"}
    /\ op.name = "get_many" /\ op.result = "none" =>
         /\ work[Main].pc \in {"login", "granted", "batch"}
         /\ work[Main].pc \in {"login", "granted"} =>
              /\ work[Main].then = "batch" /\ holder = Nobody /\ pool = <<>>
              /\ \A p \in Paths : work[p] = Idle
         /\ \A p \in Paths : PathThread(p)
    /\ op.name = "get_many" => Len(pool) <= 1
    /\ holder = Main =>
         Single /\ (work[Main].pc \in {"login", "granted"} => work[Main].then = "claim")

(* Every answer says something; only questions are answered with a "no".    *)
Replies ==
    \A a \in Actors : work[a].pc = "reply" =>
        /\ work[a].reply # "none"
        /\ work[a].reply = "no" => work[a].step \in {"read", "exists"}

(* What the session counts for a token, in its pool and with the requests   *)
(* that are on their way, the server still allows; a token just granted is  *)
(* used by nobody.                                                          *)
InFlight(i) == {a \in Actors : work[a].pc = "flight" /\ work[a].token = i}
Fresh(g)    == IF g.uses = 0 THEN Unlimited ELSE g.uses

Budget ==
    /\ \A i, j \in DOMAIN pool : pool[i].id = pool[j].id => i = j
    /\ \A i \in DOMAIN issued :
         /\ issued[i].uses <= Unlimited
         /\ issued[i].uses # Unlimited =>
              /\ Cardinality(InFlight(i)) <= issued[i].uses
              /\ \A j \in DOMAIN pool : pool[j].id = i =>
                   /\ pool[j].uses # Unlimited
                   /\ pool[j].uses + Cardinality(InFlight(i)) <= issued[i].uses
    /\ \A a \in Actors : work[a].pc = "granted" =>
         /\ \A j \in DOMAIN pool : pool[j].id # work[a].token
         /\ \A b \in Actors \ {a} :
              work[b].pc \in {"flight", "granted"} => work[b].token # work[a].token
         /\ issued[work[a].token].uses = Fresh(mount.grant)

(* The session takes no token for longer than the server does.              *)
Leases ==
    /\ \A a \in Actors : work[a].pc \in {"login", "granted"} => work[a].started <= now
    /\ \A a \in Actors : work[a].pc = "granted" =>
         LET t == issued[work[a].token]
         IN IF mount.grant.lease = 0 THEN t.expires = Never
            ELSE work[a].started + mount.grant.lease <= t.expires
    /\ mount.grant.saysLease =>
         \A j \in DOMAIN pool : pool[j].until <= issued[pool[j].id].expires

(* What is stored: nothing without metadata, and no expiry on KV v1.        *)
Stored ==
    /\ \A p \in Paths : store[p].meta \/ store[p] = Bare
    /\ mount.kv = 1 => \A p \in Paths : store[p] = Bare \/ (store[p].held /\ ~store[p].ttl /\ store[p].dies = Never)
    /\ op.name = "set_expiring" /\ op.result = "none" => mount.kv = 2

(* A write with a maximum age sets the policy first.                        *)
Target == store[op.path]

Expires ==
    op.name = "set_expiring" /\ ~op.touched =>
        /\ op.result = "none" =>
             /\ work[Main].step = "policy" /\ work[Main].reply = "yes" => Target.ttl
             /\ work[Main].step = "data" => Target.ttl
             /\ work[Main].step = "data" /\ work[Main].reply = "yes" =>
                  Target.held /\ Target.dies # Never
        /\ op.result = "yes" => Target.held /\ Target.dies # Never

Twice == \E i \in Usables(pool) : pool[i].uses >= 2 \/ \E j \in Usables(pool) : j # i
Once  == Usables(pool) # {}

Admitted ==
    op.name = "set_expiring" /\ ~op.disturbed /\ ~op.touched =>
        /\ op.result = "no_login" => Target = op.before
        /\ op.result = "none" =>
             LET w == work[Main]
             IN /\ w.pc \in {"login", "granted"} => w.step = "policy" /\ w.then = "ensure"
                /\ w.pc = "ensure" => w.step = "policy"
                /\ w.step = "policy" /\ w.pc # "reply" => Target = op.before
                /\ w.step = "policy" /\ w.pc = "claim" => Twice
                /\ w.step = "policy" /\ w.pc \in {"flight", "reply"} => Once
                /\ w.step = "data" /\ w.pc = "claim" => Once

Destroys ==
    op.name = "delete" /\ ~op.touched =>
        /\ op.result = "none" =>
             /\ work[Main].step = "exists" /\ work[Main].reply = "no" => Target = Bare
             /\ work[Main].step = "destroy" /\ work[Main].reply = "yes" => Target = Bare
        /\ op.result \in {"yes", "no"} => Target = Bare

(* A batch has asked, or will, for every path it needs, and found missing   *)
(* what it reports as missing.                                              *)
Asked ==
    op.name = "get_many" =>
        /\ \A p \in Paths : op.got[p] = "no" \/ work[p].reply = "no" => p \in op.bare
        /\ op.result = "none" => \A n \in op.names :
             LET p == PathOf[n] IN
             p \in op.todo \/ op.got[p] # "unread" \/ work[p].pc \notin {"idle", "done"}
        /\ op.result = "yes" => \A n \in op.names \ op.answer : PathOf[n] \in op.bare

IInv == TypeOK /\ Roles /\ Replies /\ Budget /\ Leases /\ Stored /\ Expires /\ Admitted /\ Destroys /\ Asked
-----------------------------------------------------------------------------
(* The constants, and what the helpers return.                              *)
LEMMA Constants ==
    /\ Never \in Nat /\ \A i \in Instants : i \in Nat /\ i + MaxAge < Never
    /\ 0 \in Instants /\ MaxAge \in Nat /\ Unlimited \in Nat
    /\ Main \in Actors /\ Paths \subseteq Actors /\ Nobody \notin Actors /\ Main \notin Paths
    /\ \A p \in Actors : p # Main => p \in Paths
    /\ IsFiniteSet(Actors)
<1>1. PICK last \in Instants : \A i \in Instants : i <= last BY KvSessionAssumption
<1>2. Instants \subseteq Nat /\ MaxAge \in Nat BY KvSessionAssumption
<1> DEFINE m == Max(Instants)
<1>3. m \in Instants /\ \A i \in Instants : i <= m
  BY <1>1, <1>2 DEF Max
<1>4. Never \in Nat /\ \A i \in Instants : i \in Nat /\ i + MaxAge < Never
  <2>1. Never = m + MaxAge + 1 BY DEF Never
  <2> HIDE DEF m
  <2>2. m \in Nat BY <1>2, <1>3
  <2>3. Never \in Nat BY <1>2, <2>1, <2>2
  <2>4. ASSUME NEW i \in Instants PROVE i \in Nat /\ i + MaxAge < Never
    <3>1. i \in Nat /\ i <= m BY <1>2, <1>3
    <3> QED BY <3>1, <1>2, <2>1, <2>2
  <2> QED BY <2>3, <2>4
<1>5. IsFiniteSet(Actors) BY KvSessionAssumption, FS_AddElement DEF Actors
<1> QED BY <1>2, <1>4, <1>5, KvSessionAssumption DEF Actors

LEMMA Records == Bare \in Entry /\ Idle \in WorkType /\ NoOp \in OpType
<1>1. Bare \in Entry BY Constants DEF Bare, Entry
<1>2. Idle \in WorkType BY Constants, KvSessionAssumption DEF Idle, WorkType
<1>3. PathOf[CHOOSE n \in Names : TRUE] \in Paths BY KvSessionAssumption
<1>4. NoOp \in OpType
  <2> DEFINE q == PathOf[CHOOSE n \in Names : TRUE]
             g == [p \in Paths |-> "unread"]
  <2>1. g \in [Paths -> {"unread", "yes", "no", "failed"}] OBVIOUS
  <2>2. q \in Paths BY <1>3
  <2>3. NoOp = [name |-> "none", path |-> q, names |-> {}, todo |-> {},
         got |-> g, result |-> "none", answer |-> {},
         before |-> Bare, bare |-> {}, disturbed |-> FALSE, touched |-> FALSE]
    BY DEF NoOp
  <2> HIDE DEF q, g
  <2> QED BY <1>1, <2>1, <2>2, <2>3 DEF OpType
<1> QED BY <1>1, <1>2, <1>4

LEMMA GrantType ==
    ASSUME NEW g \in Grants
    PROVE  /\ g.uses \in Nat /\ g.uses < Unlimited /\ g.lease \in Nat
           /\ g.saysUses \in BOOLEAN /\ g.saysLease \in BOOLEAN
           /\ Uses(g) \in Nat /\ Fresh(g) \in Nat /\ Fresh(g) <= Unlimited
           /\ Uses(g) = Fresh(g) \/ (Uses(g) = 1 /\ (Fresh(g) = Unlimited \/ 1 <= Fresh(g)))
<1>1. g \in [uses : 0 .. Unlimited - 1, lease : Nat, saysUses : BOOLEAN, saysLease : BOOLEAN]
  BY KvSessionAssumption
<1>2. Unlimited \in Nat BY KvSessionAssumption
<1> QED BY <1>1, <1>2 DEF Uses, Fresh

(* The safety margin is a part of the lease.                                *)
LEMMA MarginType ==
    ASSUME NEW lease \in Nat
    PROVE  Margin(lease) \in Nat /\ Margin(lease) <= lease
<1>1. lease \div 10 \in Nat /\ lease \div 10 <= lease OBVIOUS
<1>2. 5 * Second \in Nat BY KvSessionAssumption
<1> DEFINE m == lease \div 10
           s == 5 * Second
<1> HIDE DEF m, s
<1>3. m \in Nat /\ s \in Nat /\ m <= lease BY <1>1, <1>2 DEF m, s
<1>4. Min({s, m}) \in Nat /\ Min({s, m}) <= m
  <2>1. \E x \in {s, m} : \A y \in {s, m} : x <= y BY <1>3
  <2> QED BY <1>3, <2>1 DEF Min
<1>5. Margin(lease) = Min({s, m}) BY DEF Margin, s, m
<1> QED BY <1>3, <1>4, <1>5

LEMMA DeadlineType ==
    ASSUME NEW g \in Grants, NEW s \in Instants
    PROVE  /\ Deadline(g, s) \in Nat
           /\ g.saysLease => Deadline(g, s) <= IF g.lease = 0 THEN Never ELSE s + g.lease
<1>1. s \in Nat /\ Never \in Nat BY Constants
<1>2. g.lease \in Nat BY GrantType
<1>3. Margin(g.lease) \in Nat /\ Margin(g.lease) <= g.lease BY <1>2, MarginType
<1> QED BY <1>1, <1>2, <1>3 DEF Deadline

LEMMA Element == ASSUME NEW S, NEW s \in Seq(S), NEW i \in DOMAIN s PROVE s[i] \in S
OBVIOUS

LEMMA Appended ==
    ASSUME NEW S, NEW s \in Seq(S), NEW e \in S, NEW r, r = Append(s, e)
    PROVE  /\ r \in Seq(S) /\ Len(r) = Len(s) + 1 /\ Len(r) \in Nat /\ r[Len(r)] = e
           /\ \A i \in DOMAIN s : r[i] = s[i]
           /\ DOMAIN r = DOMAIN s \cup {Len(r)} /\ Len(r) \notin DOMAIN s
OBVIOUS

LEMMA Replaced ==
    ASSUME NEW S, NEW s \in Seq(S), NEW i \in DOMAIN s, NEW e \in S
    PROVE  /\ [s EXCEPT ![i] = e] \in Seq(S)
           /\ DOMAIN [s EXCEPT ![i] = e] = DOMAIN s /\ [s EXCEPT ![i] = e][i] = e
           /\ \A j \in DOMAIN s : j # i => [s EXCEPT ![i] = e][j] = s[j]
OBVIOUS
-----------------------------------------------------------------------------
-----------------------------------------------------------------------------
(* One thread moves; the others stay where they are.                        *)
LEMMA MovesType ==
    ASSUME TypeOK, NEW a \in Actors, NEW w \in WorkType, Moves(a, w)
    PROVE  /\ work' \in [Actors -> WorkType] /\ work'[a] = w
           /\ \A b \in Actors : b # a => work'[b] = work[b]
BY DEF TypeOK, Moves

LEMMA WorkOf ==
    ASSUME TypeOK, NEW a \in Actors
    PROVE  work[a] \in WorkType /\ work[a].token \in Nat /\ work[a].started \in Instants
           /\ work[a].more \in Nat /\ work[a].tries \in 1 .. Attempts
BY DEF TypeOK, WorkType

LEMMA OpOf ==
    ASSUME TypeOK
    PROVE  /\ op.path \in Paths /\ op.names \subseteq Names /\ op.todo \subseteq Paths
           /\ op.got \in [Paths -> {"unread", "yes", "no", "failed"}] /\ op.bare \subseteq Paths
           /\ op.name \in {"none", "get", "set", "set_expiring", "delete", "get_many"}
           /\ op.result \in {"none", "refused", "no_login", "failed", "yes", "no"}
           /\ Target \in Entry
BY DEF TypeOK, OpType, Target

(* A thread that is somewhere in an operation belongs to one: Main to any,  *)
(* the others to a batch.                                                   *)
LEMMA Engaged ==
    ASSUME IInv, NEW a \in Actors, work[a].pc # "idle"
    PROVE  /\ op.name # "none" /\ op.result = "none"
           /\ a # Main => op.name = "get_many" /\ PathThread(a)
           /\ Single \/ op.name = "get_many"
<1>1. op.name # "none" /\ op.result = "none" BY DEF IInv, Roles, Resting, Idle
<1>2. Single \/ op.name = "get_many" BY <1>1, OpOf DEF IInv, Single
<1>3. a # Main => a \in Paths BY Constants
<1> QED BY <1>1, <1>2, <1>3 DEF IInv, Roles, Idle

(* The thread goes on with its request, whatever it does about tokens.      *)
LEMMA Onward ==
    ASSUME IInv, NEW a \in Actors, NEW w \in WorkType, Moves(a, w),
           UNCHANGED <<store, op>>, mount'.kv = mount.kv,
           w.step = work[a].step, w.reply = work[a].reply,
           w.pc \notin {"idle", "done"}, work[a].pc \notin {"idle", "done"}
    PROVE  Stored' /\ Expires' /\ Destroys' /\ Asked' /\ (w.pc # "reply" => Replies')
<1>1. /\ work'[a] = w /\ \A b \in Actors : b # a => work'[b] = work[b]
  BY MovesType DEF IInv
<1>2. \A b \in Actors : work'[b].step = work[b].step /\ work'[b].reply = work[b].reply
                        /\ (work'[b].pc \in {"idle", "done"} <=> work[b].pc \in {"idle", "done"})
  BY <1>1
<1>3. Main \in Actors /\ Paths \subseteq Actors BY Constants
<1>4. Stored' BY DEF IInv, Stored
<1>5. Expires' BY <1>2, <1>3 DEF IInv, Expires, Target
<1>6. Destroys' BY <1>2, <1>3 DEF IInv, Destroys, Target
<1>7. Asked'
  <2> SUFFICES ASSUME op.name = "get_many" PROVE Asked' BY DEF Asked
  <2>1. \A p \in Paths : work'[p].reply = work[p].reply
                        /\ (work'[p].pc \in {"idle", "done"} <=> work[p].pc \in {"idle", "done"})
    BY <1>2, <1>3
  <2>2. \A n \in op.names : PathOf[n] \in Paths BY OpOf, KvSessionAssumption DEF IInv
  <2> QED BY <2>1, <2>2 DEF IInv, Asked
<1>8. w.pc # "reply" => Replies' BY <1>1 DEF IInv, Replies
<1> QED BY <1>4, <1>5, <1>6, <1>7, <1>8

(* The server grants a token.                                               *)
LEMMA GrantInv == ASSUME IInv, NEW a \in Actors, Grant(a) PROVE IInv'
<1> DEFINE g == mount.grant
           t == [uses |-> Fresh(g), expires |-> IF g.lease = 0 THEN Never ELSE now + g.lease]
           w == [work[a] EXCEPT !.pc = "granted", !.token = Len(issued')]
<1>1. /\ work[a].pc = "login" /\ issued' = Append(issued, t) /\ Moves(a, w)
      /\ mount' = [mount EXCEPT !.left = @ - 1] /\ mount.left > 0
      /\ UNCHANGED <<now, store, pool, holder, op>>
  BY DEF Grant, At, Fresh
<1>2. g \in Grants /\ now \in Nat /\ now \in Instants /\ Never \in Nat
  BY Constants DEF IInv, TypeOK
<1>3. t \in [uses : Int, expires : Nat] BY <1>2, GrantType
<1> HIDE DEF t, g
<1>4. /\ issued' \in Seq([uses : Int, expires : Nat]) /\ Len(issued') = Len(issued) + 1
      /\ issued'[Len(issued')] = t /\ \A i \in DOMAIN issued : issued'[i] = issued[i]
      /\ DOMAIN issued' = DOMAIN issued \cup {Len(issued')} /\ Len(issued') \notin DOMAIN issued
      /\ Len(issued') \in Nat
  BY <1>1, <1>3 DEF IInv, TypeOK
<1>5. w \in WorkType /\ w.pc = "granted" /\ w.token = Len(issued') /\ w.then = work[a].then
      /\ w.step = work[a].step /\ w.reply = work[a].reply /\ w.started = work[a].started
  BY <1>4, WorkOf DEF IInv, WorkType
<1> HIDE DEF w
<1>6. /\ work' \in [Actors -> WorkType] /\ work'[a] = w
      /\ \A b \in Actors : b # a => work'[b] = work[b]
  BY <1>1, <1>5, MovesType DEF IInv
<1>7. mount' \in [kv : {1, 2}, auth : {"static", "login"}, left : 0..MaxLogins, grant : Grants]
      /\ mount'.grant = g /\ mount'.kv = mount.kv
  <2>1. MaxLogins \in Nat BY KvSessionAssumption
  <2>2. mount \in [kv : {1, 2}, auth : {"static", "login"}, left : 0..MaxLogins, grant : Grants]
    BY DEF IInv, TypeOK
  <2>3. mount.left - 1 \in 0..MaxLogins BY <1>1, <2>1, <2>2
  <2> QED BY <1>1, <2>2, <2>3 DEF g
<1>8. TypeOK'
  <2>1. \A b \in Actors : work'[b].pc \in {"flight", "granted"} => work'[b].token \in DOMAIN issued'
    BY <1>4, <1>5, <1>6 DEF IInv, TypeOK
  <2>2. \A i \in DOMAIN pool' : pool'[i].id \in DOMAIN issued' BY <1>1, <1>4 DEF IInv, TypeOK
  <2>3. holder' # Nobody => work'[holder'].pc \in {"login", "granted", "claim"}
    BY <1>1, <1>5, <1>6 DEF IInv, TypeOK
  <2> QED BY <1>1, <1>4, <1>6, <1>7, <2>1, <2>2, <2>3 DEF IInv, TypeOK
<1>9. Roles'
  <2>1. op.name # "none" /\ op.result = "none" BY <1>1, Engaged
  <2>2. ~Resting' BY <1>1, <2>1 DEF Resting
  <2>3. CASE a = Main BY <1>1, <1>5, <1>6, <2>1, <2>2, <2>3, Constants DEF IInv, Roles, Single, Steps, PathThread, Resting
  <2>4. CASE a # Main
    <3>1. op.name = "get_many" /\ PathThread(a) /\ ~Single /\ Main \in Actors /\ a \in Paths
      BY <1>1, <2>4, Engaged, Constants DEF Single
    <3>2. work[Main].pc = "batch" /\ work'[Main] = work[Main]
      <4>1. work[Main].pc \in {"login", "granted", "batch"} BY <2>1, <3>1 DEF IInv, Roles
      <4>2. work[Main].pc \in {"login", "granted"} => work[a] = Idle
        BY <2>1, <3>1 DEF IInv, Roles
      <4> QED BY <4>1, <4>2, <1>1, <1>6, <2>4, <3>1 DEF Idle
    <3>3. ASSUME NEW p \in Paths PROVE PathThread(p)'
      <4>1. PathThread(p) BY <2>1, <3>1 DEF IInv, Roles
      <4>2. CASE p = a BY <4>1, <4>2, <1>1, <1>5, <1>6 DEF PathThread
      <4>3. CASE p # a BY <4>1, <4>3, <1>1, <1>6, Constants DEF PathThread
      <4> QED BY <4>2, <4>3
    <3> QED BY <1>1, <2>1, <2>2, <3>1, <3>2, <3>3 DEF IInv, Roles, Single
  <2> QED BY <2>3, <2>4
<1>10. Budget'
  <2>1. \A i \in DOMAIN issued : InFlight(i)' = InFlight(i)
    BY <1>1, <1>5, <1>6 DEF InFlight
  <2>2. ASSUME NEW i \in Nat, i \notin DOMAIN issued PROVE InFlight(i)' = {}
    <3>1. ASSUME NEW b \in Actors, work'[b].pc = "flight", work'[b].token = i PROVE FALSE
      <4>1. b # a /\ work[b].pc = "flight" /\ work[b].token = i BY <3>1, <1>5, <1>6
      <4> QED BY <4>1, <2>2 DEF IInv, TypeOK
    <3> QED BY <3>1 DEF InFlight
  <2>3. Fresh(g) \in Nat /\ Fresh(g) <= Unlimited BY <1>2, GrantType
  <2>4. \A j \in DOMAIN pool' : pool'[j].id \in DOMAIN issued BY <1>1 DEF IInv, TypeOK
  <2>5. ASSUME NEW i \in DOMAIN issued'
        PROVE  /\ issued'[i].uses <= Unlimited
               /\ issued'[i].uses # Unlimited =>
                    /\ Cardinality(InFlight(i)') <= issued'[i].uses
                    /\ \A j \in DOMAIN pool' : pool'[j].id = i =>
                         /\ pool'[j].uses # Unlimited
                         /\ pool'[j].uses + Cardinality(InFlight(i)') <= issued'[i].uses
    <3>1. CASE i \in DOMAIN issued BY <3>1, <1>1, <1>4, <2>1 DEF IInv, Budget
    <3>2. CASE i = Len(issued')
      <4>1. issued'[i].uses = Fresh(g) BY <3>2, <1>4 DEF t
      <4>2. InFlight(i)' = {} /\ i \notin DOMAIN issued BY <3>2, <1>4, <2>2
      <4>3. Cardinality(InFlight(i)') = 0 BY <4>2, FS_EmptySet
      <4> QED BY <4>1, <4>2, <4>3, <2>3, <2>4
    <3> QED BY <3>1, <3>2, <1>4
  <2>6. ASSUME NEW b \in Actors, work'[b].pc = "granted"
        PROVE  /\ \A j \in DOMAIN pool' : pool'[j].id # work'[b].token
               /\ \A c \in Actors \ {b} :
                    work'[c].pc \in {"flight", "granted"} => work'[c].token # work'[b].token
               /\ issued'[work'[b].token].uses = Fresh(mount'.grant)
    <3>1. CASE b = a
      <4>1. \A c \in Actors \ {a} : work'[c].pc \in {"flight", "granted"} => work'[c].token \in DOMAIN issued
        BY <1>6 DEF IInv, TypeOK
      <4> QED BY <3>1, <4>1, <1>4, <1>5, <1>6, <1>7, <2>4 DEF t
    <3>2. CASE b # a
      <4>1. work[b].pc = "granted" /\ work[b].token \in DOMAIN issued /\ work'[b] = work[b]
        BY <3>2, <2>6, <1>6 DEF IInv, TypeOK
      <4>2. issued'[work[b].token] = issued[work[b].token] /\ work[b].token # Len(issued')
        BY <4>1, <1>4
      <4>3. \A c \in Actors \ {b} :
              work'[c].pc \in {"flight", "granted"} => work'[c].token # work[b].token
        BY <4>1, <4>2, <1>5, <1>6 DEF IInv, Budget
      <4>4. issued[work[b].token].uses = Fresh(g) /\ \A j \in DOMAIN pool : pool[j].id # work[b].token
        BY <4>1 DEF IInv, Budget, g
      <4> QED BY <4>1, <4>2, <4>3, <4>4, <1>1, <1>7
    <3> QED BY <3>1, <3>2
  <2> QED BY <1>1, <2>5, <2>6 DEF Budget, IInv
<1>11. Leases'
  <2>1. work[a].started \in Nat /\ work[a].started <= now
    BY <1>1, WorkOf, Constants DEF IInv, Leases
  <2>2. g.lease \in Nat BY <1>2, GrantType
  <2>3. LET u == issued'[work'[a].token]
        IN IF g.lease = 0 THEN u.expires = Never ELSE work'[a].started + g.lease <= u.expires
    BY <1>2, <1>4, <1>5, <1>6, <2>1, <2>2 DEF t
  <2>4. ASSUME NEW b \in Actors, work'[b].pc = "granted"
        PROVE  LET u == issued'[work'[b].token]
               IN IF g.lease = 0 THEN u.expires = Never ELSE work'[b].started + g.lease <= u.expires
    <3>1. CASE b # a
      <4>1. work[b].pc = "granted" /\ work[b].token \in DOMAIN issued /\ work'[b] = work[b]
        BY <3>1, <2>4, <1>6 DEF IInv, TypeOK
      <4> QED BY <4>1, <1>4 DEF IInv, Leases, g
    <3> QED BY <2>3, <3>1
  <2>5. \A b \in Actors : work'[b].pc \in {"login", "granted"} => work'[b].started <= now
    BY <1>1, <1>5, <1>6, <2>1 DEF IInv, Leases
  <2>6. \A j \in DOMAIN pool : issued'[pool[j].id] = issued[pool[j].id] BY <1>4 DEF IInv, TypeOK
  <2> QED BY <1>1, <1>7, <2>4, <2>5, <2>6 DEF IInv, Leases, g
<1>12. Admitted'
  <2>1. Usables(pool)' = Usables(pool) BY <1>1 DEF Usables, Usable
  <2>2. Twice' = Twice /\ Once' = Once BY <2>1, <1>1 DEF Twice, Once
  <2> QED BY <1>1, <1>5, <1>6, <2>2, Constants DEF IInv, Admitted, Target
<1>13. Stored' /\ Expires' /\ Destroys' /\ Asked' /\ Replies'
  BY <1>1, <1>5, <1>7, Onward
<1> QED BY <1>8, <1>9, <1>10, <1>11, <1>12, <1>13 DEF IInv

(* The session admits the token it was granted.                             *)
LEMMA AdmitInv == ASSUME IInv, NEW a \in Actors, Admit(a) PROVE IInv'
<1> DEFINE g == mount.grant
           id == work[a].token
           t == [id |-> id, uses |-> Uses(g), until |-> Deadline(g, work[a].started)]
           w == [work[a] EXCEPT !.pc = work[a].then, !.token = 0, !.then = "idle", !.started = 0]
<1>1. /\ work[a].pc = "granted" /\ pool' = Append(pool, t) /\ Moves(a, w)
      /\ UNCHANGED <<now, mount, store, issued, holder, op>>
  BY DEF Admit, At
<1>2. g \in Grants /\ now \in Nat /\ id \in DOMAIN issued /\ id \in Nat
      /\ work[a].started \in Instants /\ work[a].started \in Nat
  BY <1>1, WorkOf, Constants DEF IInv, TypeOK
<1>3. t \in Token BY <1>2, GrantType, DeadlineType DEF Token
<1>4. t.id = id /\ t.uses = Uses(g) /\ t.until = Deadline(g, work[a].started) OBVIOUS
<1> HIDE DEF t
<1>5. /\ pool' \in Seq(Token) /\ Len(pool') = Len(pool) + 1 /\ pool'[Len(pool) + 1] = t
      /\ \A j \in DOMAIN pool : pool'[j] = pool[j]
      /\ DOMAIN pool' = DOMAIN pool \cup {Len(pool) + 1} /\ Len(pool) + 1 \notin DOMAIN pool
  <2>1. pool \in Seq(Token) BY DEF IInv, TypeOK
  <2> QED BY <1>1, <1>3, <2>1, Appended
<1>6. op.name # "none" /\ op.result = "none" /\ work[a].then \in {"claim", "ensure", "batch"}
      /\ (a = Main \/ work[a].then = "claim")
  BY <1>1, Engaged, Constants DEF IInv, Roles, PathThread, Single
<1>7. w \in WorkType /\ w.pc = work[a].then /\ w.step = work[a].step /\ w.reply = work[a].reply
      /\ w.then = "idle"
  BY <1>6, WorkOf, Constants DEF IInv, WorkType
<1> HIDE DEF w
<1>8. /\ work' \in [Actors -> WorkType] /\ work'[a] = w
      /\ \A b \in Actors : b # a => work'[b] = work[b]
  BY <1>1, <1>7, MovesType DEF IInv
<1>9. TypeOK'
  <2>1. \A b \in Actors : work'[b].pc \in {"flight", "granted"} => work'[b].token \in DOMAIN issued'
    BY <1>1, <1>6, <1>7, <1>8 DEF IInv, TypeOK
  <2>2. \A i \in DOMAIN pool' : pool'[i].id \in DOMAIN issued' BY <1>1, <1>2, <1>4, <1>5 DEF IInv, TypeOK
  <2>3. holder' # Nobody => work'[holder'].pc \in {"login", "granted", "claim"}
    <3>1. holder = a => work[a].then = "claim" BY <1>1, <1>6 DEF IInv, Roles
    <3> QED BY <3>1, <1>1, <1>7, <1>8 DEF IInv, TypeOK
  <2> QED BY <1>1, <1>5, <1>8, <2>1, <2>2, <2>3 DEF IInv, TypeOK
<1>10. Roles'
  <2>1. ~Resting' BY <1>1, <1>6 DEF Resting
  <2>2. CASE Single
    <3>1. a = Main BY <1>1, <2>2, Engaged DEF Single
    <3> QED BY <1>1, <1>6, <1>7, <1>8, <2>1, <2>2, <3>1, Constants DEF IInv, Roles, Single
  <2>3. CASE op.name = "get_many"
    <3>1. pool = <<>> /\ Len(pool') = 1
      <4>1. pool = <<>> BY <1>1, <1>6, <2>3, Constants DEF IInv, Roles, PathThread
      <4> QED BY <4>1, <1>5
    <3>2. work'[Main].pc = "batch"
      <4>1. CASE a = Main
        <5>1. work[Main].then = "batch" BY <4>1, <1>1, <1>6, <2>3 DEF IInv, Roles
        <5> QED BY <4>1, <5>1, <1>7, <1>8
      <4>2. CASE a # Main
        <5>1. work[Main].pc \in {"login", "granted"} => work[a] = Idle
          BY <4>2, <1>6, <2>3, Constants DEF IInv, Roles
        <5>2. work[Main].pc = "batch" BY <5>1, <1>1, <1>6, <2>3 DEF IInv, Roles, Idle
        <5> QED BY <5>2, <4>2, <1>8, Constants
      <4> QED BY <4>1, <4>2
    <3>3. ASSUME NEW p \in Paths PROVE PathThread(p)'
      <4>1. PathThread(p) /\ p \in Actors BY <1>6, <2>3, Constants DEF IInv, Roles
      <4>2. CASE p = a BY <4>1, <4>2, <1>6, <1>7, <1>8, Constants DEF PathThread
      <4>3. CASE p # a
        <5>1. work[p].pc \notin {"login", "granted"}
          BY <4>1, <4>3, <1>1, <1>6, <2>3, Constants DEF IInv, Roles, PathThread
        <5> QED BY <4>1, <4>3, <5>1, <1>8 DEF PathThread
      <4> QED BY <4>2, <4>3
    <3> QED BY <1>1, <1>6, <2>1, <2>3, <3>1, <3>2, <3>3 DEF IInv, Roles, Single
  <2> QED BY <2>2, <2>3, <1>1, Engaged
<1>11. Budget'
  <2>1. \A i \in DOMAIN issued : InFlight(i)' = InFlight(i)
    BY <1>1, <1>6, <1>7, <1>8 DEF InFlight
  <2>2. InFlight(id) = {} /\ issued[id].uses = Fresh(g) /\ \A j \in DOMAIN pool : pool[j].id # id
    BY <1>1 DEF IInv, Budget, InFlight
  <2>3. Cardinality(InFlight(id)) = 0 BY <2>2, FS_EmptySet
  <2>4. \A i, j \in DOMAIN pool' : pool'[i].id = pool'[j].id => i = j
    BY <1>4, <1>5, <2>2 DEF IInv, Budget
  <2>5. ASSUME NEW i \in DOMAIN issued', issued'[i].uses # Unlimited, NEW j \in DOMAIN pool', pool'[j].id = i
        PROVE  pool'[j].uses # Unlimited /\ pool'[j].uses + Cardinality(InFlight(i)') <= issued'[i].uses
    <3>1. CASE j \in DOMAIN pool BY <3>1, <2>5, <1>1, <1>5, <2>1 DEF IInv, Budget
    <3>2. CASE j = Len(pool) + 1
      <4>1. i = id /\ pool'[j].uses = Uses(g) BY <3>2, <2>5, <1>4, <1>5
      <4>2. Cardinality(InFlight(i)') = 0 /\ issued'[i].uses = Fresh(g)
        BY <4>1, <1>1, <1>2, <2>1, <2>2, <2>3
      <4> QED BY <4>1, <4>2, <2>5, <1>2, GrantType, Constants
    <3> QED BY <3>1, <3>2, <1>5
  <2>6. ASSUME NEW b \in Actors, work'[b].pc = "granted"
        PROVE  /\ \A j \in DOMAIN pool' : pool'[j].id # work'[b].token
               /\ \A c \in Actors \ {b} :
                    work'[c].pc \in {"flight", "granted"} => work'[c].token # work'[b].token
               /\ issued'[work'[b].token].uses = Fresh(mount'.grant)
    <3>1. b # a /\ work'[b] = work[b] BY <2>6, <1>6, <1>7, <1>8
    <3>2. \A c \in Actors \ {b} : work'[c].pc \in {"flight", "granted"} => work'[c] = work[c]
      BY <1>6, <1>7, <1>8
    <3>3. work[b].token # id BY <3>1, <2>6, <1>1 DEF IInv, Budget
    <3> QED BY <3>1, <3>2, <3>3, <2>6, <1>1, <1>4, <1>5 DEF IInv, Budget
  <2> QED BY <1>1, <2>1, <2>4, <2>5, <2>6 DEF IInv, Budget
<1>12. Leases'
  <2>1. \A b \in Actors : work'[b].pc \in {"login", "granted"} => work'[b] = work[b]
    BY <1>6, <1>7, <1>8
  <2>2. g.saysLease => t.until <= issued[id].expires
    <3>1. issued[id].expires \in Nat /\ t.until \in Nat /\ Never \in Nat
      <4>1. issued \in Seq([uses : Int, expires : Nat]) /\ id \in DOMAIN issued
        BY <1>2 DEF IInv, TypeOK
      <4>2. issued[id] \in [uses : Int, expires : Nat] BY <4>1, Element
      <4> QED BY <4>2, <1>3, Constants DEF Token
    <3>2. g.saysLease => t.until <= IF g.lease = 0 THEN Never ELSE work[a].started + g.lease
      BY <1>2, <1>4, DeadlineType
    <3>3. IF g.lease = 0 THEN issued[id].expires = Never ELSE work[a].started + g.lease <= issued[id].expires
      BY <1>1 DEF IInv, Leases
    <3>4. g.lease \in Nat BY <1>2, GrantType
    <3> QED BY <3>1, <3>2, <3>3, <3>4, <1>2
  <2>3. g.saysLease => \A j \in DOMAIN pool' : pool'[j].until <= issued[pool'[j].id].expires
    BY <2>2, <1>4, <1>5 DEF IInv, Leases
  <2> QED BY <1>1, <2>1, <2>3 DEF IInv, Leases
<1>13. Admitted'
  <2> SUFFICES ASSUME op.name = "set_expiring", ~op.disturbed, ~op.touched PROVE Admitted'
    BY <1>1 DEF Admitted
  <2>1. a = Main BY <1>1, Engaged
  <2>2. work[a].step = "policy" /\ work[a].then = "ensure" /\ Target = op.before
    BY <1>1, <1>6, <2>1 DEF IInv, Admitted
  <2> QED BY <1>1, <1>6, <1>7, <1>8, <2>1, <2>2 DEF Admitted, Target
<1>14. Stored' /\ Expires' /\ Destroys' /\ Asked' /\ Replies'
  BY <1>1, <1>6, <1>7, Onward
<1> QED BY <1>9, <1>10, <1>11, <1>12, <1>13, <1>14 DEF IInv


(* Threads that neither claim nor log in leave the tokens' accounts alone.  *)
LEMMA Quiet ==
    ASSUME IInv, UNCHANGED <<mount, issued, pool>>, now' \in Instants, now <= now',
           work' \in [Actors -> WorkType],
           \A b \in Actors : work'[b].pc \in {"login", "granted", "flight"} =>
               /\ work'[b].pc = work[b].pc /\ work'[b].token = work[b].token
               /\ work'[b].started = work[b].started
    PROVE  /\ Budget' /\ Leases'
           /\ \A b \in Actors : work'[b].pc \in {"flight", "granted"} => work'[b].token \in DOMAIN issued'
<1>1. ASSUME NEW i \in DOMAIN issued
      PROVE  /\ Cardinality(InFlight(i)') \in Nat
             /\ Cardinality(InFlight(i)) \in Nat /\ Cardinality(InFlight(i)') <= Cardinality(InFlight(i))
  <2>1. InFlight(i)' \subseteq InFlight(i) BY DEF InFlight
  <2>2. IsFiniteSet(InFlight(i))
    <3>1. InFlight(i) \subseteq Actors BY DEF InFlight
    <3> QED BY <3>1, Constants, FS_Subset
  <2>3. IsFiniteSet(InFlight(i)') BY <2>1, <2>2, FS_Subset
  <2> QED BY <2>1, <2>2, <2>3, FS_Subset, FS_CardinalityType
<1>2. Budget'
  <2>1. ASSUME NEW i \in DOMAIN issued, issued[i].uses # Unlimited
        PROVE  /\ Cardinality(InFlight(i)') <= issued[i].uses
               /\ \A j \in DOMAIN pool : pool[j].id = i =>
                    /\ pool[j].uses # Unlimited
                    /\ pool[j].uses + Cardinality(InFlight(i)') <= issued[i].uses
    <3>1. issued[i].uses \in Int
      <4>1. issued \in Seq([uses : Int, expires : Nat]) BY DEF IInv, TypeOK
      <4>2. issued[i] \in [uses : Int, expires : Nat] BY <4>1, Element
      <4> QED BY <4>2
    <3>2. ASSUME NEW j \in DOMAIN pool PROVE pool[j].uses \in Nat
      <4>1. pool \in Seq(Token) BY DEF IInv, TypeOK
      <4>2. pool[j] \in Token BY <4>1, Element
      <4> QED BY <4>2 DEF Token
    <3>3. /\ Cardinality(InFlight(i)) <= issued[i].uses
          /\ \A j \in DOMAIN pool : pool[j].id = i =>
               /\ pool[j].uses # Unlimited
               /\ pool[j].uses + Cardinality(InFlight(i)) <= issued[i].uses
      BY <2>1 DEF IInv, Budget
    <3>4. ASSUME NEW j \in DOMAIN pool, pool[j].id = i
          PROVE  pool[j].uses + Cardinality(InFlight(i)') <= issued[i].uses
      BY <1>1, <3>1, <3>2, <3>3, <3>4
    <3> QED BY <1>1, <3>1, <3>3, <3>4
  <2>2. ASSUME NEW b \in Actors, work'[b].pc = "granted"
        PROVE  /\ \A j \in DOMAIN pool : pool[j].id # work'[b].token
               /\ \A c \in Actors \ {b} :
                    work'[c].pc \in {"flight", "granted"} => work'[c].token # work'[b].token
               /\ issued[work'[b].token].uses = Fresh(mount.grant)
    <3>1. work[b].pc = "granted" /\ work'[b].token = work[b].token BY <2>2
    <3>2. \A c \in Actors : work'[c].pc \in {"flight", "granted"} =>
            work[c].pc \in {"flight", "granted"} /\ work'[c].token = work[c].token
      OBVIOUS
    <3> QED BY <3>1, <3>2 DEF IInv, Budget
  <2> QED BY <2>1, <2>2 DEF IInv, Budget
<1>3. Leases'
  <2>1. now \in Nat /\ now' \in Nat BY Constants DEF IInv, TypeOK
  <2>2. ASSUME NEW b \in Actors, work'[b].pc \in {"login", "granted"} PROVE work'[b].started <= now'
    <3>1. work[b].started \in Nat /\ work[b].started <= now /\ work'[b].started = work[b].started
      BY <2>2, WorkOf, Constants DEF IInv, Leases
    <3> QED BY <2>1, <3>1
  <2> QED BY <2>2 DEF IInv, Leases
<1>4. \A b \in Actors : work'[b].pc \in {"flight", "granted"} => work'[b].token \in DOMAIN issued'
  BY DEF IInv, TypeOK
<1> QED BY <1>2, <1>3, <1>4

(* Main gives the operation its result; no thread is left with work to do.  *)
LEMMA MainEnds ==
    ASSUME IInv, NEW how \in {"no_login", "failed", "yes", "no"}, Ends(how),
           work[Main].pc \notin {"idle", "batch", "done"},
           holder' = IF holder = Main THEN Nobody ELSE holder,
           UNCHANGED <<now, mount, store, issued, pool>>,
           op.name = "get_many" => how # "yes",
           op.name = "set_expiring" /\ ~op.touched =>
               /\ how = "yes" => Target.held /\ Target.dies # Never
               /\ how = "no_login" /\ ~op.disturbed => Target = op.before,
           op.name = "delete" /\ ~op.touched /\ how \in {"yes", "no"} => Target = Bare
    PROVE  IInv'
<1> USE DEF IInv
<1>1. Main \in Actors /\ Paths \subseteq Actors /\ \A b \in Actors : b # Main => b \in Paths
  BY Constants
<1>2. op.name # "none" /\ op.result = "none" /\ (Single \/ op.name = "get_many")
  BY <1>1, Engaged
<1>3. op' = [op EXCEPT !.result = how] /\ Moves(Main, Idle) BY DEF Ends, Moves
<1>4. /\ work' \in [Actors -> WorkType] /\ work'[Main] = Idle
      /\ \A b \in Actors : b # Main => work'[b] = work[b]
  BY <1>1, <1>3, Records, MovesType
<1>5. op' \in OpType /\ op'.result = how
      /\ op'.name = op.name /\ op'.path = op.path /\ op'.names = op.names /\ op'.todo = op.todo
      /\ op'.got = op.got /\ op'.answer = op.answer /\ op'.before = op.before
      /\ op'.bare = op.bare /\ op'.disturbed = op.disturbed /\ op'.touched = op.touched
  BY <1>3 DEF TypeOK, OpType
<1>6. \A p \in Paths : work[p] = Idle
  <2>1. CASE Single BY <2>1 DEF Roles
  <2>2. CASE op.name = "get_many" BY <1>2, <2>2 DEF Roles
  <2> QED BY <1>2, <2>1, <2>2
<1>7. \A b \in Actors : work'[b] = Idle BY <1>1, <1>4, <1>6
<1>8. holder' = Nobody
  <2>1. holder \in Paths => FALSE BY <1>1, <1>6, Constants DEF TypeOK, Idle
  <2> QED BY <1>1, <2>1 DEF TypeOK
<1>9. now \in Nat /\ now \in Instants BY Constants DEF TypeOK
<1>10. Budget' /\ Leases'
       /\ \A b \in Actors : work'[b].pc \in {"flight", "granted"} => work'[b].token \in DOMAIN issued'
  BY <1>4, <1>7, <1>9, Quiet DEF Idle
<1>11. TypeOK' BY <1>4, <1>5, <1>8, <1>10, Constants DEF TypeOK
<1>12. Roles' BY <1>1, <1>2, <1>5, <1>7, <1>8 DEF Roles, Resting, Single, Idle
<1>13. Replies' /\ Stored' BY <1>5, <1>7 DEF Replies, Stored, Idle
<1>14. Target' = Target BY <1>5 DEF Target
<1>15. Expires' /\ Admitted' /\ Destroys'
  <2>1. Expires' BY <1>5, <1>14 DEF Expires
  <2>2. Admitted' BY <1>5, <1>14 DEF Admitted
  <2>3. Destroys' BY <1>5, <1>14 DEF Destroys
  <2> QED BY <2>1, <2>2, <2>3
<1>16. Asked' BY <1>1, <1>5, <1>7 DEF Asked, Idle
<1> HIDE DEF IInv
<1> QED BY <1>10, <1>11, <1>12, <1>13, <1>15, <1>16 DEF IInv

(* A thread of a batch is done with its path.                               *)
LEMMA PathAnswers ==
    ASSUME IInv, NEW a \in Actors, a # Main, NEW how \in {"yes", "no", "failed"},
           work[a].pc # "idle",
           op' = [op EXCEPT !.got[a] = how], Moves(a, [Idle EXCEPT !.pc = "done"]),
           holder' = IF holder = a THEN Nobody ELSE holder,
           UNCHANGED <<now, mount, store, issued, pool>>,
           how = "no" => a \in op.bare
    PROVE  IInv'
<1> DEFINE w == [Idle EXCEPT !.pc = "done"]
<1>1. Main \in Actors /\ Paths \subseteq Actors /\ a \in Paths BY Constants
<1>2. op.name = "get_many" /\ op.result = "none" /\ PathThread(a) BY Engaged
<1>3. w \in WorkType /\ w.pc = "done" /\ w.step = "read" /\ w.reply = "none"
  BY Records DEF WorkType, Idle
<1> HIDE DEF w
<1>4. /\ work' \in [Actors -> WorkType] /\ work'[a] = w
      /\ \A b \in Actors : b # a => work'[b] = work[b]
  BY <1>3, MovesType DEF w, IInv
<1>5. op' \in OpType /\ op'.got[a] = how /\ (\A p \in Paths : p # a => op'.got[p] = op.got[p])
      /\ op'.name = op.name /\ op'.path = op.path /\ op'.names = op.names /\ op'.todo = op.todo
      /\ op'.result = op.result /\ op'.bare = op.bare
  BY <1>1 DEF IInv, TypeOK, OpType
<1>6. now \in Nat /\ now \in Instants BY Constants DEF IInv, TypeOK
<1>7. Budget' /\ Leases'
      /\ \A b \in Actors : work'[b].pc \in {"flight", "granted"} => work'[b].token \in DOMAIN issued'
  BY <1>3, <1>4, <1>6, Quiet
<1>8. TypeOK'
  <2>1. holder' \in Actors \cup {Nobody} BY DEF IInv, TypeOK
  <2>2. holder' # Nobody => holder' # a /\ holder' \in Actors /\ holder' = holder
    BY <2>1 DEF IInv, TypeOK
  <2> QED BY <1>4, <1>5, <1>7, <2>1, <2>2 DEF IInv, TypeOK
<1>9. Roles'
  <2>1. work[Main].pc = "batch" /\ work'[Main] = work[Main]
    BY <1>1, <1>2, <1>4 DEF IInv, Roles, Idle
  <2>2. ASSUME NEW p \in Paths PROVE PathThread(p)'
    <3>1. PathThread(p) BY <1>2 DEF IInv, Roles
    <3>2. CASE p = a BY <3>2, <1>3, <1>4 DEF PathThread
    <3>3. CASE p # a BY <3>1, <3>3, <1>1, <1>4 DEF PathThread
    <3> QED BY <3>2, <3>3
  <2>3. holder' # Main BY <1>1, <1>2, Constants DEF IInv, Roles, Single
  <2> QED BY <1>2, <1>5, <2>1, <2>2, <2>3 DEF IInv, Roles, Resting, Single
<1>10. Replies' BY <1>3, <1>4 DEF IInv, Replies
<1>11. Stored' /\ Expires' /\ Admitted' /\ Destroys'
  BY <1>2, <1>5 DEF IInv, Stored, Expires, Admitted, Destroys
<1>12. Asked'
  <2>1. \A p \in Paths : op'.got[p] = "no" \/ work'[p].reply = "no" => p \in op.bare
    BY <1>1, <1>2, <1>3, <1>4, <1>5 DEF IInv, Asked
  <2>2. ASSUME NEW n \in op.names
        PROVE  LET p == PathOf[n]
               IN p \in op.todo \/ op'.got[p] # "unread" \/ work'[p].pc \notin {"idle", "done"}
    <3>1. PathOf[n] \in Paths BY OpOf, KvSessionAssumption DEF IInv
    <3>2. CASE PathOf[n] = a BY <3>2, <1>5
    <3>3. CASE PathOf[n] # a BY <3>1, <3>3, <1>1, <1>2, <1>4, <1>5 DEF IInv, Asked
    <3> QED BY <3>2, <3>3
  <2> QED BY <1>2, <1>5, <2>1, <2>2 DEF Asked
<1> QED BY <1>7, <1>8, <1>9, <1>10, <1>11, <1>12 DEF IInv

LEMMA LoginFailsInv == ASSUME IInv, NEW a \in Actors, LoginFails(a) PROVE IInv'
<1>1. work[a].pc \in {"login", "granted"} /\ Fails(a, "no_login") BY DEF LoginFails, At
<1>2. CASE a = Main
  <2>1. ASSUME op.name = "set_expiring", ~op.touched, ~op.disturbed PROVE Target = op.before
    BY <1>1, <1>2, <2>1, Engaged DEF IInv, Admitted
  <2> QED BY <1>1, <1>2, <2>1, MainEnds DEF Fails
<1>3. CASE a # Main BY <1>1, <1>3, PathAnswers DEF Fails
<1> QED BY <1>2, <1>3

LEMMA RequestFailsInv == ASSUME IInv, NEW a \in Actors, RequestFails(a) PROVE IInv'
<1>1. work[a].pc \in {"flight", "reply"} /\ Fails(a, "failed") BY DEF RequestFails, At
<1>2. CASE a = Main BY <1>1, <1>2, MainEnds DEF Fails
<1>3. CASE a # Main BY <1>1, <1>3, PathAnswers DEF Fails
<1> QED BY <1>2, <1>3

LEMMA EnsureFailsInv == ASSUME IInv, EnsureFails PROVE IInv'
<1>1. work[Main].pc = "ensure" /\ Fails(Main, "failed") BY DEF EnsureFails, At
<1> QED BY <1>1, MainEnds DEF Fails

(* A claim on a token the server still allows more of.  The pool keeps its  *)
(* order from the token claimed.                                            *)
Rest(r, s, i) ==
    /\ r \in Seq(Token) /\ Len(r) = Len(s) - i + 1 /\ 1 \in DOMAIN r
    /\ i \in Nat /\ i >= 1 /\ i <= Len(s) /\ Len(s) \in Nat
    /\ \A j \in DOMAIN r : j \in Nat /\ j >= 1 /\ i + j - 1 \in DOMAIN s
    /\ \A j \in DOMAIN r : r[j].id = s[i + j - 1].id /\ r[j].until = s[i + j - 1].until
    /\ \A j \in DOMAIN r : j # 1 => r[j] = s[i + j - 1]
    /\ r[1].uses = IF s[i].uses = Unlimited THEN Unlimited ELSE s[i].uses - 1
    /\ \A k \in DOMAIN s : k >= i => k - i + 1 \in DOMAIN r

LEMMA Taken ==
    ASSUME NEW s \in Seq(Token), NEW i \in DOMAIN s, s[i].uses > 0
    PROVE  Rest(From(s, i), s, i)
<1> DEFINE r == From(s, i)
<1>1. s[i] \in Token BY Element
<1> DEFINE c == Claimed(s[i])
<1>2. c \in Token /\ c.id = s[i].id /\ c.until = s[i].until
      /\ c.uses = IF s[i].uses = Unlimited THEN Unlimited ELSE s[i].uses - 1
  <2>1. ASSUME NEW t \in Token, t.uses > 0
        PROVE  /\ Claimed(t) \in Token /\ Claimed(t).id = t.id /\ Claimed(t).until = t.until
               /\ Claimed(t).uses = IF t.uses = Unlimited THEN Unlimited ELSE t.uses - 1
    <3>1. t.uses \in Nat /\ t.uses - 1 \in Nat BY <2>1 DEF Token
    <3> QED BY <2>1, <3>1 DEF Claimed, Token
  <2> QED BY <1>1, <2>1
<1>3. r = <<c>> \o SubSeq(s, i + 1, Len(s)) BY DEF From
<1> HIDE DEF c, r
<1> DEFINE q == SubSeq(s, i + 1, Len(s))
<1>4. /\ q \in Seq(Token) /\ Len(q) = Len(s) - i /\ Len(q) \in Nat
      /\ \A j \in 1 .. Len(q) : q[j] = s[i + j]
  OBVIOUS
<1>5. <<c>> \in Seq(Token) /\ Len(<<c>>) = 1 /\ <<c>>[1] = c BY <1>2
<1>6. r = <<c>> \o q BY <1>3
<1> HIDE DEF q
<1>7. /\ r \in Seq(Token) /\ Len(r) = 1 + Len(q) /\ r[1] = c
      /\ \A j \in 2 .. Len(r) : r[j] = q[j - 1]
  BY <1>4, <1>5, <1>6
<1>8. \A j \in 2 .. Len(r) : r[j] = s[i + j - 1]
  <2> SUFFICES ASSUME NEW j \in 2 .. Len(r) PROVE r[j] = s[i + j - 1] OBVIOUS
  <2>1. j - 1 \in 1 .. Len(q) BY <1>4, <1>7
  <2>2. q[j - 1] = s[i + (j - 1)] BY <1>4, <2>1
  <2>3. i \in Nat /\ j \in Nat /\ i + (j - 1) = i + j - 1 OBVIOUS
  <2> QED BY <1>7, <2>2, <2>3
<1>9. i \in Nat /\ i >= 1 /\ i <= Len(s) /\ Len(s) \in Nat /\ DOMAIN r = 1 .. Len(r) /\ DOMAIN s = 1 .. Len(s)
  BY <1>7
<1>10. \A j \in DOMAIN r : j \in Nat /\ j >= 1 /\ i + j - 1 \in DOMAIN s
  BY <1>4, <1>7, <1>9
<1>11. \A k \in DOMAIN s : k >= i => k - i + 1 \in DOMAIN r BY <1>4, <1>7, <1>9
<1>12. \A j \in DOMAIN r : r[j].id = s[i + j - 1].id /\ r[j].until = s[i + j - 1].until
  <2> SUFFICES ASSUME NEW j \in DOMAIN r
               PROVE  r[j].id = s[i + j - 1].id /\ r[j].until = s[i + j - 1].until
    OBVIOUS
  <2>1. CASE j = 1
    <3>1. i + j - 1 = i BY <2>1, <1>9
    <3> QED BY <2>1, <3>1, <1>2, <1>7
  <2>2. CASE j # 1
    <3>1. j \in 2 .. Len(r) BY <2>2, <1>7, <1>9
    <3> QED BY <3>1, <1>8
  <2> QED BY <2>1, <2>2
<1>13. \A j \in DOMAIN r : j # 1 => r[j] = s[i + j - 1] BY <1>7, <1>8, <1>9
<1>14. 1 \in DOMAIN r BY <1>4, <1>7, <1>9
<1>15. Len(r) = Len(s) - i + 1 BY <1>4, <1>7, <1>9
<1>16. r[1].uses = IF s[i].uses = Unlimited THEN Unlimited ELSE s[i].uses - 1 BY <1>2, <1>7
<1>17. Rest(r, s, i) BY <1>7, <1>9, <1>10, <1>11, <1>12, <1>13, <1>14, <1>15, <1>16 DEF Rest
<1> QED BY <1>17 DEF r

LEMMA UsablesType ==
    ASSUME NEW s \in Seq(Token), NEW i \in Usables(s)
    PROVE  i \in DOMAIN s /\ s[i] \in Token /\ s[i].uses \in Nat /\ s[i].uses > 0
           /\ s[i].until \in Nat /\ now < s[i].until
<1>1. i \in DOMAIN s /\ s[i].uses > 0 /\ now < s[i].until BY DEF Usables, Usable
<1>2. s[i] \in Token BY <1>1, Element
<1> QED BY <1>1, <1>2 DEF Token

(* A thread takes the first token it can use: those behind it stay.         *)
LEMMA ClaimTakesInv ==
    ASSUME IInv, NEW a \in Actors, work[a].pc = "claim", holder \in {a, Nobody},
           NEW i \in DOMAIN pool, Foremost(i), Takes(a, i), holder' = Nobody,
           UNCHANGED <<now, mount, store, issued, op>>
    PROVE  IInv'
<1>0. PICK id : id = pool[i].id OBVIOUS
<1> DEFINE w == [work[a] EXCEPT !.pc = "flight", !.token = id]
<1>1. pool \in Seq(Token) /\ i \in Usables(pool) /\ \A j \in Usables(pool) : i <= j
  BY DEF IInv, TypeOK, Foremost
<1>2. id \in DOMAIN issued /\ id \in Nat
  <2>1. pool[i] \in Token BY <1>1, Element
  <2> QED BY <1>0, <2>1 DEF IInv, TypeOK, Token
<1>3. w \in WorkType /\ w.pc = "flight" /\ w.token = id /\ w.step = work[a].step
      /\ w.reply = work[a].reply
  BY <1>2, WorkOf DEF IInv, WorkType
<1>4. Moves(a, w) /\ pool' = From(pool, i)
  BY <1>0 DEF Takes
<1> HIDE DEF w
<1>5. /\ work' \in [Actors -> WorkType] /\ work'[a] = w
      /\ \A b \in Actors : b # a => work'[b] = work[b]
  BY <1>3, <1>4, MovesType DEF IInv
<1>6. pool[i].uses \in Nat /\ pool[i].uses > 0 /\ now < pool[i].until /\ pool[i].until \in Nat
  BY <1>1, UsablesType
<1>7. /\ pool' \in Seq(Token) /\ Len(pool') = Len(pool) - i + 1 /\ 1 \in DOMAIN pool'
      /\ i \in Nat /\ i >= 1 /\ i <= Len(pool) /\ Len(pool) \in Nat
      /\ \A j \in DOMAIN pool' : j \in Nat /\ j >= 1 /\ i + j - 1 \in DOMAIN pool
      /\ \A j \in DOMAIN pool' : pool'[j].id = pool[i + j - 1].id /\ pool'[j].until = pool[i + j - 1].until
      /\ \A j \in DOMAIN pool' : j # 1 => pool'[j] = pool[i + j - 1]
      /\ pool'[1].uses = IF pool[i].uses = Unlimited THEN Unlimited ELSE pool[i].uses - 1
      /\ \A k \in DOMAIN pool : k >= i => k - i + 1 \in DOMAIN pool'
  <2>1. Rest(From(pool, i), pool, i) BY <1>1, <1>6, Taken
  <2> QED BY <1>4, <2>1 DEF Rest
<1>8. pool'[1].id = id /\ pool'[1].until = pool[i].until
  <2>1. i + 1 - 1 = i BY <1>7
  <2> QED BY <1>0, <1>7, <2>1
<1>9. \A j \in DOMAIN pool' : pool'[j].id \in DOMAIN issued BY <1>7 DEF IInv, TypeOK
<1>10. op.name # "none" /\ op.result = "none" /\ (Single \/ op.name = "get_many")
       /\ (a # Main => op.name = "get_many" /\ PathThread(a))
  BY Engaged
<1>11. TypeOK'
  <2>1. \A b \in Actors : work'[b].pc \in {"flight", "granted"} => work'[b].token \in DOMAIN issued'
    BY <1>2, <1>3, <1>5 DEF IInv, TypeOK
  <2> QED BY <1>5, <1>7, <1>9, <2>1 DEF IInv, TypeOK
<1>12. Roles'
  <2>1. ~Resting' BY <1>10 DEF Resting
  <2>2. CASE Single
    <3>1. a = Main BY <2>2, <1>10 DEF Single
    <3> QED BY <1>3, <1>5, <1>10, <2>1, <2>2, <3>1, Constants DEF IInv, Roles, Single
  <2>3. CASE op.name = "get_many"
    <3>1. Len(pool') <= 1 BY <1>7, <2>3 DEF IInv, Roles
    <3>2. work[Main].pc \in {"login", "granted"} => work[a] = Idle \/ a = Main
      BY <1>10, <2>3, Constants DEF IInv, Roles
    <3>3. work[Main].pc = "batch" /\ a # Main BY <1>10, <2>3, <3>2 DEF IInv, Roles, Idle
    <3>4. work'[Main] = work[Main] BY <1>5, <3>3, Constants
    <3>5. ASSUME NEW p \in Paths PROVE PathThread(p)'
      <4>1. PathThread(p) /\ p \in Actors BY <1>10, <2>3, Constants DEF IInv, Roles
      <4>2. CASE p = a BY <4>1, <4>2, <1>3, <1>5 DEF PathThread
      <4>3. CASE p # a
        <5>1. work[p].pc \notin {"login", "granted"} BY <4>1, <4>3, Constants DEF PathThread
        <5> QED BY <4>1, <4>3, <5>1, <1>5 DEF PathThread
      <4> QED BY <4>2, <4>3
    <3> QED BY <1>10, <2>1, <2>3, <3>1, <3>3, <3>4, <3>5, Constants DEF IInv, Roles, Single
  <2> QED BY <1>10, <2>2, <2>3
<1>13. Budget'
  <2>1. \A k \in DOMAIN issued : k # id => InFlight(k)' = InFlight(k)
    BY <1>3, <1>5 DEF InFlight
  <2>2. InFlight(id)' = InFlight(id) \cup {a} /\ a \notin InFlight(id)
    BY <1>3, <1>5 DEF InFlight
  <2>3. IsFiniteSet(InFlight(id))
    <3>1. InFlight(id) \subseteq Actors BY DEF InFlight
    <3> QED BY <3>1, Constants, FS_Subset
  <2>4. Cardinality(InFlight(id)') = Cardinality(InFlight(id)) + 1 /\ Cardinality(InFlight(id)) \in Nat
    BY <2>2, <2>3, FS_AddElement, FS_CardinalityType
  <2>5. \A j, k \in DOMAIN pool' : pool'[j].id = pool'[k].id => j = k
    <3> SUFFICES ASSUME NEW j \in DOMAIN pool', NEW k \in DOMAIN pool', pool'[j].id = pool'[k].id
                 PROVE  j = k
      OBVIOUS
    <3>1. pool[i + j - 1].id = pool[i + k - 1].id BY <1>7
    <3>2. i + j - 1 = i + k - 1 BY <1>7, <3>1 DEF IInv, Budget
    <3> QED BY <1>7, <3>2
  <2>6. ASSUME NEW k \in DOMAIN issued, issued[k].uses # Unlimited
        PROVE  /\ Cardinality(InFlight(k)') <= issued[k].uses
               /\ \A j \in DOMAIN pool' : pool'[j].id = k =>
                    /\ pool'[j].uses # Unlimited
                    /\ pool'[j].uses + Cardinality(InFlight(k)') <= issued[k].uses
    <3>1. /\ Cardinality(InFlight(k)) <= issued[k].uses
          /\ \A j \in DOMAIN pool : pool[j].id = k =>
               /\ pool[j].uses # Unlimited
               /\ pool[j].uses + Cardinality(InFlight(k)) <= issued[k].uses
      BY <2>6 DEF IInv, Budget
    <3>2. issued[k].uses \in Int /\ issued[k].uses <= Unlimited
      <4>1. issued \in Seq([uses : Int, expires : Nat]) BY DEF IInv, TypeOK
      <4>2. issued[k] \in [uses : Int, expires : Nat] BY <4>1, Element
      <4> QED BY <4>2 DEF IInv, Budget
    <3>3. CASE k # id
      <4>1. ASSUME NEW j \in DOMAIN pool', pool'[j].id = k
            PROVE  pool'[j].uses # Unlimited /\ pool'[j].uses + Cardinality(InFlight(k)') <= issued[k].uses
        <5>1. pool'[j] = pool[i + j - 1] /\ i + j - 1 \in DOMAIN pool BY <4>1, <3>3, <1>7, <1>8
        <5> QED BY <5>1, <4>1, <3>1, <3>3, <2>1
      <4> QED BY <4>1, <3>1, <3>3, <2>1
    <3>4. CASE k = id
      <4>1. pool[i].uses # Unlimited /\ pool[i].uses + Cardinality(InFlight(id)) <= issued[id].uses
        BY <1>0, <3>1, <3>4
      <4>2. pool'[1].uses = pool[i].uses - 1 BY <4>1, <1>7
      <4>3. \A j \in DOMAIN pool' : pool'[j].id = id => j = 1 BY <2>5, <1>7, <1>8
      <4>4. pool[i].uses <= Unlimited /\ Unlimited \in Nat
        BY <4>1, <2>4, <3>2, <3>4, <1>6, Constants
      <4>5. pool'[1].uses # Unlimited
            /\ pool'[1].uses + Cardinality(InFlight(id)') <= issued[id].uses
            /\ Cardinality(InFlight(id)') <= issued[id].uses
        BY <4>1, <4>2, <4>4, <2>4, <3>2, <3>4, <1>6
      <4> QED BY <3>4, <4>3, <4>5
    <3> QED BY <3>3, <3>4
  <2>7. ASSUME NEW b \in Actors, work'[b].pc = "granted"
        PROVE  /\ \A j \in DOMAIN pool' : pool'[j].id # work'[b].token
               /\ \A c \in Actors \ {b} :
                    work'[c].pc \in {"flight", "granted"} => work'[c].token # work'[b].token
               /\ issued'[work'[b].token].uses = Fresh(mount'.grant)
    <3>1. b # a /\ work'[b] = work[b] BY <2>7, <1>3, <1>5
    <3>2. \A j \in DOMAIN pool : pool[j].id # work[b].token BY <2>7, <3>1 DEF IInv, Budget
    <3>3. \A c \in Actors \ {a, b} : work'[c] = work[c] BY <1>5
    <3>4. \A c \in Actors \ {b} :
            work'[c].pc \in {"flight", "granted"} => work'[c].token # work[b].token
      BY <2>7, <3>1, <3>2, <3>3, <1>0, <1>3, <1>5 DEF IInv, Budget
    <3>5. issued[work[b].token].uses = Fresh(mount.grant) BY <2>7, <3>1 DEF IInv, Budget
    <3> QED BY <3>1, <3>2, <3>4, <3>5, <1>7
  <2> QED BY <2>5, <2>6, <2>7 DEF IInv, Budget
<1>14. Leases'
  <2>1. \A b \in Actors : work'[b].pc \in {"login", "granted"} => work'[b] = work[b]
    BY <1>3, <1>5
  <2>2. mount.grant.saysLease => \A j \in DOMAIN pool' : pool'[j].until <= issued[pool'[j].id].expires
    BY <1>7 DEF IInv, Leases
  <2> QED BY <2>1, <2>2 DEF IInv, Leases
<1>15. Admitted'
  <2> SUFFICES ASSUME op.name = "set_expiring", ~op.disturbed, ~op.touched PROVE Admitted'
    BY DEF Admitted
  <2>1. a = Main BY <1>10
  <2>2. work[Main].step = "policy" => Twice /\ Target = op.before BY <1>10, <2>1 DEF IInv, Admitted
  <2>3. work[Main].step = "policy" => Once'
    <3> SUFFICES ASSUME work[Main].step = "policy" PROVE Once' OBVIOUS
    <3>1. ASSUME NEW k \in Usables(pool), k # i PROVE Once'
      <4>1. k \in DOMAIN pool /\ i <= k BY <1>1, <3>1, UsablesType
      <4> DOMAIN pool = 1 .. Len(pool) /\ k \in Nat BY <1>1, <4>1
      <4>2. k - i + 1 \in DOMAIN pool' /\ k - i + 1 # 1 /\ i + (k - i + 1) - 1 = k
        BY <3>1, <4>1, <1>7
      <4>3. pool'[k - i + 1] = pool[k] BY <4>2, <1>7
      <4>4. k - i + 1 \in Usables(pool)' BY <3>1, <4>2, <4>3 DEF Usables, Usable
      <4> QED BY <4>4 DEF Once
    <3>2. ASSUME pool[i].uses >= 2 PROVE Once'
      <4>1. pool'[1].uses > 0 BY <3>2, <1>6, <1>7
      <4>2. 1 \in Usables(pool)' BY <4>1, <1>6, <1>7, <1>8 DEF Usables, Usable
      <4> QED BY <4>2 DEF Once
    <3> QED BY <2>2, <3>1, <3>2 DEF Twice
  <2> QED BY <1>3, <1>5, <1>10, <2>1, <2>2, <2>3 DEF Admitted, Target
<1>16. Stored' /\ Expires' /\ Destroys' /\ Asked' /\ Replies'
  BY <1>3, <1>4, Onward
<1> QED BY <1>11, <1>12, <1>13, <1>14, <1>15, <1>16 DEF IInv

(* A thread that finds no token to use keeps the pool's lock and logs in.   *)
LEMMA ClaimLogsInInv ==
    ASSUME IInv, NEW a \in Actors, work[a].pc = "claim", holder \in {a, Nobody},
           Usables(pool) = {}, pool' = <<>>, holder' = a, Moves(a, LogsIn(work[a], "claim")),
           UNCHANGED <<now, mount, store, issued, op>>
    PROVE  IInv'
<1> DEFINE w == LogsIn(work[a], "claim")
<1>1. now \in Instants /\ now \in Nat BY Constants DEF IInv, TypeOK
<1>2. w \in WorkType /\ w.pc = "login" /\ w.then = "claim" /\ w.step = work[a].step
      /\ w.reply = work[a].reply /\ w.started = now
  BY <1>1, WorkOf DEF IInv, WorkType, LogsIn
<1> HIDE DEF w
<1>3. Moves(a, w) BY DEF w
<1>4. /\ work' \in [Actors -> WorkType] /\ work'[a] = w
      /\ \A b \in Actors : b # a => work'[b] = work[b]
  BY <1>2, <1>3, MovesType DEF IInv
<1>5. op.name # "none" /\ op.result = "none" /\ (Single \/ op.name = "get_many")
      /\ (a # Main => op.name = "get_many" /\ PathThread(a))
  BY Engaged
<1>6. pool' \in Seq(Token) /\ Len(pool') = 0 /\ DOMAIN pool' = {} OBVIOUS
<1>7. TypeOK'
  <2>1. \A b \in Actors : work'[b].pc \in {"flight", "granted"} => work'[b].token \in DOMAIN issued'
    BY <1>2, <1>4 DEF IInv, TypeOK
  <2> QED BY <1>2, <1>4, <1>6, <2>1 DEF IInv, TypeOK
<1>8. Roles'
  <2>1. ~Resting' BY <1>5 DEF Resting
  <2>2. CASE Single
    <3>1. a = Main BY <2>2, <1>5 DEF Single
    <3> QED BY <1>2, <1>4, <1>5, <2>1, <2>2, <3>1, Constants DEF IInv, Roles, Single
  <2>3. CASE op.name = "get_many"
    <3>1. work[Main].pc \in {"login", "granted"} => work[a] = Idle \/ a = Main
      BY <1>5, <2>3, Constants DEF IInv, Roles
    <3>2. work[Main].pc = "batch" /\ a # Main BY <1>5, <2>3, <3>1 DEF IInv, Roles, Idle
    <3>3. work'[Main] = work[Main] BY <1>4, <3>2, Constants
    <3>4. ASSUME NEW p \in Paths PROVE PathThread(p)'
      <4>1. PathThread(p) /\ p \in Actors BY <1>5, <2>3, Constants DEF IInv, Roles
      <4>2. CASE p = a BY <4>1, <4>2, <1>2, <1>4 DEF PathThread
      <4>3. CASE p # a
        <5>1. work[p].pc \notin {"login", "granted"} BY <4>1, <4>3, Constants DEF PathThread
        <5> QED BY <4>1, <4>3, <5>1, <1>4 DEF PathThread
      <4> QED BY <4>2, <4>3
    <3> QED BY <1>5, <1>6, <2>1, <2>3, <3>2, <3>3, <3>4, Constants DEF IInv, Roles, Single
  <2> QED BY <1>5, <2>2, <2>3
<1>9. Budget'
  <2>1. \A k \in DOMAIN issued : InFlight(k)' = InFlight(k) BY <1>2, <1>4 DEF InFlight
  <2>2. ASSUME NEW b \in Actors, work'[b].pc = "granted"
        PROVE  /\ \A c \in Actors \ {b} :
                    work'[c].pc \in {"flight", "granted"} => work'[c].token # work'[b].token
               /\ issued'[work'[b].token].uses = Fresh(mount'.grant)
    <3>1. b # a /\ work'[b] = work[b] BY <2>2, <1>2, <1>4
    <3>2. \A c \in Actors : work'[c].pc \in {"flight", "granted"} => work'[c] = work[c]
      BY <1>2, <1>4
    <3> QED BY <2>2, <3>1, <3>2 DEF IInv, Budget
  <2> QED BY <1>6, <2>1, <2>2 DEF IInv, Budget
<1>10. Leases'
  <2>1. \A b \in Actors : work'[b].pc = "granted" => work'[b] = work[b] BY <1>2, <1>4
  <2>2. \A b \in Actors : work'[b].pc \in {"login", "granted"} => work'[b].started <= now
    BY <1>1, <1>2, <1>4 DEF IInv, Leases
  <2> QED BY <1>6, <2>1, <2>2 DEF IInv, Leases
<1>11. Admitted'
  <2> SUFFICES ASSUME op.name = "set_expiring", ~op.disturbed, ~op.touched PROVE FALSE
    BY DEF Admitted
  <2>1. a = Main /\ work[Main].step \in {"policy", "data"} BY <1>5 DEF IInv, Roles, Single, Steps
  <2>2. Twice \/ Once BY <1>5, <2>1 DEF IInv, Admitted
  <2> QED BY <2>2 DEF Twice, Once
<1>12. Stored' /\ Expires' /\ Destroys' /\ Asked' /\ Replies'
  BY <1>2, <1>3, Onward
<1> QED BY <1>7, <1>8, <1>9, <1>10, <1>11, <1>12 DEF IInv

LEMMA ClaimInv == ASSUME IInv, NEW a \in Actors, Claim(a) PROVE IInv'
<1>1. work[a].pc = "claim" /\ holder \in {a, Nobody} /\ UNCHANGED <<now, mount, store, issued, op>>
  BY DEF Claim, At
<1>2. CASE \E i \in DOMAIN pool : Foremost(i) /\ Takes(a, i) /\ holder' = Nobody
  BY <1>1, <1>2, ClaimTakesInv
<1>3. CASE Usables(pool) = {} /\ pool' = <<>> /\ holder' = a /\ Moves(a, LogsIn(work[a], "claim"))
  BY <1>1, <1>3, ClaimLogsInInv
<1> QED BY <1>2, <1>3 DEF Claim

(* A pool that has two requests to give has them in two tokens, or in one.  *)
LEMMA TwoInThePool ==
    ASSUME NEW s \in Seq(Token), Available(s) >= Needed
    PROVE  \E i \in Usables(s) : s[i].uses >= 2 \/ \E j \in Usables(s) : j # i
<1> SUFFICES ASSUME \A i \in Usables(s) : s[i].uses < 2 /\ \A j \in Usables(s) : j = i
             PROVE  FALSE
  <2>1. \A i \in Usables(s) : s[i].uses \in Nat BY UsablesType
  <2> QED BY <2>1
<1> DEFINE A == UNION {{i} \X (1 .. s[i].uses) : i \in Usables(s)}
<1>1. CASE Usables(s) = {}
  <2>1. A = {} BY <1>1
  <2>2. Cardinality(A) = 0 BY <2>1, FS_EmptySet
  <2> QED BY <2>2 DEF Available, Needed
<1>2. ASSUME NEW k \in Usables(s) PROVE FALSE
  <2>1. s[k].uses = 1 BY <1>2, UsablesType
  <2>2. Usables(s) = {k} BY <1>2
  <2>3. A = {<<k, 1>>}
    <3>1. 1 .. s[k].uses = {1} BY <2>1
    <3>2. {k} \X {1} = {<<k, 1>>} OBVIOUS
    <3>3. {{i} \X (1 .. s[i].uses) : i \in {k}} = {{k} \X (1 .. s[k].uses)} OBVIOUS
    <3> QED BY <2>2, <3>1, <3>2, <3>3
  <2>4. Cardinality(A) = 1 BY <2>3, FS_Singleton
  <2> QED BY <2>4 DEF Available, Needed
<1> QED BY <1>1, <1>2

(* `ensure_claims` keeps the tokens that can still be used, in their order. *)
LEMMA Kept ==
    ASSUME NEW s \in Seq(Token), NEW at \in Orders(Usables(s)), NEW r,
           r = [i \in DOMAIN at |-> s[at[i]]]
    PROVE  /\ r \in Seq(Token) /\ DOMAIN r = 1 .. Cardinality(Usables(s))
           /\ Cardinality(Usables(s)) \in Nat /\ Len(r) = Cardinality(Usables(s))
           /\ \A i \in DOMAIN r : at[i] \in Usables(s) /\ r[i] = s[at[i]]
           /\ \A i, j \in DOMAIN r : at[i] = at[j] => i = j
<1> DEFINE I == Usables(s)
           n == Cardinality(I)
<1>1. n \in Nat
  <2>1. I \subseteq 1 .. Len(s) BY DEF Usables
  <2>2. IsFiniteSet(1 .. Len(s)) BY FS_Interval
  <2> QED BY <2>1, <2>2, FS_Subset, FS_CardinalityType
<1>2. /\ at \in [1 .. n -> I] /\ DOMAIN at = 1 .. n
      /\ \A i, j \in DOMAIN at : i < j => at[i] < at[j]
  BY DEF Orders
<1>3. I \subseteq Nat BY DEF Usables
<1>4. \A i \in I : s[i] \in Token BY UsablesType
<1> HIDE DEF n, I
<1>5. \A i \in 1 .. n : at[i] \in I /\ s[at[i]] \in Token /\ r[i] = s[at[i]] BY <1>2, <1>4
<1>6. r \in [1 .. n -> Token] BY <1>2, <1>5
<1>7. r \in Seq(Token) /\ Len(r) = n BY <1>1, <1>6
<1>8. \A i, j \in DOMAIN r : at[i] = at[j] => i = j
  <2> SUFFICES ASSUME NEW i \in 1 .. n, NEW j \in 1 .. n, at[i] = at[j] PROVE i = j BY <1>6
  <2>1. i \in Nat /\ j \in Nat BY <1>1
  <2>1a. at[i] \in Nat /\ at[j] \in Nat BY <1>3, <1>5
  <2>2. ~(i < j) /\ ~(j < i) BY <1>2, <2>1, <2>1a
  <2> QED BY <2>1, <2>1a, <2>2
<1> QED BY <1>1, <1>5, <1>6, <1>7, <1>8 DEF n, I

LEMMA EnsureInv == ASSUME IInv, Ensure PROVE IInv'
<1>1. /\ work[Main].pc = "ensure" /\ UNCHANGED <<now, mount, store, issued, holder, op>>
      /\ pool \in Seq(Token)
  BY DEF Ensure, At, IInv, TypeOK
<1>2. PICK at \in Orders(Usables(pool)) : pool' = [i \in DOMAIN at |-> pool[at[i]]]
  BY DEF Ensure
<1>3. /\ pool' \in Seq(Token) /\ DOMAIN pool' = 1 .. Cardinality(Usables(pool))
      /\ Cardinality(Usables(pool)) \in Nat /\ Len(pool') = Cardinality(Usables(pool))
      /\ \A i \in DOMAIN pool' : at[i] \in Usables(pool) /\ pool'[i] = pool[at[i]]
      /\ \A i, j \in DOMAIN pool' : at[i] = at[j] => i = j
  BY <1>1, <1>2, Kept
<1>4. \A i \in DOMAIN pool' : at[i] \in DOMAIN pool BY <1>3, UsablesType, <1>1
<1>5. PICK w \in WorkType :
        /\ Moves(Main, w) /\ w.step = work[Main].step /\ w.reply = work[Main].reply
        /\ \/ w.pc = "claim" /\ Available(pool) >= Needed
           \/ w.pc = "login" /\ w.then = "ensure" /\ w.started = now
  <2>0. now \in Instants /\ Main \in Actors BY Constants DEF IInv, TypeOK
  <2>1. CASE Available(pool) >= Needed /\ Moves(Main, [work[Main] EXCEPT !.pc = "claim", !.more = 0])
    <3> DEFINE v == [work[Main] EXCEPT !.pc = "claim", !.more = 0]
    <3>1. v \in WorkType
      <4>1. work[Main] \in WorkType BY <2>0, WorkOf DEF IInv
      <4> QED BY <4>1 DEF WorkType
    <3>2. v.pc = "claim" /\ v.step = work[Main].step /\ v.reply = work[Main].reply
      <4>1. work[Main] \in WorkType BY <2>0, WorkOf DEF IInv
      <4> QED BY <4>1 DEF WorkType
    <3>3. Moves(Main, v) /\ Available(pool) >= Needed BY <2>1
    <3> HIDE DEF v
    <3> QED BY <3>1, <3>2, <3>3
  <2>2. CASE Moves(Main, [LogsIn(work[Main], "ensure") EXCEPT !.more = @ + 1])
    <3> DEFINE v == [LogsIn(work[Main], "ensure") EXCEPT !.more = @ + 1]
    <3>1. v \in WorkType /\ v.pc = "login" /\ v.then = "ensure" /\ v.started = now
          /\ v.step = work[Main].step /\ v.reply = work[Main].reply
      <4>1. work[Main] \in WorkType /\ work[Main].more + 1 \in Nat BY <2>0, WorkOf DEF IInv
      <4> DEFINE m == work[Main].more + 1
      <4>2. v = [work[Main] EXCEPT !.pc = "login", !.then = "ensure", !.started = now, !.more = m]
        BY <4>1 DEF LogsIn, WorkType
      <4>3. m \in Nat BY <4>1
      <4> HIDE DEF m, v
      <4> QED BY <2>0, <4>1, <4>2, <4>3 DEF WorkType
    <3> HIDE DEF v
    <3>2. Moves(Main, v) BY <2>2 DEF v
    <3> QED BY <3>1, <3>2
  <2> QED BY <2>1, <2>2 DEF Ensure
<1>6. Main \in Actors /\ Paths \subseteq Actors /\ \A b \in Actors : b # Main => b \in Paths BY Constants
<1>7. /\ work' \in [Actors -> WorkType] /\ work'[Main] = w
      /\ \A b \in Actors : b # Main => work'[b] = work[b]
  BY <1>5, <1>6, MovesType DEF IInv
<1>8. op.name # "none" /\ op.result = "none" /\ (Single \/ op.name = "get_many")
  BY <1>1, <1>6, Engaged
<1>9. Single /\ op.name # "get_many"
  BY <1>1, <1>8 DEF IInv, Roles, Single
<1>10. holder = Nobody
  <2>1. holder \in Paths => FALSE BY <1>6, <1>9, Constants DEF IInv, TypeOK, Roles, Idle
  <2> QED BY <1>1, <1>6, <2>1 DEF IInv, TypeOK
<1>11. TypeOK'
  <2>1. \A b \in Actors : work'[b].pc \in {"flight", "granted"} => work'[b].token \in DOMAIN issued'
    BY <1>1, <1>5, <1>7 DEF IInv, TypeOK
  <2>2. \A i \in DOMAIN pool' : pool'[i].id \in DOMAIN issued' BY <1>1, <1>3, <1>4 DEF IInv, TypeOK
  <2> QED BY <1>1, <1>3, <1>7, <1>10, <2>1, <2>2 DEF IInv, TypeOK
<1>12. Roles'
  <2>1. ~Resting' BY <1>1, <1>8 DEF Resting
  <2>2. work[Main].step \in Steps(op.name) BY <1>8, <1>9 DEF IInv, Roles
  <2>3. \A p \in Paths : work'[p] = Idle BY <1>6, <1>7, <1>9, Constants DEF IInv, Roles
  <2> QED BY <1>1, <1>5, <1>7, <1>8, <1>9, <1>10, <2>1, <2>2, <2>3, Constants DEF Roles, Single
<1>13. Budget'
  <2>1. \A k \in DOMAIN issued : InFlight(k)' = InFlight(k) BY <1>1, <1>5, <1>7 DEF InFlight
  <2>2. \A i, j \in DOMAIN pool' : pool'[i].id = pool'[j].id => i = j
    <3> SUFFICES ASSUME NEW i \in DOMAIN pool', NEW j \in DOMAIN pool', pool'[i].id = pool'[j].id
                 PROVE  i = j
      OBVIOUS
    <3>1. pool[at[i]].id = pool[at[j]].id BY <1>3
    <3>2. at[i] = at[j] BY <3>1, <1>4 DEF IInv, Budget
    <3> QED BY <3>2, <1>3
  <2>3. ASSUME NEW k \in DOMAIN issued, issued[k].uses # Unlimited
        PROVE  /\ Cardinality(InFlight(k)') <= issued[k].uses
               /\ \A j \in DOMAIN pool' : pool'[j].id = k =>
                    /\ pool'[j].uses # Unlimited
                    /\ pool'[j].uses + Cardinality(InFlight(k)') <= issued[k].uses
    <3>1. /\ Cardinality(InFlight(k)) <= issued[k].uses
          /\ \A j \in DOMAIN pool : pool[j].id = k =>
               /\ pool[j].uses # Unlimited
               /\ pool[j].uses + Cardinality(InFlight(k)) <= issued[k].uses
      BY <2>3 DEF IInv, Budget
    <3> QED BY <3>1, <2>1, <1>3, <1>4
  <2>4. ASSUME NEW b \in Actors, work'[b].pc = "granted"
        PROVE  /\ \A j \in DOMAIN pool' : pool'[j].id # work'[b].token
               /\ \A c \in Actors \ {b} :
                    work'[c].pc \in {"flight", "granted"} => work'[c].token # work'[b].token
               /\ issued'[work'[b].token].uses = Fresh(mount'.grant)
    <3>1. b # Main /\ work'[b] = work[b] BY <2>4, <1>5, <1>7
    <3> QED BY <2>4, <3>1, <1>6, <1>9 DEF IInv, Roles, Idle
  <2> QED BY <1>1, <2>2, <2>3, <2>4 DEF IInv, Budget
<1>14. Leases'
  <2>1. now \in Nat BY Constants DEF IInv, TypeOK
  <2>2. \A b \in Actors : work'[b].pc = "granted" => work'[b] = work[b] BY <1>5, <1>7
  <2>3. \A b \in Actors : work'[b].pc \in {"login", "granted"} => work'[b].started <= now
    BY <2>1, <1>5, <1>7 DEF IInv, Leases
  <2>4. mount.grant.saysLease => \A j \in DOMAIN pool' : pool'[j].until <= issued[pool'[j].id].expires
    BY <1>3, <1>4 DEF IInv, Leases
  <2> QED BY <1>1, <2>2, <2>3, <2>4 DEF IInv, Leases
<1>15. Admitted'
  <2> SUFFICES ASSUME op.name = "set_expiring", ~op.disturbed, ~op.touched PROVE Admitted'
    BY <1>1 DEF Admitted
  <2>1. work[Main].step = "policy" /\ Target = op.before BY <1>1, <1>8 DEF IInv, Admitted
  <2>2. ASSUME Available(pool) >= Needed PROVE Twice'
    <3>1. \A i \in DOMAIN pool' : i \in Usables(pool)' /\ pool'[i].uses \in Nat
      BY <1>1, <1>3, UsablesType DEF Usables, Usable
    <3>2. PICK k \in Usables(pool) : pool[k].uses >= 2 \/ \E j \in Usables(pool) : j # k
      BY <2>2, <1>1, TwoInThePool
    <3> DEFINE n == Cardinality(Usables(pool))
    <3>3. n # 0
      <4>1. IsFiniteSet(Usables(pool))
        <5>1. Usables(pool) \subseteq 1 .. Len(pool) BY <1>1 DEF Usables
        <5> QED BY <5>1, FS_Interval, FS_Subset, <1>1
      <4> QED BY <3>2, <4>1, FS_EmptySet
    <3>4. CASE n = 1
      <4>1. PICK x : Usables(pool) = {x}
        <5>1. IsFiniteSet(Usables(pool))
          <6>1. Usables(pool) \subseteq 1 .. Len(pool) BY <1>1 DEF Usables
          <6> QED BY <6>1, FS_Interval, FS_Subset, <1>1
        <5> QED BY <3>4, <5>1, FS_Singleton
      <4>2. 1 \in DOMAIN pool' /\ at[1] = k
        <5>1. 1 \in DOMAIN pool' BY <3>4, <1>3
        <5>2. at[1] \in Usables(pool) BY <5>1, <1>3
        <5> QED BY <5>1, <5>2, <3>2, <4>1
      <4>3. pool'[1].uses >= 2 BY <3>2, <4>1, <4>2, <1>3
      <4> QED BY <3>1, <4>2, <4>3 DEF Twice
    <3>5. CASE n # 1
      <4>1. 1 \in DOMAIN pool' /\ 2 \in DOMAIN pool' BY <3>3, <3>5, <1>3
      <4> QED BY <3>1, <4>1 DEF Twice
    <3> QED BY <3>4, <3>5
  <2> QED BY <1>1, <1>5, <1>7, <1>8, <2>1, <2>2 DEF Admitted, Target
<1>16. Stored' /\ Expires' /\ Destroys' /\ Asked' /\ Replies'
  BY <1>1, <1>5, <1>6, Onward
<1> QED BY <1>11, <1>12, <1>13, <1>14, <1>15, <1>16 DEF IInv

(* A thread answers for its claim at the server, which charges the token    *)
(* whether or not it serves the request.                                    *)
LEMMA Charged ==
    ASSUME IInv, NEW a \in Actors, work[a].pc = "flight",
           NEW w \in WorkType, Moves(a, w), w.pc = "reply",
           UNCHANGED <<now, mount, pool>>,
           issued' = [issued EXCEPT ![work[a].token].uses = IF @ = Unlimited THEN @ ELSE @ - 1]
    PROVE  /\ issued' \in Seq([uses : Int, expires : Nat]) /\ DOMAIN issued' = DOMAIN issued
           /\ Budget' /\ Leases'
           /\ \A b \in Actors : work'[b].pc \in {"flight", "granted"} => work'[b].token \in DOMAIN issued'
<1>0. PICK id : id = work[a].token OBVIOUS
<1>1. issued \in Seq([uses : Int, expires : Nat]) /\ id \in DOMAIN issued
  BY <1>0 DEF IInv, TypeOK
<1>2. \A i \in DOMAIN issued : issued[i].uses \in Int /\ issued[i].expires \in Nat
  <2>1. \A i \in DOMAIN issued : issued[i] \in [uses : Int, expires : Nat] BY <1>1, Element
  <2> QED BY <2>1
<1>3. Unlimited \in Nat BY Constants
<1>4. /\ issued' \in Seq([uses : Int, expires : Nat]) /\ DOMAIN issued' = DOMAIN issued
      /\ \A i \in DOMAIN issued : issued'[i].expires = issued[i].expires
      /\ \A i \in DOMAIN issued : i # id => issued'[i] = issued[i]
      /\ issued'[id].uses = IF issued[id].uses = Unlimited THEN Unlimited ELSE issued[id].uses - 1
  <2> DEFINE u == IF issued[id].uses = Unlimited THEN issued[id].uses ELSE issued[id].uses - 1
             t == [issued[id] EXCEPT !.uses = u]
  <2>1. issued[id] \in [uses : Int, expires : Nat] BY <1>1, Element
  <2>2. u \in Int BY <1>1, <1>2
  <2> HIDE DEF u
  <2>3. t \in [uses : Int, expires : Nat] /\ t.uses = u /\ t.expires = issued[id].expires
    BY <2>1, <2>2
  <2>4. issued' = [issued EXCEPT ![id] = t] BY <1>0, <1>1 DEF u
  <2> HIDE DEF t
  <2>5. issued' \in Seq([uses : Int, expires : Nat]) /\ DOMAIN issued' = DOMAIN issued
        /\ issued'[id] = t /\ \A i \in DOMAIN issued : i # id => issued'[i] = issued[i]
    <3>1. [issued EXCEPT ![id] = t] \in Seq([uses : Int, expires : Nat])
      BY <1>1, <2>3, Replaced
    <3>2. DOMAIN [issued EXCEPT ![id] = t] = DOMAIN issued /\ [issued EXCEPT ![id] = t][id] = t
          /\ \A i \in DOMAIN issued : i # id => [issued EXCEPT ![id] = t][i] = issued[i]
      BY <1>1
    <3> QED BY <2>4, <3>1, <3>2
  <2> QED BY <2>3, <2>5 DEF u
<1>5. /\ work' \in [Actors -> WorkType] /\ work'[a] = w
      /\ \A b \in Actors : b # a => work'[b] = work[b]
  BY MovesType DEF IInv
<1>6. \A k \in DOMAIN issued : k # id => InFlight(k)' = InFlight(k) BY <1>0, <1>5 DEF InFlight
<1>7. InFlight(id)' = InFlight(id) \ {a} /\ a \in InFlight(id) BY <1>0, <1>5 DEF InFlight
<1>8. Cardinality(InFlight(id)) \in Nat /\ Cardinality(InFlight(id)') = Cardinality(InFlight(id)) - 1
  <2>1. IsFiniteSet(InFlight(id))
    <3>1. InFlight(id) \subseteq Actors BY DEF InFlight
    <3> QED BY <3>1, Constants, FS_Subset
  <2> QED BY <2>1, <1>7, FS_RemoveElement, FS_CardinalityType
<1>9. Budget'
  <2>1. ASSUME NEW k \in DOMAIN issued
        PROVE  /\ issued'[k].uses <= Unlimited
               /\ issued'[k].uses # Unlimited =>
                    /\ Cardinality(InFlight(k)') <= issued'[k].uses
                    /\ \A j \in DOMAIN pool : pool[j].id = k =>
                         /\ pool[j].uses # Unlimited
                         /\ pool[j].uses + Cardinality(InFlight(k)') <= issued'[k].uses
    <3>1. /\ issued[k].uses <= Unlimited
          /\ issued[k].uses # Unlimited =>
               /\ Cardinality(InFlight(k)) <= issued[k].uses
               /\ \A j \in DOMAIN pool : pool[j].id = k =>
                    /\ pool[j].uses # Unlimited
                    /\ pool[j].uses + Cardinality(InFlight(k)) <= issued[k].uses
      BY DEF IInv, Budget
    <3>2. CASE k # id BY <3>1, <3>2, <1>4, <1>6
    <3>3. CASE k = id
      <4>1. CASE issued[id].uses = Unlimited
        <5>1. issued'[k].uses = Unlimited BY <3>3, <4>1, <1>3, <1>4
        <5>2. Unlimited \in Nat BY KvSessionAssumption
        <5> QED BY <5>1, <5>2
      <4>2. CASE issued[id].uses # Unlimited
        <5>1. issued'[id].uses = issued[id].uses - 1 /\ issued[id].uses \in Int BY <4>2, <1>1, <1>2, <1>4
        <5>2. ASSUME NEW j \in DOMAIN pool PROVE pool[j].uses \in Nat
          <6>1. pool \in Seq(Token) BY DEF IInv, TypeOK
          <6>2. pool[j] \in Token BY <6>1, Element
          <6> QED BY <6>2 DEF Token
        <5>3. issued'[id].uses <= Unlimited BY <5>1, <3>1, <3>3, <1>3
        <5>4. Cardinality(InFlight(id)') <= issued'[id].uses BY <5>1, <3>1, <3>3, <4>2, <1>8
        <5>5. ASSUME NEW j \in DOMAIN pool, pool[j].id = id
              PROVE  pool[j].uses # Unlimited
                     /\ pool[j].uses + Cardinality(InFlight(id)') <= issued'[id].uses
          BY <5>1, <5>2, <5>5, <3>1, <3>3, <4>2, <1>8
        <5> QED BY <3>3, <5>3, <5>4, <5>5
      <4> QED BY <4>1, <4>2
    <3> QED BY <3>2, <3>3
  <2>2. ASSUME NEW b \in Actors, work'[b].pc = "granted"
        PROVE  /\ \A j \in DOMAIN pool : pool[j].id # work'[b].token
               /\ \A c \in Actors \ {b} :
                    work'[c].pc \in {"flight", "granted"} => work'[c].token # work'[b].token
               /\ issued'[work'[b].token].uses = Fresh(mount.grant)
    <3>1. b # a /\ work'[b] = work[b] BY <2>2, <1>5
    <3>2. \A c \in Actors : work'[c].pc \in {"flight", "granted"} => work'[c] = work[c] BY <1>5
    <3>3. work[b].token # id /\ work[b].token \in DOMAIN issued
      BY <2>2, <3>1, <1>0 DEF IInv, Budget, TypeOK
    <3>4. issued'[work[b].token] = issued[work[b].token] BY <3>3, <1>4
    <3> QED BY <2>2, <3>1, <3>2, <3>4 DEF IInv, Budget
  <2>3. \A i, j \in DOMAIN pool : pool[i].id = pool[j].id => i = j BY DEF IInv, Budget
  <2>4. DOMAIN issued' = DOMAIN issued BY <1>4
  <2> QED BY <2>1, <2>2, <2>3, <2>4 DEF Budget
<1>10. Leases'
  <2>1. \A b \in Actors : work'[b].pc \in {"login", "granted"} => work'[b] = work[b] BY <1>5
  <2>2. \A b \in Actors : work[b].pc = "granted" =>
          issued'[work[b].token].expires = issued[work[b].token].expires
    BY <1>4 DEF IInv, TypeOK
  <2>3. \A j \in DOMAIN pool : issued'[pool[j].id].expires = issued[pool[j].id].expires
    BY <1>4 DEF IInv, TypeOK
  <2> QED BY <2>1, <2>2, <2>3 DEF IInv, Leases
<1>11. \A b \in Actors : work'[b].pc \in {"flight", "granted"} => work'[b].token \in DOMAIN issued'
  BY <1>4, <1>5 DEF IInv, TypeOK
<1> QED BY <1>4, <1>9, <1>10, <1>11

(* What the server does with a request.                                     *)
WithValue(e) == [e EXCEPT !.meta = TRUE, !.held = TRUE, !.dies = IF e.ttl THEN now + MaxAge ELSE Never]

Outcome(a, r) ==
    LET p == Path(a)
        step == work[a].step
    IN \/ r = "error" /\ UNCHANGED <<store, op>>
       \/ /\ step = "read" /\ r = (IF Live(p) THEN "yes" ELSE "no") /\ UNCHANGED store
          /\ op' = IF Live(p) THEN op ELSE [op EXCEPT !.bare = @ \cup {p}]
       \/ step = "exists" /\ r = (IF There(p) THEN "yes" ELSE "no") /\ UNCHANGED <<store, op>>
       \/ /\ step = "policy" /\ r = "yes" /\ UNCHANGED op
          /\ store' = [store EXCEPT ![p] = [store[p] EXCEPT !.meta = TRUE, !.ttl = TRUE]]
       \/ /\ step = "data" /\ r = "yes" /\ UNCHANGED op
          /\ store' = [store EXCEPT ![p] = WithValue(store[p])]
       \/ /\ step = "destroy" /\ r = "yes" /\ UNCHANGED op
          /\ store' = [store EXCEPT ![p] = Bare]

LEMMA ServeOutcome ==
    ASSUME IInv, NEW a \in Actors, Serve(a)
    PROVE  /\ work[a].pc = "flight" /\ UNCHANGED <<now, mount, pool, holder>>
           /\ issued' = [issued EXCEPT ![work[a].token].uses = IF @ = Unlimited THEN @ ELSE @ - 1]
           /\ \E r \in {"yes", "no", "error"} :
                Outcome(a, r) /\ Moves(a, [work[a] EXCEPT !.pc = "reply", !.reply = r])
<1>1. work[a].step \in {"read", "data", "policy", "exists", "destroy"}
  <2>1. work[a] \in WorkType BY WorkOf DEF IInv
  <2> QED BY <2>1 DEF WorkType
<1>2. /\ work[a].pc = "flight" /\ UNCHANGED <<now, mount, pool, holder>>
      /\ issued' = [issued EXCEPT ![work[a].token].uses = IF @ = Unlimited THEN @ ELSE @ - 1]
  BY DEF Serve, At
<1> DEFINE Says(r) == Moves(a, [work[a] EXCEPT !.pc = "reply", !.reply = r])
<1>3. CASE Says("error") /\ UNCHANGED <<store, op>>
  BY <1>2, <1>3 DEF Outcome
<1>4. CASE ~(Says("error") /\ UNCHANGED <<store, op>>)
  <2>1. CASE work[a].step = "read"
    <3>1. /\ Says(IF Live(Path(a)) THEN "yes" ELSE "no") /\ UNCHANGED store
          /\ op' = IF ~Live(Path(a)) THEN [op EXCEPT !.bare = @ \cup {Path(a)}] ELSE op
      BY <1>4, <2>1 DEF Serve
    <3>2. op' = IF Live(Path(a)) THEN op ELSE [op EXCEPT !.bare = @ \cup {Path(a)}] BY <3>1
    <3> QED BY <1>2, <2>1, <3>1, <3>2 DEF Outcome
  <2>2. CASE work[a].step = "exists"
    <3>1. Says(IF There(Path(a)) THEN "yes" ELSE "no") /\ UNCHANGED <<store, op>>
      BY <1>4, <2>2 DEF Serve
    <3> QED BY <1>2, <2>2, <3>1 DEF Outcome
  <2>3. CASE work[a].step = "policy"
    <3>1. /\ Says("yes") /\ UNCHANGED op
          /\ store' = [store EXCEPT ![Path(a)] = [store[Path(a)] EXCEPT !.meta = TRUE, !.ttl = TRUE]]
      BY <1>4, <2>3 DEF Serve
    <3> QED BY <1>2, <2>3, <3>1 DEF Outcome
  <2>4. CASE work[a].step = "data"
    <3>1. /\ Says("yes") /\ UNCHANGED op
          /\ store' = [store EXCEPT ![Path(a)] = WithValue(store[Path(a)])]
      BY <1>4, <2>4 DEF Serve, WithValue
    <3> QED BY <1>2, <2>4, <3>1 DEF Outcome
  <2>5. CASE work[a].step = "destroy"
    <3>1. Says("yes") /\ UNCHANGED op /\ store' = [store EXCEPT ![Path(a)] = Bare]
      BY <1>4, <2>5 DEF Serve
    <3> QED BY <1>2, <2>5, <3>1 DEF Outcome
  <2> QED BY <1>1, <2>1, <2>2, <2>3, <2>4, <2>5
<1> QED BY <1>3, <1>4

LEMMA ServeInv == ASSUME IInv, NEW a \in Actors, Serve(a) PROVE IInv'
<1> DEFINE p == Path(a)
           step == work[a].step
           e == store[p]
<1>1. /\ work[a].pc = "flight" /\ UNCHANGED <<now, mount, pool, holder>>
      /\ issued' = [issued EXCEPT ![work[a].token].uses = IF @ = Unlimited THEN @ ELSE @ - 1]
  BY ServeOutcome
<1>2. PICK r \in {"yes", "no", "error"} :
        Outcome(a, r) /\ Moves(a, [work[a] EXCEPT !.pc = "reply", !.reply = r])
  BY ServeOutcome
<1> DEFINE w == [work[a] EXCEPT !.pc = "reply", !.reply = r]
<1>3. w \in WorkType /\ w.pc = "reply" /\ w.reply = r /\ w.step = step
  <2>1. work[a] \in WorkType BY WorkOf DEF IInv
  <2> QED BY <2>1 DEF WorkType
<1>4. Moves(a, w) BY <1>2
<1> HIDE DEF w
<1>5. /\ work' \in [Actors -> WorkType] /\ work'[a] = w
      /\ \A b \in Actors : b # a => work'[b] = work[b]
  BY <1>3, <1>4, MovesType DEF IInv
<1>6. op.name # "none" /\ op.result = "none" /\ (Single \/ op.name = "get_many")
      /\ (a # Main => op.name = "get_many" /\ PathThread(a))
  BY <1>1, Engaged
<1>7. Main \in Actors /\ Paths \subseteq Actors /\ (a # Main => a \in Paths) /\ Main \notin Paths BY Constants
<1>8. p \in Paths /\ e \in Entry /\ (a = Main => p = op.path) /\ (a # Main => p = a) /\ op.path \in Paths
  BY <1>7, OpOf DEF IInv, TypeOK, Path
<1>9. now \in Nat /\ now \in Instants /\ now + MaxAge \in Nat /\ Never \in Nat
      /\ now < Never /\ now + MaxAge # Never /\ MaxAge \in Nat
  BY Constants DEF IInv, TypeOK
<1>10. WithValue(e) \in Entry /\ WithValue(e).meta /\ WithValue(e).held /\ WithValue(e).ttl = e.ttl
       /\ WithValue(e).dies = IF e.ttl THEN now + MaxAge ELSE Never
  BY <1>8, <1>9 DEF WithValue, Entry
<1>11. Bare \in Entry /\ [e EXCEPT !.meta = TRUE, !.ttl = TRUE] \in Entry
  BY <1>8, Records DEF Entry
<1>12. store' \in [Paths -> Entry] /\ \A q \in Paths : q # p => store'[q] = store[q]
  <2>1. \A q \in Paths : q # p => store'[q] = store[q] BY <1>2, <1>8 DEF Outcome, IInv, TypeOK
  <2>2. store' = store \/ \E f \in Entry : store' = [store EXCEPT ![p] = f]
    BY <1>2, <1>10, <1>11 DEF Outcome
  <2>3. store' \in [Paths -> Entry] BY <2>2, <1>8 DEF IInv, TypeOK
  <2> QED BY <2>1, <2>3
<1>13. op' \in OpType /\ op'.name = op.name /\ op'.path = op.path /\ op'.names = op.names
       /\ op'.todo = op.todo /\ op'.got = op.got /\ op'.result = op.result /\ op'.answer = op.answer
       /\ op'.before = op.before /\ op'.disturbed = op.disturbed /\ op'.touched = op.touched
       /\ op'.bare = IF r = "no" /\ step = "read" THEN op.bare \cup {p} ELSE op.bare
  <2>1. op \in OpType BY DEF IInv, TypeOK
  <2>2. CASE op' = op /\ ~(r = "no" /\ step = "read") BY <2>1, <2>2
  <2>3. CASE op' = [op EXCEPT !.bare = @ \cup {p}] /\ r = "no" /\ step = "read"
    BY <2>1, <2>3, <1>8 DEF OpType
  <2> QED BY <1>2, <2>2, <2>3 DEF Outcome
<1>14. issued' \in Seq([uses : Int, expires : Nat]) /\ DOMAIN issued' = DOMAIN issued
       /\ Budget' /\ Leases'
       /\ \A b \in Actors : work'[b].pc \in {"flight", "granted"} => work'[b].token \in DOMAIN issued'
  BY <1>1, <1>3, <1>4, Charged
<1>15. TypeOK'
  <2>1. holder' # Nobody => work'[holder'].pc \in {"login", "granted", "claim"}
    BY <1>1, <1>5 DEF IInv, TypeOK
  <2> QED BY <1>1, <1>5, <1>12, <1>13, <1>14, <2>1 DEF IInv, TypeOK
<1>16. Roles'
  <2>1. ~Resting' BY <1>6, <1>13 DEF Resting
  <2>2. CASE Single
    <3>1. a = Main /\ op.name # "get_many" BY <2>2, <1>6 DEF Single
    <3>2. work[Main].step \in Steps(op.name) /\ \A q \in Paths : work[q] = Idle
      BY <1>6, <2>2 DEF IInv, Roles
    <3>3. \A q \in Paths : work'[q] = Idle BY <3>1, <3>2, <1>5, <1>7
    <3> QED BY <1>1, <1>3, <1>5, <1>6, <1>7, <1>13, <2>1, <2>2, <3>1, <3>2, <3>3
        DEF IInv, Roles, Single
  <2>3. CASE op.name = "get_many"
    <3>1. work[Main].pc \in {"login", "granted"} => work[a] = Idle \/ a = Main
      BY <1>6, <1>7, <2>3 DEF IInv, Roles
    <3>2. work[Main].pc = "batch" /\ a # Main BY <1>1, <1>6, <2>3, <3>1 DEF IInv, Roles, Idle
    <3>3. work'[Main] = work[Main] BY <1>5, <1>7, <3>2
    <3>4. ASSUME NEW q \in Paths PROVE PathThread(q)'
      <4>1. PathThread(q) /\ q \in Actors BY <1>6, <1>7, <2>3 DEF IInv, Roles
      <4>2. CASE q = a BY <4>1, <4>2, <1>1, <1>3, <1>5 DEF PathThread
      <4>3. CASE q # a BY <4>1, <4>3, <1>1, <1>5 DEF PathThread
      <4> QED BY <4>2, <4>3
    <3> QED BY <1>1, <1>6, <1>13, <2>1, <2>3, <3>2, <3>3, <3>4 DEF IInv, Roles, Single
  <2> QED BY <1>6, <2>2, <2>3
<1>17. Replies'
  <2>1. r = "no" => step \in {"read", "exists"} BY <1>2 DEF Outcome
  <2> QED BY <2>1, <1>3, <1>5 DEF IInv, Replies
<1>18. Single => a = Main /\ work[Main].step \in Steps(op.name) BY <1>6 DEF IInv, Roles, Single
<1>19. Stored'
  <2>1. (e.meta \/ e = Bare) /\ (mount.kv = 1 => e = Bare \/ (e.held /\ ~e.ttl /\ e.dies = Never))
    BY <1>8 DEF IInv, Stored
  <2>2. step = "policy" => mount.kv # 1
    <3> SUFFICES ASSUME step = "policy" PROVE mount.kv # 1 OBVIOUS
    <3>1. op.name # "get_many"
      <4>1. op.name = "get_many" => work[Main].pc \in {"login", "granted", "batch"}
        BY <1>6 DEF IInv, Roles
      <4> QED BY <4>1, <1>1, <1>6 DEF PathThread
    <3>2. op.name = "set_expiring" BY <3>1, <1>6, <1>18 DEF Steps, Single
    <3> QED BY <3>2, <1>6 DEF IInv, Stored
  <2>3. store'[p] = e
        \/ (step = "policy" /\ store'[p] = [e EXCEPT !.meta = TRUE, !.ttl = TRUE])
        \/ store'[p] = WithValue(e) \/ store'[p] = Bare
    BY <1>2, <1>8 DEF Outcome, IInv, TypeOK
  <2>4. Bare.ttl = FALSE BY DEF Bare
  <2>5. [e EXCEPT !.meta = TRUE, !.ttl = TRUE].meta BY <1>8 DEF Entry
  <2>6. store'[p].meta \/ store'[p] = Bare BY <2>1, <2>3, <2>5, <1>10
  <2>7. mount.kv = 1 => store'[p] = Bare \/ (store'[p].held /\ ~store'[p].ttl /\ store'[p].dies = Never)
    BY <2>1, <2>2, <2>3, <2>4, <1>10
  <2> QED BY <1>1, <1>12, <1>13, <2>6, <2>7 DEF IInv, Stored
<1>20. Expires'
  <2> SUFFICES ASSUME op.name = "set_expiring", ~op.touched PROVE Expires' BY <1>13 DEF Expires
  <2>1. a = Main /\ p = op.path /\ Target = e /\ Target' = store'[p]
    BY <1>6, <1>8, <1>13 DEF Target
  <2>2. step = "policy" /\ r = "yes" => store'[p].ttl
    <3>1. [e EXCEPT !.meta = TRUE, !.ttl = TRUE].ttl BY <1>8 DEF Entry
    <3> QED BY <3>1, <1>2, <1>8 DEF Outcome, IInv, TypeOK
  <2>3. step = "data" => e.ttl BY <1>6, <2>1 DEF IInv, Expires
  <2>4. step = "data" => store'[p] = e \/ store'[p] = WithValue(e)
    BY <1>2, <1>8 DEF Outcome, IInv, TypeOK
  <2>5. step = "data" /\ r = "yes" => store'[p] = WithValue(e)
    BY <1>2, <1>8 DEF Outcome, IInv, TypeOK
  <2> QED BY <1>3, <1>5, <1>6, <1>9, <1>10, <1>13, <2>1, <2>2, <2>3, <2>4, <2>5 DEF Expires
<1>21. Admitted'
  <2> SUFFICES ASSUME op.name = "set_expiring", ~op.touched, ~op.disturbed PROVE Admitted'
    BY <1>13 DEF Admitted
  <2>1. a = Main BY <1>6
  <2>2. step = "policy" => Once BY <1>1, <1>6, <2>1 DEF IInv, Admitted
  <2>3. Once' <=> Once BY <1>1 DEF Once, Usables, Usable
  <2> QED BY <1>3, <1>5, <1>6, <1>13, <2>1, <2>2, <2>3 DEF Admitted
<1>22. Destroys'
  <2> SUFFICES ASSUME op.name = "delete", ~op.touched PROVE Destroys' BY <1>13 DEF Destroys
  <2>1. a = Main /\ p = op.path /\ Target = e /\ Target' = store'[p]
    BY <1>6, <1>8, <1>13 DEF Target
  <2>2. step = "exists" /\ r = "no" => store'[p] = Bare
    <3>1. step = "exists" /\ r = "no" => ~There(p) /\ store' = store BY <1>2 DEF Outcome
    <3>2. ~There(p) => e = Bare
      BY <1>8, <1>9 DEF IInv, Stored, There, Live, TypeOK
    <3> QED BY <3>1, <3>2
  <2>3. step = "destroy" /\ r = "yes" => store'[p] = Bare
    BY <1>2, <1>8 DEF Outcome, IInv, TypeOK
  <2> QED BY <1>3, <1>5, <1>6, <1>13, <2>1, <2>2, <2>3 DEF Destroys
<1>23. Asked'
  <2> SUFFICES ASSUME op.name = "get_many" PROVE Asked' BY <1>13 DEF Asked
  <2>1. a # Main /\ step = "read"
    <3>1. work[Main].pc \in {"login", "granted", "batch"} BY <1>6 DEF IInv, Roles
    <3> QED BY <3>1, <1>1, <1>6 DEF PathThread
  <2>2. \A q \in Paths : op.got[q] = "no" \/ work'[q].reply = "no" => q \in op'.bare
    BY <1>3, <1>5, <1>7, <1>8, <1>13, <2>1 DEF IInv, Asked
  <2>3. ASSUME NEW n \in op.names
        PROVE  LET q == PathOf[n]
               IN q \in op.todo \/ op.got[q] # "unread" \/ work'[q].pc \notin {"idle", "done"}
    <3>1. PathOf[n] \in Paths BY OpOf, KvSessionAssumption DEF IInv
    <3> QED BY <3>1, <1>3, <1>5, <1>6, <1>7 DEF IInv, Asked
  <2> QED BY <1>6, <1>13, <2>2, <2>3 DEF Asked
<1> QED BY <1>14, <1>15, <1>16, <1>17, <1>19, <1>20, <1>21, <1>22, <1>23 DEF IInv

(* A thread goes back to its request, or on to the operation's next one.    *)
LEMMA DisturbedType ==
    ASSUME IInv
    PROVE  /\ Disturbed \in OpType /\ Disturbed.name = op.name /\ Disturbed.path = op.path
           /\ Disturbed.names = op.names /\ Disturbed.todo = op.todo /\ Disturbed.got = op.got
           /\ Disturbed.result = op.result /\ Disturbed.answer = op.answer
           /\ Disturbed.before = op.before /\ Disturbed.bare = op.bare
           /\ Disturbed.touched = op.touched
           /\ Disturbed.disturbed = (op.name = "set_expiring")
<1>1. op \in OpType BY DEF IInv, TypeOK
<1>2. (op.name = "set_expiring") \in BOOLEAN OBVIOUS
<1> QED BY <1>1, <1>2 DEF Disturbed, OpType

LEMMA Continues ==
    ASSUME IInv, NEW a \in Actors, work[a].pc \in {"flight", "reply"},
           NEW w \in WorkType, Moves(a, w), w.pc \in {"claim", "flight"}, w.step \in Steps(op.name),
           w.pc = "flight" => work[a].pc = "flight" /\ w.token = work[a].token /\ w.started = work[a].started,
           w.reply = "none" \/ w.reply = work[a].reply,
           op' \in {op, Disturbed}, UNCHANGED <<now, mount, store, issued, pool, holder>>
    PROVE  TypeOK' /\ Roles' /\ Replies' /\ Budget' /\ Leases' /\ Stored' /\ Asked'
<1>1. /\ work' \in [Actors -> WorkType] /\ work'[a] = w
      /\ \A b \in Actors : b # a => work'[b] = work[b]
  BY MovesType DEF IInv
<1>2. op' \in OpType /\ op'.name = op.name /\ op'.path = op.path /\ op'.names = op.names
      /\ op'.todo = op.todo /\ op'.got = op.got /\ op'.result = op.result /\ op'.answer = op.answer
      /\ op'.before = op.before /\ op'.touched = op.touched /\ op'.bare = op.bare
  BY DisturbedType DEF IInv, TypeOK
<1>3. op.name # "none" /\ op.result = "none" /\ (Single \/ op.name = "get_many")
      /\ (a # Main => op.name = "get_many" /\ PathThread(a))
  BY Engaged
<1>4. Main \in Actors /\ Paths \subseteq Actors /\ (a # Main => a \in Paths) /\ Main \notin Paths BY Constants
<1>5. now \in Instants /\ now \in Nat BY Constants DEF IInv, TypeOK
<1>6. Budget' /\ Leases'
      /\ \A b \in Actors : work'[b].pc \in {"flight", "granted"} => work'[b].token \in DOMAIN issued'
  BY <1>1, <1>5, Quiet
<1>7. TypeOK'
  <2>1. holder' # Nobody => work'[holder'].pc \in {"login", "granted", "claim"}
    BY <1>1 DEF IInv, TypeOK
  <2> QED BY <1>1, <1>2, <1>6, <2>1 DEF IInv, TypeOK
<1>8. Roles'
  <2>1. ~Resting' BY <1>2, <1>3 DEF Resting
  <2>2. CASE Single
    <3>1. a = Main /\ op.name # "get_many" BY <2>2, <1>3 DEF Single
    <3>2. \A q \in Paths : work[q] = Idle BY <2>2 DEF IInv, Roles
    <3>3. \A q \in Paths : work'[q] = Idle BY <3>1, <3>2, <1>1, <1>4
    <3> QED BY <1>1, <1>2, <1>3, <1>4, <2>1, <2>2, <3>1, <3>3 DEF IInv, Roles, Single
  <2>3. CASE op.name = "get_many"
    <3>1. work[Main].pc \in {"login", "granted"} => work[a] = Idle \/ a = Main
      BY <1>3, <1>4, <2>3 DEF IInv, Roles
    <3>2. work[Main].pc = "batch" /\ a # Main BY <1>3, <2>3, <3>1 DEF IInv, Roles, Idle
    <3>3. work'[Main] = work[Main] /\ w.step = "read" BY <1>1, <1>4, <2>3, <3>2 DEF Steps
    <3>4. ASSUME NEW q \in Paths PROVE PathThread(q)'
      <4>1. PathThread(q) /\ q \in Actors BY <1>3, <1>4, <2>3 DEF IInv, Roles
      <4>2. CASE q = a BY <4>1, <4>2, <1>1, <3>3 DEF PathThread
      <4>3. CASE q # a BY <4>1, <4>3, <1>1 DEF PathThread
      <4> QED BY <4>2, <4>3
    <3> QED BY <1>2, <1>3, <2>1, <2>3, <3>2, <3>3, <3>4 DEF IInv, Roles, Single
  <2> QED BY <1>3, <2>2, <2>3
<1>9. Replies' BY <1>1 DEF IInv, Replies
<1>10. Stored' BY <1>2 DEF IInv, Stored
<1>11. Asked'
  <2> SUFFICES ASSUME op.name = "get_many" PROVE Asked' BY <1>2 DEF Asked
  <2>1. \A q \in Paths : op.got[q] = "no" \/ work'[q].reply = "no" => q \in op.bare
    BY <1>1, <1>4 DEF IInv, Asked
  <2>2. ASSUME NEW n \in op.names
        PROVE  LET q == PathOf[n]
               IN q \in op.todo \/ op.got[q] # "unread" \/ work'[q].pc \notin {"idle", "done"}
    <3>1. PathOf[n] \in Paths BY OpOf, KvSessionAssumption DEF IInv
    <3> QED BY <3>1, <1>1, <1>3, <1>4 DEF IInv, Asked
  <2> QED BY <1>2, <1>3, <2>1, <2>2 DEF Asked
<1> QED BY <1>6, <1>7, <1>8, <1>9, <1>10, <1>11

(* The step a thread is at belongs to its operation.                        *)
LEMMA StepOf ==
    ASSUME IInv, NEW a \in Actors, work[a].pc \in {"flight", "reply"}
    PROVE  work[a].step \in Steps(op.name)
<1>1. op.name # "none" /\ op.result = "none" /\ (Single \/ op.name = "get_many")
      /\ (a # Main => op.name = "get_many" /\ PathThread(a))
  BY Engaged
<1>2. CASE Single BY <1>1, <1>2 DEF IInv, Roles, Single
<1>3. CASE op.name = "get_many"
  <2>1. work[Main].pc \in {"login", "granted", "batch"} BY <1>1, <1>3 DEF IInv, Roles
  <2> QED BY <1>1, <1>3, <2>1 DEF PathThread, Steps
<1> QED BY <1>1, <1>2, <1>3

LEMMA UnreachedInv == ASSUME IInv, NEW a \in Actors, Unreached(a) PROVE IInv'
<1> DEFINE w == [work[a] EXCEPT !.tries = @ + 1]
<1>1. work[a].pc = "flight" /\ UNCHANGED <<now, mount, store, issued, pool, holder, op>> /\ Moves(a, w)
      /\ work[a].tries < Attempts
  BY DEF Unreached, At
<1>2. w \in WorkType /\ w.pc = "flight" /\ w.token = work[a].token /\ w.started = work[a].started
      /\ w.step = work[a].step /\ w.reply = work[a].reply
  <2>1. work[a] \in WorkType /\ work[a].tries + 1 \in 1 .. Attempts
    BY <1>1, WorkOf, KvSessionAssumption DEF IInv
  <2> DEFINE t == work[a].tries + 1
  <2>2. t \in 1 .. Attempts /\ w = [work[a] EXCEPT !.tries = t] BY <2>1
  <2> HIDE DEF t, w
  <2> QED BY <1>1, <2>1, <2>2 DEF WorkType
<1> HIDE DEF w
<1>3. Stored' /\ Expires' /\ Destroys' /\ Asked' BY <1>1, <1>2, Onward
<1>4. TypeOK' /\ Roles' /\ Replies' /\ Budget' /\ Leases' BY <1>1, <1>2, StepOf, Continues
<1>5. Admitted'
  <2>1. /\ work'[a] = w /\ \A b \in Actors : b # a => work'[b] = work[b]
    BY <1>1, <1>2, MovesType DEF IInv
  <2>2. (Once' <=> Once) /\ (Twice' <=> Twice) BY <1>1 DEF Once, Twice, Usables, Usable
  <2> QED BY <1>1, <1>2, <2>1, <2>2, Constants DEF IInv, Admitted, Target
<1> QED BY <1>3, <1>4, <1>5 DEF IInv

LEMMA TimesOutInv == ASSUME IInv, NEW a \in Actors, TimesOut(a) PROVE IInv'
<1> DEFINE w == Retried(work[a])
<1>1. work[a].pc \in {"flight", "reply"} /\ UNCHANGED <<now, mount, store, issued, pool, holder>>
      /\ Moves(a, w) /\ work[a].tries < Attempts /\ op' = Disturbed
  BY DEF TimesOut, At
<1>2. w \in WorkType /\ w.pc = "claim" /\ w.reply = "none" /\ w.step = work[a].step
  <2>1. work[a] \in WorkType /\ work[a].tries + 1 \in 1 .. Attempts
    BY <1>1, WorkOf, KvSessionAssumption DEF IInv
  <2> QED BY <2>1 DEF WorkType, Retried
<1> HIDE DEF w
<1>3. /\ work'[a] = w /\ \A b \in Actors : b # a => work'[b] = work[b]
  BY <1>1, <1>2, MovesType DEF IInv
<1>4. TypeOK' /\ Roles' /\ Replies' /\ Budget' /\ Leases' /\ Stored' /\ Asked'
  BY <1>1, <1>2, StepOf, Continues
<1>5. op.result = "none" /\ Main \in Actors /\ (Single => a = Main)
  BY <1>1, Engaged, Constants DEF Single
<1>6. /\ op'.name = op.name /\ op'.path = op.path /\ op'.result = op.result /\ op'.touched = op.touched
      /\ op'.disturbed = (op.name = "set_expiring")
  BY <1>1, DisturbedType
<1>7. Expires'
  <2> SUFFICES ASSUME op.name = "set_expiring", ~op.touched PROVE Expires' BY <1>6 DEF Expires
  <2>1. a = Main BY <1>5 DEF Single
  <2>2. work[Main].step = "data" => Target.ttl BY <1>5 DEF IInv, Expires
  <2> QED BY <1>1, <1>2, <1>3, <1>5, <1>6, <2>1, <2>2 DEF Expires, Target
<1>8. Admitted' BY <1>6 DEF Admitted
<1>9. Destroys'
  <2> SUFFICES ASSUME op.name = "delete", ~op.touched PROVE Destroys' BY <1>6 DEF Destroys
  <2>1. a = Main BY <1>5 DEF Single
  <2> QED BY <1>2, <1>3, <1>5, <1>6, <2>1 DEF Destroys
<1> QED BY <1>4, <1>7, <1>8, <1>9 DEF IInv

(* An answer takes the operation to its next request or to its end.         *)
LEMMA AcceptInv == ASSUME IInv, NEW a \in Actors, Accept(a) PROVE IInv'
<1> DEFINE step == work[a].step
<1>1. work[a].pc = "reply" /\ work[a].reply # "error" /\ UNCHANGED <<now, mount, store, issued, pool, holder>>
  BY DEF Accept, At
<1>2. work[a].reply \in {"yes", "no"} /\ (work[a].reply = "no" => step \in {"read", "exists"})
  <2>1. work[a] \in WorkType BY WorkOf DEF IInv
  <2> QED BY <1>1, <2>1 DEF WorkType, IInv, Replies
<1>3. op.result = "none" /\ (Single \/ op.name = "get_many") /\ step \in Steps(op.name)
      /\ (a # Main => op.name = "get_many" /\ PathThread(a))
  BY <1>1, Engaged, StepOf
<1>4. op.name = "get_many" => a # Main
  BY <1>1, <1>3 DEF IInv, Roles
<1>5. Main \in Actors /\ (a # Main => a \in Paths) BY Constants
<1>6. holder # a BY <1>1, Constants DEF IInv, TypeOK
<1>7. CASE step = "read" /\ a # Main
  <2>1. Moves(a, [Idle EXCEPT !.pc = "done"]) /\ op' = [op EXCEPT !.got[a] = work[a].reply]
    BY <1>7 DEF Accept
  <2>2. work[a].reply = "no" => a \in op.bare BY <1>3, <1>5, <1>7 DEF IInv, Asked
  <2> QED BY <1>1, <1>2, <1>6, <1>7, <2>1, <2>2, PathAnswers
<1>8. CASE a = Main
  <2>1. Single /\ op.name # "get_many" BY <1>3, <1>4, <1>8
  <2>2. ASSUME NEW how \in {"yes", "no"}, Ends(how),
               op.name = "set_expiring" /\ ~op.touched => how = "yes" /\ Target.held /\ Target.dies # Never,
               op.name = "delete" /\ ~op.touched => Target = Bare
        PROVE  IInv'
    BY <1>1, <1>6, <1>8, <2>1, <2>2, MainEnds
  <2>3. CASE step = "read"
    <3>1. Ends(work[a].reply) BY <1>8, <2>3 DEF Accept
    <3>2. op.name \notin {"set_expiring", "delete"} BY <1>3, <2>3 DEF Steps
    <3> QED BY <3>1, <3>2, <1>2, <2>2
  <2>4. ASSUME NEW next \in {"data", "destroy"}, Moves(a, [After(a) EXCEPT !.step = next]), UNCHANGED op,
               next \in Steps(op.name),
               step = "policy" => next = "data",
               step = "exists" => next = "destroy",
               step \in {"policy", "exists"}
        PROVE  IInv'
    <3> DEFINE w == [After(a) EXCEPT !.step = next]
    <3>1. w \in WorkType /\ w.pc = "claim" /\ w.reply = "none" /\ w.step = next
      BY Records DEF WorkType, After, Idle
    <3>2. Moves(a, w) BY <2>4
    <3> HIDE DEF w
    <3>3. /\ work'[a] = w /\ \A b \in Actors : b # a => work'[b] = work[b]
      BY <3>1, <3>2, MovesType DEF IInv
    <3>4. TypeOK' /\ Roles' /\ Replies' /\ Budget' /\ Leases' /\ Stored' /\ Asked'
      BY <1>1, <2>4, <3>1, <3>2, Continues
    <3>5. step = "policy" => work[a].reply = "yes" BY <1>2
    <3>6. Expires'
      BY <1>1, <1>3, <1>8, <2>4, <3>1, <3>3, <3>5 DEF IInv, Expires, Target
    <3>7. Admitted'
      <4>1. Once' <=> Once BY <1>1 DEF Once, Usables, Usable
      <4>2. op.name = "set_expiring" => step = "policy" BY <1>3, <2>4 DEF Steps
      <4> QED BY <1>1, <1>3, <1>8, <2>4, <3>1, <3>3, <4>1, <4>2 DEF IInv, Admitted, Target
    <3>8. Destroys' BY <1>1, <1>3, <1>8, <2>4, <3>1, <3>3 DEF IInv, Destroys, Target
    <3> QED BY <3>4, <3>6, <3>7, <3>8 DEF IInv
  <2>5. CASE step = "policy"
    <3>1. Moves(a, [After(a) EXCEPT !.step = "data"]) /\ UNCHANGED op BY <1>8, <2>5 DEF Accept
    <3>2. "data" \in Steps(op.name) BY <1>3, <2>5 DEF Steps
    <3> QED BY <2>4, <2>5, <3>1, <3>2
  <2>6. CASE step = "exists" /\ work[a].reply = "yes"
    <3>1. Moves(a, [After(a) EXCEPT !.step = "destroy"]) /\ UNCHANGED op BY <1>8, <2>6 DEF Accept
    <3>2. "destroy" \in Steps(op.name) BY <1>3, <2>6 DEF Steps
    <3> QED BY <2>4, <2>6, <3>1, <3>2
  <2>7. CASE step = "exists" /\ work[a].reply = "no"
    <3>1. Ends("no") BY <1>8, <2>7 DEF Accept
    <3>2. op.name # "set_expiring" BY <1>3, <2>7 DEF Steps
    <3>3. op.name = "delete" /\ ~op.touched => Target = Bare
      BY <1>3, <1>8, <2>7 DEF IInv, Destroys
    <3> QED BY <3>1, <3>2, <3>3, <2>2
  <2>8. CASE step \in {"data", "destroy"}
    <3>1. Ends("yes") /\ work[a].reply = "yes" BY <1>2, <1>8, <2>8 DEF Accept
    <3>2. op.name = "set_expiring" /\ ~op.touched => Target.held /\ Target.dies # Never
      BY <1>3, <1>8, <2>8, <3>1 DEF IInv, Expires, Steps
    <3>3. op.name = "delete" /\ ~op.touched => Target = Bare
      BY <1>3, <1>8, <2>8, <3>1 DEF IInv, Destroys, Steps
    <3> QED BY <3>1, <3>2, <3>3, <2>2
  <2>9. step \in {"read", "data", "policy", "exists", "destroy"}
    <3>1. work[a] \in WorkType BY WorkOf DEF IInv
    <3> QED BY <3>1 DEF WorkType
  <2> QED BY <1>2, <2>3, <2>5, <2>6, <2>7, <2>8, <2>9
<1>9. a # Main => step = "read" BY <1>3 DEF PathThread
<1> QED BY <1>7, <1>8, <1>9

(* The batch: waves of threads, and their answers together.                 *)
LEMMA WaveInv == ASSUME IInv, NEW W \in SUBSET Paths, Wave(W) PROVE IInv'
<1> DEFINE w == [Idle EXCEPT !.pc = "claim"]
<1>1. /\ work[Main].pc = "batch" /\ W \subseteq op.todo
      /\ \A p \in Paths : work[p].pc \in {"idle", "done"}
      /\ work' = [a \in Actors |-> IF a \in W THEN w ELSE work[a]]
      /\ op' = [op EXCEPT !.todo = @ \ W]
      /\ UNCHANGED <<now, mount, store, issued, pool, holder>>
  BY DEF Wave, At
<1>2. w \in WorkType /\ w.pc = "claim" /\ w.step = "read" /\ w.reply = "none"
  BY Records DEF WorkType, Idle
<1> HIDE DEF w
<1>3. Main \in Actors /\ Paths \subseteq Actors /\ Main \notin Paths /\ Main \notin W
      /\ \A b \in Actors : b # Main => b \in Paths
  BY Constants
<1>4. /\ work' \in [Actors -> WorkType] /\ work'[Main] = work[Main]
      /\ \A p \in Paths : work'[p] = IF p \in W THEN w ELSE work[p]
  BY <1>1, <1>2, <1>3 DEF IInv, TypeOK
<1>5. op.name = "get_many" /\ op.result = "none"
  BY <1>1, <1>3, Engaged DEF IInv, Roles
<1>6. op' \in OpType /\ op'.name = op.name /\ op'.path = op.path /\ op'.names = op.names
      /\ op'.todo = op.todo \ W /\ op'.got = op.got /\ op'.result = op.result /\ op'.bare = op.bare
  BY <1>1 DEF IInv, TypeOK, OpType
<1>7. holder = Nobody BY <1>1, <1>3, Constants DEF IInv, TypeOK
<1>8. now \in Instants /\ now \in Nat BY Constants DEF IInv, TypeOK
<1>9. \A b \in Actors : work'[b].pc \in {"login", "granted", "flight"} => work'[b] = work[b]
  BY <1>2, <1>3, <1>4
<1>10. Budget' /\ Leases'
       /\ \A b \in Actors : work'[b].pc \in {"flight", "granted"} => work'[b].token \in DOMAIN issued'
  BY <1>1, <1>4, <1>8, <1>9, Quiet
<1>11. TypeOK' BY <1>1, <1>4, <1>6, <1>7, <1>10 DEF IInv, TypeOK
<1>12. Roles'
  <2>1. \A p \in Paths : PathThread(p)' BY <1>1, <1>2, <1>4, <1>5 DEF IInv, Roles, PathThread
  <2> QED BY <1>1, <1>3, <1>4, <1>5, <1>6, <1>7, <2>1, Constants DEF IInv, Roles, Resting, Single
<1>13. Replies' BY <1>1, <1>2, <1>3, <1>4 DEF IInv, Replies
<1>14. Stored' /\ Expires' /\ Admitted' /\ Destroys'
  BY <1>1, <1>5, <1>6 DEF IInv, Stored, Expires, Admitted, Destroys
<1>15. Asked'
  <2>1. \A p \in Paths : op.got[p] = "no" \/ work'[p].reply = "no" => p \in op.bare
    BY <1>2, <1>4, <1>5 DEF IInv, Asked
  <2>2. ASSUME NEW n \in op.names
        PROVE  LET p == PathOf[n]
               IN p \in op.todo \ W \/ op.got[p] # "unread" \/ work'[p].pc \notin {"idle", "done"}
    <3>1. PathOf[n] \in Paths BY OpOf, KvSessionAssumption DEF IInv
    <3> QED BY <3>1, <1>2, <1>4, <1>5 DEF IInv, Asked
  <2> QED BY <1>5, <1>6, <2>1, <2>2 DEF Asked
<1> QED BY <1>10, <1>11, <1>12, <1>13, <1>14, <1>15 DEF IInv

LEMMA CollectInv == ASSUME IInv, Collect PROVE IInv'
<1> DEFINE result == IF Failed THEN "failed" ELSE "yes"
           answer == {n \in op.names : op.got[PathOf[n]] = "yes"}
<1>1. /\ work[Main].pc = "batch" /\ op.todo = {}
      /\ \A p \in Paths : work[p].pc \in {"idle", "done"}
      /\ work' = [a \in Actors |-> Idle]
      /\ op' = [op EXCEPT !.result = result, !.answer = answer]
      /\ UNCHANGED <<now, mount, store, issued, pool, holder>>
  BY DEF Collect, At
<1>2. Main \in Actors /\ Paths \subseteq Actors /\ \A b \in Actors : b # Main => b \in Paths BY Constants
<1>3. work' \in [Actors -> WorkType] /\ \A b \in Actors : work'[b] = Idle BY <1>1, Records
<1>4. op.name = "get_many" /\ op.result = "none" BY <1>1, <1>2, Engaged DEF IInv, Roles
<1>5. op.names \subseteq Names /\ answer \subseteq Names BY OpOf DEF IInv
<1>6. ~Failed => \A n \in op.names \ answer : PathOf[n] \in op.bare
  <2> SUFFICES ASSUME ~Failed, NEW n \in op.names \ answer PROVE PathOf[n] \in op.bare OBVIOUS
  <2>1. PathOf[n] \in Paths BY <1>5, KvSessionAssumption
  <2>2. op.got[PathOf[n]] \notin {"failed", "yes"} BY DEF Failed
  <2>3. op.got[PathOf[n]] # "unread" BY <1>1, <1>4, <2>1 DEF IInv, Asked
  <2>4. op.got[PathOf[n]] = "no" BY <2>1, <2>2, <2>3, OpOf DEF IInv
  <2> QED BY <1>4, <2>1, <2>4 DEF IInv, Asked
<1>7. result \in {"failed", "yes"} /\ (result = "yes" => ~Failed) OBVIOUS
<1> HIDE DEF result, answer
<1>8. op' \in OpType /\ op'.name = op.name /\ op'.path = op.path /\ op'.names = op.names
      /\ op'.got = op.got /\ op'.result = result /\ op'.answer = answer /\ op'.bare = op.bare
  BY <1>1, <1>5, <1>7 DEF IInv, TypeOK, OpType
<1>9. holder = Nobody BY <1>1, <1>2, Constants DEF IInv, TypeOK
<1>10. now \in Instants /\ now \in Nat BY Constants DEF IInv, TypeOK
<1>11. Budget' /\ Leases'
       /\ \A b \in Actors : work'[b].pc \in {"flight", "granted"} => work'[b].token \in DOMAIN issued'
  BY <1>1, <1>3, <1>10, Quiet DEF Idle
<1>12. TypeOK' BY <1>1, <1>3, <1>8, <1>9, <1>11 DEF IInv, TypeOK
<1>13. Roles' BY <1>1, <1>2, <1>3, <1>4, <1>7, <1>8, <1>9, Constants DEF IInv, Roles, Resting, Single, Idle
<1>14. Replies' BY <1>3 DEF Replies, Idle
<1>15. Stored' /\ Expires' /\ Admitted' /\ Destroys'
  BY <1>1, <1>4, <1>8 DEF IInv, Stored, Expires, Admitted, Destroys
<1>16. Asked' BY <1>2, <1>3, <1>4, <1>6, <1>7, <1>8 DEF IInv, Asked, Idle
<1> QED BY <1>11, <1>12, <1>13, <1>14, <1>15, <1>16 DEF IInv

LEMMA ReturnInv == ASSUME IInv, Return PROVE IInv'
<1>1. /\ op.result # "none" /\ op' = NoOp /\ issued' = <<>> /\ pool' = <<>>
      /\ UNCHANGED <<now, mount, store, holder, work>>
  BY DEF Return
<1>2. holder = Nobody /\ \A a \in Actors : work[a] = Idle BY <1>1 DEF IInv, Roles, Resting
<1>3. op'.name = "none" /\ op'.result = "none" /\ op' \in OpType BY <1>1, Records DEF NoOp
<1>4. Main \in Actors /\ Paths \subseteq Actors /\ Nobody # Main BY Constants
<1>5. pool' \in Seq(Token) /\ issued' \in Seq([uses : Int, expires : Nat])
      /\ DOMAIN pool' = {} /\ DOMAIN issued' = {} /\ Len(pool') <= 1
  BY <1>1
<1>6. TypeOK' BY <1>1, <1>2, <1>3, <1>5 DEF IInv, TypeOK, Idle
<1>7. Roles' BY <1>1, <1>2, <1>3, <1>4 DEF Roles, Resting, Single, Idle
<1>8. Replies' /\ Stored' /\ Expires' /\ Admitted' /\ Destroys' /\ Asked'
  BY <1>1, <1>3 DEF IInv, Replies, Stored, Expires, Admitted, Destroys, Asked
<1>9. Budget' /\ Leases' BY <1>1, <1>2, <1>5 DEF Budget, Leases, Idle
<1> QED BY <1>6, <1>7, <1>8, <1>9 DEF IInv

LEMMA TickInv == ASSUME IInv, Tick PROVE IInv'
<1>1. now' \in Instants /\ now' > now /\ UNCHANGED <<mount, store, issued, pool, holder, work>>
      /\ op' = IF Running THEN Disturbed ELSE op
  BY DEF Tick
<1>2. now \in Nat /\ now' \in Nat /\ now <= now' BY <1>1, Constants DEF IInv, TypeOK
<1>3. op' \in OpType /\ op'.name = op.name /\ op'.path = op.path /\ op'.names = op.names
      /\ op'.todo = op.todo /\ op'.got = op.got /\ op'.result = op.result /\ op'.answer = op.answer
      /\ op'.before = op.before /\ op'.touched = op.touched /\ op'.bare = op.bare
      /\ (op'.disturbed = op.disturbed \/ (op.name = "set_expiring" => op'.disturbed))
      /\ (Running => op'.disturbed = (op.name = "set_expiring")) /\ (~Running => op' = op)
  BY <1>1, DisturbedType DEF IInv, TypeOK
<1>4. Budget' /\ Leases'
      /\ \A b \in Actors : work'[b].pc \in {"flight", "granted"} => work'[b].token \in DOMAIN issued'
  BY <1>1, <1>2, Quiet DEF IInv, TypeOK
<1>5. TypeOK' BY <1>1, <1>3, <1>4 DEF IInv, TypeOK
<1>6. Roles'
  <2>1. op.name = "none" => op' = NoOp BY <1>3 DEF IInv, Roles, Running
  <2>2. \A p \in Paths : PathThread(p) <=> PathThread(p)' BY <1>1 DEF PathThread
  <2> QED BY <1>1, <1>3, <2>1, <2>2 DEF IInv, Roles, Resting, Single
<1>7. Replies' /\ Stored' BY <1>1, <1>3 DEF IInv, Replies, Stored
<1>8. Expires' /\ Destroys' /\ Asked'
  BY <1>1, <1>3 DEF IInv, Expires, Destroys, Asked, Target
<1>9. Admitted' BY <1>1, <1>3 DEF IInv, Admitted, Target, Running
<1> QED BY <1>4, <1>5, <1>6, <1>7, <1>8, <1>9 DEF IInv

LEMMA ElsewhereInv == ASSUME IInv, NEW p \in Paths, Elsewhere(p) PROVE IInv'
<1>1. /\ Running /\ op.name \in {"set_expiring", "delete"}
      /\ op' = [op EXCEPT !.touched = TRUE] /\ UNCHANGED <<now, mount, issued, pool, holder, work>>
  BY DEF Elsewhere
<1>2. PICK e \in {Bare, WithValue(store[p])} : store' = [store EXCEPT ![p] = e]
  BY DEF Elsewhere, WithValue
<1>3. now \in Nat /\ now \in Instants /\ now + MaxAge \in Nat /\ Never \in Nat
  BY Constants DEF IInv, TypeOK
<1>4. store[p] \in Entry BY DEF IInv, TypeOK
<1>5. WithValue(store[p]) \in Entry /\ WithValue(store[p]).meta /\ WithValue(store[p]).held
      /\ WithValue(store[p]).ttl = store[p].ttl
      /\ WithValue(store[p]).dies = IF store[p].ttl THEN now + MaxAge ELSE Never
  BY <1>3, <1>4 DEF WithValue, Entry
<1>6. store' \in [Paths -> Entry] /\ store'[p] = e /\ \A q \in Paths : q # p => store'[q] = store[q]
  BY <1>2, <1>5, Records DEF IInv, TypeOK
<1>7. op' \in OpType /\ op'.name = op.name /\ op'.path = op.path /\ op'.names = op.names
      /\ op'.todo = op.todo /\ op'.got = op.got /\ op'.result = op.result /\ op'.touched
  BY <1>1 DEF IInv, TypeOK, OpType
<1>8. Budget' /\ Leases'
      /\ \A b \in Actors : work'[b].pc \in {"flight", "granted"} => work'[b].token \in DOMAIN issued'
  BY <1>1, <1>3, Quiet DEF IInv, TypeOK
<1>9. TypeOK' BY <1>1, <1>6, <1>7, <1>8 DEF IInv, TypeOK
<1>10. Roles'
  <2>1. \A q \in Paths : PathThread(q) <=> PathThread(q)' BY <1>1 DEF PathThread
  <2> QED BY <1>1, <1>7, <2>1 DEF IInv, Roles, Resting, Single, Running
<1>11. Replies' BY <1>1 DEF IInv, Replies
<1>12. Stored'
  <2>1. Bare.ttl = FALSE BY DEF Bare
  <2> QED BY <1>1, <1>2, <1>5, <1>6, <1>7, <2>1 DEF IInv, Stored
<1>13. Expires' /\ Admitted' /\ Destroys' /\ Asked'
  BY <1>1, <1>7 DEF Expires, Admitted, Destroys, Asked
<1> QED BY <1>8, <1>9, <1>10, <1>11, <1>12, <1>13 DEF IInv

(* An operation begins: refused outright, with a configured token, or with  *)
(* a login of its own.                                                      *)
LEMMA BeginInv ==
    ASSUME IInv, NEW name \in {"get", "set", "set_expiring", "delete", "get_many"},
           NEW p \in Paths, NEW N \in SUBSET Names, Begin(name, p, N)
    PROVE  IInv'
<1> DEFINE refused == N \cap Invalid # {} \/ (name = "set_expiring" /\ mount.kv = 1)
           before == IF name = "set_expiring" THEN store[p] ELSE Bare
           todo == {PathOf[n] : n \in N}
           o == [NoOp EXCEPT !.name = name, !.path = p, !.names = N, !.todo = todo, !.before = before]
           v == [Idle EXCEPT !.step = Request(name)]
           static == [v EXCEPT !.pc = FirstStep(name)]
           login == LogsIn(v, FirstStep(name))
<1>1. op = NoOp /\ UNCHANGED <<now, mount, store, holder>> BY DEF Begin
<1>2. op.name = "none" /\ pool = <<>> /\ issued = <<>> /\ holder = Nobody
      /\ \A a \in Actors : work[a] = Idle
  BY <1>1 DEF NoOp, IInv, Roles, Resting
<1>3. Main \in Actors /\ Paths \subseteq Actors /\ (\A b \in Actors : b # Main => b \in Paths)
      /\ Main \notin Paths /\ Nobody # Main /\ Nobody \notin Actors
  BY Constants
<1>4. now \in Instants /\ now \in Nat /\ Never \in Nat /\ Unlimited \in Nat
  BY Constants DEF IInv, TypeOK
<1>5. todo \subseteq Paths BY KvSessionAssumption
<1>6. before \in Entry BY Records DEF IInv, TypeOK
<1> HIDE DEF todo, before
<1>7. o \in OpType /\ o.name = name /\ o.path = p /\ o.names = N /\ o.todo = todo /\ o.before = before
      /\ o.result = "none" /\ ~o.disturbed /\ ~o.touched /\ o.bare = {} /\ o.answer = {}
      /\ (\A q \in Paths : o.got[q] = "unread")
      /\ [o EXCEPT !.result = "refused"] \in OpType /\ [o EXCEPT !.result = "refused"].name = name
      /\ [o EXCEPT !.result = "refused"].result = "refused"
      /\ [o EXCEPT !.result = "refused"].got = o.got
  BY <1>5, <1>6, Records DEF OpType, NoOp
<1>8. Request(name) \in Steps(name) /\ Request(name) \in {"read", "data", "policy", "exists"}
      /\ (name = "set_expiring" => Request(name) = "policy")
      /\ FirstStep(name) \in {"claim", "ensure", "batch"}
      /\ (name = "get_many" <=> FirstStep(name) = "batch")
      /\ (name = "set_expiring" <=> FirstStep(name) = "ensure")
  BY DEF Request, Steps, FirstStep
<1> HIDE DEF o
<1>9. v \in WorkType /\ v.step = Request(name) /\ v.reply = "none" /\ v.token = 0
  BY <1>8, Records DEF WorkType, Idle
<1> HIDE DEF v
<1>10. /\ static \in WorkType /\ static.pc = FirstStep(name) /\ static.step = Request(name)
       /\ static.reply = "none"
  BY <1>8, <1>9 DEF WorkType
<1>11. /\ login \in WorkType /\ login.pc = "login" /\ login.then = FirstStep(name)
       /\ login.step = Request(name) /\ login.reply = "none" /\ login.started = now
  BY <1>4, <1>8, <1>9 DEF WorkType, LogsIn
<1> HIDE DEF static, login
<1>12. CASE refused /\ op' = [o EXCEPT !.result = "refused"] /\ UNCHANGED <<issued, pool, work>>
  <2>1. op'.name = name /\ op'.result = "refused" /\ op' \in OpType /\ op'.got = o.got
    BY <1>7, <1>12
  <2>2. Budget' /\ Leases'
        /\ \A b \in Actors : work'[b].pc \in {"flight", "granted"} => work'[b].token \in DOMAIN issued'
    BY <1>1, <1>4, <1>12, Quiet DEF IInv, TypeOK
  <2>3. TypeOK' BY <1>1, <1>12, <2>1, <2>2 DEF IInv, TypeOK
  <2>4. Roles' BY <1>1, <1>2, <1>3, <1>12, <2>1 DEF Roles, Resting, Single, Idle
  <2>5. Replies' /\ Stored' BY <1>1, <1>12, <2>1 DEF IInv, Replies, Stored
  <2>6. Expires' /\ Admitted' /\ Destroys' BY <2>1 DEF Expires, Admitted, Destroys
  <2>7. Asked' BY <1>2, <1>3, <1>7, <1>12, <2>1 DEF Asked, Idle
  <2> QED BY <2>2, <2>3, <2>4, <2>5, <2>6, <2>7 DEF IInv
<1>13. ASSUME op' = o, ~refused, NEW w \in WorkType, Moves(Main, w),
              w.step = Request(name), w.reply = "none",
              \/ /\ w.pc = FirstStep(name)
                 /\ issued' = <<[uses |-> Unlimited, expires |-> Never]>>
                 /\ pool' = <<[id |-> 1, uses |-> Unlimited, until |-> Never]>>
              \/ w.pc = "login" /\ w.then = FirstStep(name) /\ w.started = now /\ UNCHANGED <<issued, pool>>
       PROVE  IInv'
  <2>1. /\ work' \in [Actors -> WorkType] /\ work'[Main] = w
        /\ \A q \in Paths : work'[q] = Idle
    BY <1>2, <1>3, <1>13, MovesType DEF IInv
  <2>2. w.pc \in {"login", "claim", "ensure", "batch"} BY <1>8, <1>13
  <2>3. \A a \in Actors : work'[a].pc \notin {"flight", "granted", "reply"}
    BY <1>3, <2>1, <2>2 DEF Idle
  <2>5. /\ issued' \in Seq([uses : Int, expires : Nat]) /\ pool' \in Seq(Token)
        /\ Len(pool') <= 1 /\ (\A i \in DOMAIN pool' : i = 1 /\ pool'[i].id \in DOMAIN issued')
        /\ \A i \in DOMAIN issued' : issued'[i].uses = Unlimited
        /\ \A i \in DOMAIN pool' : pool'[i].until = Never /\ issued'[pool'[i].id].expires = Never
    <3>1. CASE issued' = issued /\ pool' = pool BY <3>1, <1>2
    <3>2. CASE /\ issued' = <<[uses |-> Unlimited, expires |-> Never]>>
               /\ pool' = <<[id |-> 1, uses |-> Unlimited, until |-> Never]>>
      <4>1. [uses |-> Unlimited, expires |-> Never] \in [uses : Int, expires : Nat]
            /\ [id |-> 1, uses |-> Unlimited, until |-> Never] \in Token
        BY <1>4 DEF Token
      <4>2. DOMAIN issued' = {1} /\ DOMAIN pool' = {1} /\ Len(pool') = 1 BY <3>2
      <4>3. issued' \in Seq([uses : Int, expires : Nat]) /\ pool' \in Seq(Token) BY <3>2, <4>1
      <4> QED BY <3>2, <4>2, <4>3
    <3> QED BY <1>13, <3>1, <3>2
  <2>6. w.pc = "login" => pool' = <<>> BY <1>2, <1>8, <1>13
  <2>7. op' \in OpType /\ op'.name = name /\ op'.path = p /\ op'.names = N /\ op'.todo = todo
        /\ op'.before = before /\ op'.result = "none"
        /\ op'.bare = {} /\ (\A q \in Paths : op'.got[q] = "unread")
    BY <1>7, <1>13
  <2>8. TypeOK' BY <1>1, <1>2, <2>1, <2>3, <2>5, <2>7 DEF IInv, TypeOK
  <2>9. Roles'
    <3>1. ~Resting' BY <2>7 DEF Resting
    <3>2. CASE name = "get_many"
      <4>1. w.pc \in {"login", "batch"} /\ (w.pc = "login" => w.then = "batch") BY <3>2, <1>8, <1>13
      <4>2. \A q \in Paths : PathThread(q)' BY <2>1 DEF PathThread, Idle
      <4> QED BY <1>1, <1>2, <1>3, <2>1, <2>5, <2>6, <2>7, <3>1, <3>2, <4>1, <4>2 DEF Roles, Single, Idle
    <3>3. CASE name # "get_many"
      <4>1. w.pc \in {"login", "claim", "ensure"}
            /\ (w.pc = "login" => w.then \in {"claim", "ensure"})
        BY <3>3, <1>8, <1>13
      <4> QED BY <1>1, <1>2, <1>3, <1>8, <1>13, <2>1, <2>7, <3>1, <3>3, <4>1 DEF Roles, Single
    <3> QED BY <3>2, <3>3
  <2>10. Replies' BY <2>3 DEF Replies
  <2>11. Budget' BY <1>4, <2>3, <2>5 DEF Budget
  <2>12. Leases'
    <3>1. \A a \in Actors : work'[a].pc = "login" => work'[a].started = now
      BY <1>3, <1>8, <1>13, <2>1 DEF Idle
    <3> QED BY <1>1, <1>4, <2>3, <2>5, <3>1 DEF Leases
  <2>13. Stored'
    <3>1. name = "set_expiring" => mount.kv = 2 BY <1>13 DEF IInv, TypeOK
    <3> QED BY <1>1, <2>7, <3>1 DEF IInv, Stored
  <2>14. Expires' /\ Destroys'
    BY <1>1, <1>8, <1>13, <2>1, <2>7 DEF Expires, Destroys, Target, Steps
  <2>15. Admitted'
    <3>1. name = "set_expiring" => store[p] = before BY DEF before
    <3> QED BY <1>1, <1>8, <1>13, <2>1, <2>7, <3>1 DEF Admitted, Target
  <2>16. Asked'
    <3>1. \A n \in N : PathOf[n] \in todo BY DEF todo
    <3> QED BY <2>1, <2>7, <3>1 DEF Asked, Idle
  <2> QED BY <2>8, <2>9, <2>10, <2>11, <2>12, <2>13, <2>14, <2>15, <2>16 DEF IInv
<1>14. CASE ~refused /\ op' = o /\ Moves(Main, static)
            /\ issued' = <<[uses |-> Unlimited, expires |-> Never]>>
            /\ pool' = <<[id |-> 1, uses |-> Unlimited, until |-> Never]>>
  BY <1>10, <1>13, <1>14
<1>15. CASE ~refused /\ op' = o /\ Moves(Main, login) /\ UNCHANGED <<issued, pool>>
  BY <1>11, <1>13, <1>15
<1> QED BY <1>12, <1>14, <1>15 DEF Begin, o, v, static, login, todo, before

LEMMA InitInv == ASSUME Init PROVE IInv
<1>1. /\ now = 0 /\ issued = <<>> /\ pool = <<>> /\ holder = Nobody /\ op = NoOp
      /\ work = [a \in Actors |-> Idle] /\ store \in [Paths -> {Bare} \cup Entries]
      /\ mount \in [kv : {1, 2}, auth : {"static", "login"}, left : 0..MaxLogins, grant : Grants]
      /\ mount.kv = 1 => \A p \in Paths : store[p].dies = Never
  BY DEF Init
<1>2. Never \in Nat /\ MaxAge \in Nat /\ 0 \in Instants /\ 0 # Never /\ MaxAge # Never /\ Nobody \notin Actors
      /\ Main \in Actors /\ Paths \subseteq Actors
  BY Constants
<1>3. \A e \in Entries : e \in Entry /\ e.meta /\ e.held /\ (e.ttl <=> e.dies # Never)
  <2> SUFFICES ASSUME NEW d \in {0, MaxAge, Never},
                      NEW e, e = [Bare EXCEPT !.meta = TRUE, !.ttl = (d # Never), !.held = TRUE, !.dies = d]
               PROVE  e \in Entry /\ e.meta /\ e.held /\ (e.ttl <=> e.dies # Never)
    BY DEF Entries
  <2> DEFINE ttl == d # Never
  <2>1. ttl \in BOOLEAN /\ d \in Nat BY <1>2
  <2>2. e = [Bare EXCEPT !.meta = TRUE, !.ttl = ttl, !.held = TRUE, !.dies = d] OBVIOUS
  <2> HIDE DEF ttl
  <2>3. e \in Entry /\ e.meta /\ e.held /\ e.ttl = ttl /\ e.dies = d
    BY <2>1, <2>2, Records DEF Entry
  <2> QED BY <2>3 DEF ttl
<1>4. op.name = "none" /\ op.result = "none" BY <1>1 DEF NoOp
<1>5. \A a \in Actors : work[a] = Idle BY <1>1
<1>6. store \in [Paths -> Entry] BY <1>1, <1>3, Records
<1>7. TypeOK BY <1>1, <1>2, <1>5, <1>6, Records DEF TypeOK, Idle
<1>8. Roles /\ Replies BY <1>1, <1>2, <1>4, <1>5 DEF Roles, Replies, Resting, Single, Idle
<1>9. Budget /\ Leases BY <1>1, <1>5 DEF Budget, Leases, Idle
<1>10. Stored BY <1>1, <1>3, <1>4 DEF Stored
<1>11. Expires /\ Admitted /\ Destroys /\ Asked BY <1>4 DEF Expires, Admitted, Destroys, Asked
<1> QED BY <1>7, <1>8, <1>9, <1>10, <1>11 DEF IInv

LEMMA NextInv == ASSUME IInv, [Next]_vars PROVE IInv'
<1>1. CASE UNCHANGED vars
  <2> USE <1>1 DEF vars
  <2>1. TypeOK' BY DEF IInv, TypeOK
  <2>2. Roles'
    <3>1. \A p \in Paths : PathThread(p) <=> PathThread(p)' BY DEF PathThread
    <3> QED BY <3>1 DEF IInv, Roles, Resting, Single
  <2>3. Budget' /\ Leases' BY Quiet, Constants DEF IInv, TypeOK
  <2>4. Replies' /\ Stored' /\ Expires' /\ Destroys' /\ Asked'
    BY DEF IInv, Replies, Stored, Expires, Destroys, Asked, Target
  <2>5. Admitted' BY DEF IInv, Admitted, Target, Once, Twice, Usables, Usable
  <2> QED BY <2>1, <2>2, <2>3, <2>4, <2>5 DEF IInv
<1>2. ASSUME NEW p \in Targets, NEW name \in {"get", "set", "set_expiring", "delete"}, Begin(name, p, {})
      PROVE  IInv'
  <2>1. p \in Paths /\ {} \in SUBSET Names BY KvSessionAssumption
  <2> QED BY <1>2, <2>1, BeginInv
<1>3. ASSUME NEW N \in Batches, Begin("get_many", PathOf[CHOOSE n \in N : TRUE], N) PROVE IInv'
  <2>1. N \in SUBSET Names /\ N # {} BY KvSessionAssumption
  <2>2. PathOf[CHOOSE n \in N : TRUE] \in Paths BY <2>1, KvSessionAssumption
  <2> QED BY <1>3, <2>1, <2>2, BeginInv
<1>4. ASSUME NEW a \in Actors,
             \/ Grant(a) \/ Admit(a) \/ LoginFails(a) \/ Claim(a) \/ Serve(a)
             \/ Unreached(a) \/ TimesOut(a) \/ RequestFails(a) \/ Accept(a)
      PROVE  IInv'
  BY <1>4, GrantInv, AdmitInv, LoginFailsInv, ClaimInv, ServeInv, UnreachedInv, TimesOutInv,
     RequestFailsInv, AcceptInv
<1>5. CASE Ensure BY <1>5, EnsureInv
<1>6. CASE EnsureFails BY <1>6, EnsureFailsInv
<1>7. CASE \E W \in SUBSET Paths : Wave(W) BY <1>7, WaveInv
<1>8. CASE Collect BY <1>8, CollectInv
<1>9. CASE Return BY <1>9, ReturnInv
<1>10. CASE Tick BY <1>10, TickInv
<1>11. CASE \E p \in Paths : Elsewhere(p) BY <1>11, ElsewhereInv
<1> QED BY <1>1, <1>2, <1>3, <1>4, <1>5, <1>6, <1>7, <1>8, <1>9, <1>10, <1>11 DEF Next

LEMMA SpecInv == Spec => []IInv
<1>1. Init => IInv BY InitInv
<1>2. IInv /\ [Next]_vars => IInv' BY NextInv
<1> QED BY <1>1, <1>2, PTL DEF Spec
-----------------------------------------------------------------------------
(* The variables keep their types; tokens in use are ones the server issued *)
(* and the pool is locked only by a thread that logs in.                    *)
THEOREM TypeCorrect == Spec => []TypeOK
<1>1. IInv => TypeOK BY DEF IInv
<1> QED BY <1>1, SpecInv, PTL

(* For any paths, width, retries and grants: however its threads share      *)
(* them, a session spends no more of a token than the server allows, and a  *)
(* batch never holds two tokens it could use (vault_common.rs, TokenPool).  *)
THEOREM Sharing == Spec => []TokensAreShared
<1>1. ASSUME IInv PROVE WithinBudget
  <2> SUFFICES ASSUME NEW i \in DOMAIN issued PROVE issued[i].uses >= 0 BY DEF WithinBudget
  <2>1. issued \in Seq([uses : Int, expires : Nat]) BY <1>1 DEF IInv, TypeOK
  <2>2. issued[i] \in [uses : Int, expires : Nat] BY <2>1, Element
  <2>3. IsFiniteSet(InFlight(i))
    <3>1. InFlight(i) \subseteq Actors BY DEF InFlight
    <3> QED BY <3>1, Constants, FS_Subset
  <2>4. Cardinality(InFlight(i)) \in Nat BY <2>3, FS_CardinalityType
  <2>5. issued[i].uses = Unlimited \/ Cardinality(InFlight(i)) <= issued[i].uses
    BY <1>1 DEF IInv, Budget
  <2> QED BY <2>2, <2>4, <2>5, Constants
<1>2. ASSUME IInv PROVE OneLoginServesAll
  <2> SUFFICES ASSUME op.name = "get_many"
               PROVE  Cardinality({i \in DOMAIN pool : Usable(pool[i])}) <= 1
    BY DEF OneLoginServesAll
  <2> DEFINE U == {i \in DOMAIN pool : Usable(pool[i])}
  <2>1. pool \in Seq(Token) /\ Len(pool) <= 1 BY <1>2 DEF IInv, TypeOK, Roles
  <2>2. U \subseteq {1}
    <3>1. \A i \in DOMAIN pool : i = 1 BY <2>1
    <3> QED BY <3>1
  <2>3. IsFiniteSet({1}) /\ Cardinality({1}) = 1 BY FS_Singleton
  <2>4. Cardinality(U) <= Cardinality({1}) BY <2>2, <2>3, FS_Subset
  <2> QED BY <2>3, <2>4
<1>3. IInv => TokensAreShared BY <1>1, <1>2 DEF TokensAreShared
<1> QED BY <1>3, SpecInv, PTL

(* A claim takes a token whose lease still runs at the server, wherever     *)
(* between request and response it began (vault_common.rs, `claim_token`).  *)
LEMMA OnlyClaims ==
    ASSUME IInv, Next, NEW a \in Actors, work[a].pc = "claim", work'[a].pc = "flight"
    PROVE  Claim(a)
<1>1. Main \in Actors /\ Paths \subseteq Actors /\ work \in [Actors -> WorkType] /\ Idle.pc = "idle"
  BY Constants DEF IInv, TypeOK, Idle
<1>2. op.name # "none" /\ op.result = "none" BY Engaged
<1>3. ASSUME NEW b \in Actors, NEW w, Moves(b, w) PROVE b = a
  BY <1>1, <1>3 DEF Moves
<1>4. ASSUME NEW how, Ends(how) PROVE FALSE
  <2>1. work' = [work EXCEPT ![Main] = Idle] BY <1>4 DEF Ends
  <2> QED BY <1>1, <2>1
<1>5. ASSUME NEW b \in Actors, NEW how, Fails(b, how) PROVE b = a
  BY <1>3, <1>4, <1>5 DEF Fails
<1>6. ASSUME NEW b \in Actors, Grant(b) \/ Admit(b) \/ LoginFails(b) PROVE FALSE
  <2>1. b = a BY <1>3, <1>5, <1>6 DEF Grant, Admit, LoginFails
  <2> QED BY <1>6, <2>1 DEF Grant, Admit, LoginFails, At
<1>7. ASSUME NEW b \in Actors, Serve(b) PROVE FALSE
  <2>1. work[b].pc = "flight" /\ \E w : Moves(b, w) BY <1>7, ServeOutcome
  <2> QED BY <1>3, <2>1
<1>8. ASSUME NEW b \in Actors, Unreached(b) \/ TimesOut(b) \/ RequestFails(b) PROVE FALSE
  <2>1. b = a BY <1>3, <1>5, <1>8 DEF Unreached, TimesOut, RequestFails
  <2> QED BY <1>8, <2>1 DEF Unreached, TimesOut, RequestFails, At
<1>9. ASSUME NEW b \in Actors, Accept(b) PROVE FALSE
  <2>1. work[b].pc = "reply" BY <1>9 DEF Accept, At
  <2>2. (\E w : Moves(b, w)) \/ (\E how : Ends(how)) BY <1>9 DEF Accept
  <2> QED BY <1>3, <1>4, <2>1, <2>2
<1>10. ASSUME NEW b \in Actors, Claim(b) PROVE b = a
  BY <1>3, <1>10 DEF Claim, Takes
<1>11. ~Ensure /\ ~EnsureFails
  <2>1. Ensure \/ EnsureFails => a = Main BY <1>1, <1>3, <1>5 DEF Ensure, EnsureFails
  <2> QED BY <2>1 DEF Ensure, EnsureFails, At
<1>12. ASSUME NEW W \in SUBSET Paths, Wave(W) PROVE FALSE
  <2>1. work'[a] = [Idle EXCEPT !.pc = "claim"] \/ work'[a] = work[a] BY <1>12 DEF Wave
  <2> QED BY <2>1 DEF Idle
<1>13. ~Collect /\ ~Return /\ ~Tick /\ \A p \in Paths : ~Elsewhere(p)
  BY <1>1, <1>2 DEF Collect, Return, Tick, Elsewhere
<1>14. \A name, p, N : ~Begin(name, p, N) BY <1>2 DEF Begin, NoOp
<1> QED BY <1>6, <1>7, <1>8, <1>9, <1>10, <1>11, <1>12, <1>13, <1>14 DEF Next

THEOREM Claiming == Spec => ClaimsAreLive
<1>1. ASSUME IInv, [Next]_vars
      PROVE  [\A a \in Actors :
                At(a, "claim") /\ work'[a].pc = "flight" /\ mount.grant.saysLease =>
                  now < issued[work'[a].token].expires]_vars
  <2> SUFFICES ASSUME Next, NEW a \in Actors, work[a].pc = "claim", work'[a].pc = "flight",
                      mount.grant.saysLease
               PROVE  now < issued[work'[a].token].expires
    BY <1>1 DEF At
  <2>1. Claim(a) BY <1>1, OnlyClaims
  <2>2. work \in [Actors -> WorkType] /\ pool \in Seq(Token) BY <1>1 DEF IInv, TypeOK
  <2>3. ~Moves(a, LogsIn(work[a], "claim"))
    <3>1. work[a] \in WorkType BY <2>2
    <3>2. LogsIn(work[a], "claim").pc = "login" BY <3>1 DEF LogsIn, WorkType
    <3> QED BY <2>2, <3>2 DEF Moves
  <2>4. PICK i \in Usables(pool) : Takes(a, i) BY <2>1, <2>3 DEF Claim, Foremost
  <2>5. work'[a].token = pool[i].id
    <3>1. work[a] \in WorkType /\ work'[a] = [work[a] EXCEPT !.pc = "flight", !.token = pool[i].id]
      BY <2>2, <2>4 DEF Takes, Moves
    <3> QED BY <3>1 DEF WorkType
  <2>6. i \in DOMAIN pool /\ now < pool[i].until /\ pool[i].until \in Nat BY <2>2, UsablesType
  <2>7. pool[i].until <= issued[pool[i].id].expires BY <1>1, <2>6 DEF IInv, Leases
  <2>8. issued[pool[i].id].expires \in Nat
    <3>1. issued \in Seq([uses : Int, expires : Nat]) /\ pool[i].id \in DOMAIN issued
      BY <1>1, <2>6 DEF IInv, TypeOK
    <3>2. issued[pool[i].id] \in [uses : Int, expires : Nat] BY <3>1, Element
    <3> QED BY <3>2
  <2>9. now \in Nat BY <1>1, Constants DEF IInv, TypeOK
  <2> QED BY <2>5, <2>6, <2>7, <2>8, <2>9
<1> QED BY <1>1, SpecInv, PTL DEF Spec, ClaimsAreLive

(* A write with a maximum age leaves a value that will expire, or, when the *)
(* role could not log in for both requests, no trace (`set_expiring`).      *)
THEOREM Expiring == Spec => []ExpiryIsWhole
<1>1. IInv => StoredToExpire BY DEF IInv, Expires, StoredToExpire, Target
<1>2. IInv => NoHalfPolicy BY DEF IInv, Admitted, NoHalfPolicy, Target
<1>3. IInv => ExpiryIsWhole BY <1>1, <1>2 DEF ExpiryIsWhole
<1> QED BY <1>3, SpecInv, PTL

(* A delete that reports what it found leaves nothing to recover.           *)
THEOREM Deleting == Spec => []NothingRecoverable
<1>1. IInv => NothingRecoverable BY DEF IInv, Destroys, NothingRecoverable, Target
<1> QED BY <1>1, SpecInv, PTL

(* A batch that succeeds has asked for every path: what it leaves out was   *)
(* not there when its path was read (`get_each_with`).                      *)
THEOREM Batching == Spec => []BatchIsWhole
<1>1. IInv => BatchIsWhole BY DEF IInv, Asked, BatchIsWhole
<1> QED BY <1>1, SpecInv, PTL
=============================================================================
