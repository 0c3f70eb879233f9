------------------------- MODULE Resolution_proofs -------------------------
(***************************************************************************)
(* Proofs about Resolution for any processes, stores, names and profiles:  *)
(* the types, that no outage is taken for an absence, that a scope bounds  *)
(* what is asked and what leaves the process, that a generated or prompted *)
(* value fills a gap and replaces nothing, and that passes over the same   *)
(* stores agree.                                                           *)
(*                                                                         *)
(* The proofs are about one process' record at a time: Fine says what it   *)
(* knows of the profile f and the stores h, and each operator that makes   *)
(* the next record (Ends, Pass, Asks, Decided, ...) has a lemma that its   *)
(* result is fine.  The lemma of an action only puts these together.       *)
(* Sure says what the record's conclusions are worth while the stores are  *)
(* as its pass found them, and is carried along in the same way.           *)
(***************************************************************************)
EXTENDS Resolution, TLAPS, WellFoundedInduction

(* The least of some numbers, induction over a set of numbers and the       *)
(* values a function goes through from a first one: what the recursions of  *)
(* Resolution are read with.                                                *)
LEMMA Least ==
    ASSUME NEW T, T \subseteq Nat, T # {} PROVE \E n \in T : \A m \in T : n <= m
<1> DEFINE R == OpToRel(<, Nat)
<1>1. IsWellFoundedOn(R, Nat) BY NatLessThanWellFounded
<1>2. PICK x \in T : \A y \in T : <<y, x>> \notin R
  <2> HIDE DEF R
  <2> QED BY <1>1, WFMin, Zenon
<1>3. ASSUME NEW y \in T PROVE x <= y
  <2>1. ~(y < x) BY <1>2 DEF OpToRel
  <2> QED BY <2>1
<1> QED BY <1>3

LEMMA Induction ==
    ASSUME NEW S, 0 \in S, \A i \in Nat : i \in S => i + 1 \in S PROVE Nat \subseteq S
<1> SUFFICES ASSUME Nat \ S # {} PROVE FALSE OBVIOUS
<1>1. PICK n \in Nat \ S : \A m \in Nat \ S : n <= m BY Least
<1>2. n # 0 BY <1>1
<1>3. n - 1 \in Nat /\ (n - 1) + 1 = n BY <1>1, <1>2
<1>4. n - 1 \in S BY <1>1, <1>3
<1> QED BY <1>1, <1>3, <1>4

Runs(G, v, n, g) == g[0] = v /\ \A i \in 0..(n - 1) : g[i + 1] = G[g[i]]

LEMMA Iterates ==
    ASSUME NEW T, NEW v \in T, NEW G \in [T -> T]
    PROVE  \E f \in [Nat -> T] : f[0] = v /\ \A i \in Nat : f[i + 1] = G[f[i]]
<1>1. \A n \in Nat : \E g \in [0..n -> T] : Runs(G, v, n, g)
  <2> DEFINE S == {n \in Nat : \E g \in [0..n -> T] : Runs(G, v, n, g)}
  <2>1. 0 \in S
    <3>1. [i \in 0..0 |-> v] \in [0..0 -> T] /\ Runs(G, v, 0, [i \in 0..0 |-> v]) BY DEF Runs
    <3> QED BY <3>1
  <2>2. ASSUME NEW n \in Nat, n \in S PROVE n + 1 \in S
    <3>1. PICK g \in [0..n -> T] : Runs(G, v, n, g) BY <2>2
    <3> DEFINE h == [i \in 0..(n + 1) |-> IF i = n + 1 THEN G[g[n]] ELSE g[i]]
    <3>2. h \in [0..(n + 1) -> T] BY <3>1
    <3>3. h[0] = v BY <3>1 DEF Runs
    <3>4. ASSUME NEW i \in 0..n PROVE h[i + 1] = G[h[i]]
      <4>1. h[i] = g[i] OBVIOUS
      <4>2. CASE i = n BY <4>1, <4>2
      <4>3. CASE i # n
        <5>1. i \in 0..(n - 1) /\ i + 1 \in 0..(n + 1) /\ i + 1 # n + 1 BY <4>3
        <5>2. h[i + 1] = g[i + 1] BY <5>1
        <5> QED BY <3>1, <4>1, <5>1, <5>2 DEF Runs
      <4> QED BY <4>2, <4>3
    <3> HIDE DEF h
    <3>5. Runs(G, v, n + 1, h)
      <4>1. (n + 1) - 1 = n OBVIOUS
      <4> QED BY <3>3, <3>4, <4>1 DEF Runs
    <3> QED BY <3>2, <3>5
  <2> HIDE DEF S
  <2>3. Nat \subseteq S BY <2>1, <2>2, Induction
  <2> QED BY <2>3 DEF S
<1>2. ASSUME NEW n \in Nat, NEW m \in Nat, NEW g, NEW h, Runs(G, v, n, g), Runs(G, v, m, h)
      PROVE  \A i \in Nat : i <= n /\ i <= m => g[i] = h[i]
  <2> DEFINE S == {i \in Nat : i <= n /\ i <= m => g[i] = h[i]}
  <2>1. 0 \in S BY <1>2 DEF Runs
  <2>2. ASSUME NEW i \in Nat, i \in S PROVE i + 1 \in S
    <3> SUFFICES ASSUME i + 1 <= n, i + 1 <= m PROVE g[i + 1] = h[i + 1] OBVIOUS
    <3>1. g[i] = h[i] BY <2>2
    <3>2. i \in 0..(n - 1) /\ i \in 0..(m - 1) OBVIOUS
    <3> QED BY <1>2, <3>1, <3>2 DEF Runs
  <2> HIDE DEF S
  <2>3. Nat \subseteq S BY <2>1, <2>2, Induction
  <2> QED BY <2>3 DEF S
<1> DEFINE run(n) == CHOOSE g : g \in [0..n -> T] /\ Runs(G, v, n, g)
           f == [n \in Nat |-> run(n)[n]]
<1>3. \A n \in Nat : run(n) \in [0..n -> T] /\ Runs(G, v, n, run(n)) BY <1>1
<1> HIDE DEF run
<1>4. f \in [Nat -> T]
  <2>1. \A n \in Nat : n \in 0..n OBVIOUS
  <2> QED BY <1>3, <2>1
<1>5. f[0] = v BY <1>3 DEF Runs
<1>6. ASSUME NEW i \in Nat PROVE f[i + 1] = G[f[i]]
  <2>1. i + 1 \in Nat /\ i \in 0..((i + 1) - 1) /\ i <= i + 1 OBVIOUS
  <2>2. run(i + 1)[i + 1] = G[run(i + 1)[i]] BY <1>3, <2>1 DEF Runs
  <2>3. run(i + 1)[i] = run(i)[i] BY <1>2, <1>3, <2>1
  <2> QED BY <2>1, <2>2, <2>3
<1> QED BY <1>4, <1>5, <1>6
-----------------------------------------------------------------------------
(* Operators of Resolution with the profile as a parameter.                 *)
LeavesOf(f) == {n \in Name : f.parts[n] = {}}
Link1(f, n)  == f.route[n][1]

Reach(f, V) ==
    LET reach[i \in Nat] ==
          IF i = 0 THEN V ELSE reach[i - 1] \cup UNION {f.parts[n] : n \in reach[i - 1]}
    IN reach[Len(Names)]

Undecided(f, r) == {n \in r.plan \cap LeavesOf(f) : r.status[n] = "none"}
Turn(f, r)     == First(Undecided(f, r))

Said(f, r, n, I) == \E i \in I \cap DOMAIN f.route[n] : <<f.route[n][i], n>> \in r.absent

(* The first store of the route has said "not found", and a fallback too.   *)
Sought(f, r, n) ==
    /\ Said(f, r, n, {1})
    /\ Len(f.route[n]) > 1 => Said(f, r, n, 2..Len(f.route[n]))

(* What is planned is the closure of what is visible, or of the target of a *)
(* `get`; only that is asked for.                                           *)
Planned(f, r) ==
    /\ r.pc # "idle" => r.plan = Reach(f, IF r.op = "get" THEN {r.target} ELSE r.visible)
    /\ r.pc = "idle" => r.plan = {}
    /\ r.asked \cup r.todo \subseteq r.plan
    /\ r.op = "get" => r.target \in Name
    /\ r.pc # "idle" /\ r.op # "get" /\ ~r.scoped => r.visible = Name
    /\ r.pc = "prompt" => r.op = "check" /\ r.round = 2
    /\ r.scoped => r.prompts \subseteq r.visible
    /\ r.op = "get" /\ r.target \in LeavesOf(f) => r.pc \in {"walk", "done"}
    /\ r.pc = "walk" => r.op = "get" /\ r.target \in LeavesOf(f)

(* A planned secret that is fetched and not resolved was not found in its   *)
(* first store, or that store failed; a healthy chain has said "not found", *)
(* and what is being generated has been sought.                             *)
Looked(f, r) ==
    /\ r.pc \in {"fetch", "decide", "generate"} =>
         \A n \in Undecided(f, r) \ r.todo : <<Link1(f, n), n>> \in r.absent \/ Link1(f, n) \in r.failed
    /\ r.pc \in {"decide", "generate"} => r.todo = {} /\ r.link >= 2
    /\ r.pc = "decide" /\ r.healthy =>
         /\ Undecided(f, r) # {}
         /\ Said(f, r, Turn(f, r), 2..Len(f.route[Turn(f, r)]))
    /\ r.pc = "generate" => Undecided(f, r) # {} /\ Sought(f, r, Turn(f, r))

(* What is taken for absent has been sought.                                *)
Absent(f, r) == \A n \in LeavesOf(f) : TakenForAbsent(r, n) => Sought(f, r, n)

(* The same of a `get`, for which one link is enough.                       *)
Walks(f, r) ==
    /\ r.pc = "walk" =>
         /\ r.value[r.target] = NoValue /\ r.result = "none"
         /\ r.healthy => Said(f, r, r.target, DOMAIN f.route[r.target])
    /\ r.op = "get" /\ r.target \in LeavesOf(f) /\ r.pc = "done"
       /\ (r.result = "missing" \/ r.value[r.target] = Default) =>
         Said(f, r, r.target, DOMAIN f.route[r.target])

(* Only what is decided and not there is prompted for; and while nobody     *)
(* else writes, what was not found is still not there, unless the process   *)
(* itself has generated it or been given it.                                *)
Gaps(f, r, h) ==
    /\ r.pc = "prompt" => r.prompts \subseteq {n \in LeavesOf(f) : r.status[n] \in {"missing", "optional"}}
    /\ r.alone /\ r.pc \in {"fetch", "decide", "generate", "prompt"} =>
         \A s \in Stores, n \in LeavesOf(f) : <<s, n>> \in r.absent =>
            \/ h[s][n] = NoValue
            \/ /\ r.pc # "fetch" /\ s = Link1(f, n)
               /\ r.status[n] = "resolved" \/ (r.pc = "prompt" /\ n \notin r.prompts)

Good(f, r, h) == Planned(f, r) /\ Looked(f, r) /\ Absent(f, r) /\ Walks(f, r) /\ Gaps(f, r, h)

-----------------------------------------------------------------------------
(* The closure of what is visible, with the profile as a parameter, and     *)
(* that it holds what is visible.                                           *)
LEMMA ReachIs == ASSUME NEW V PROVE Closure(V) = Reach(profile, V)
BY DEF Closure, Reach

LEMMA Fields ==
    ASSUME NEW f \in Profiles
    PROVE  /\ f.route \in [Name -> Seq(Stores)] /\ f.parts \in [Name -> SUBSET Name]
           /\ \A n \in LeavesOf(f) : f.route[n] # <<>>
           /\ f.scopes \subseteq SUBSET Name
           /\ f.missing \in [Name -> {"generate", "default", "error", "omit"}]
BY ResolutionAssumption DEF Routes, LeavesOf

LEMMA Reached ==
    ASSUME NEW f \in Profiles, NEW V \in SUBSET Name
    PROVE  V \subseteq Reach(f, V) /\ Reach(f, V) \subseteq Name
<1> DEFINE T == {X \in SUBSET Name : V \subseteq X}
           G == [X \in T |-> X \cup UNION {f.parts[n] : n \in X}]
           Body(g) == [i \in Nat |-> IF i = 0 THEN V
                                     ELSE g[i - 1] \cup UNION {f.parts[n] : n \in g[i - 1]}]
           reach == CHOOSE g : g = Body(g)
<1>1. \A X \in T : X \cup UNION {f.parts[n] : n \in X} \in T BY Fields
<1>2. V \in T /\ G \in [T -> T] BY <1>1
<1>3. \E g \in [Nat -> T] : g[0] = V /\ \A i \in Nat : g[i + 1] = G[g[i]]
  <2> HIDE DEF T, G
  <2> QED BY <1>2, Iterates
<1>4. \E g : g = Body(g)
  <2>1. PICK g \in [Nat -> T] : g[0] = V /\ \A i \in Nat : g[i + 1] = G[g[i]] BY <1>3
  <2>2. ASSUME NEW i \in Nat PROVE g[i] = Body(g)[i]
    <3>1. CASE i = 0 BY <2>1, <3>1
    <3>2. CASE i # 0
      <4>1. i - 1 \in Nat /\ (i - 1) + 1 = i BY <3>2
      <4>2. g[i - 1] \in T BY <2>1, <4>1
      <4>3. g[i] = G[g[i - 1]] BY <2>1, <4>1
      <4>4. G[g[i - 1]] = g[i - 1] \cup UNION {f.parts[n] : n \in g[i - 1]} BY <4>2
      <4> QED BY <3>2, <4>3, <4>4
    <3> QED BY <3>1, <3>2
  <2>3. g = [i \in Nat |-> g[i]] BY <2>1
  <2>4. Body(g) = [i \in Nat |-> Body(g)[i]] OBVIOUS
  <2> HIDE DEF Body, T, G
  <2>5. g = Body(g) BY <2>2, <2>3, <2>4
  <2> QED BY <2>5
<1>5. reach = Body(reach) BY <1>4
<1>6. Nat \subseteq {i \in Nat : reach[i] \in T}
  <2> HIDE DEF reach
  <2> DEFINE S == {i \in Nat : reach[i] \in T}
  <2>1. 0 \in S
    <3>1. reach[0] = V BY <1>5
    <3> HIDE DEF T
    <3> QED BY <3>1, <1>2
  <2>2. ASSUME NEW i \in Nat, i \in S PROVE i + 1 \in S
    <3>1. i + 1 \in Nat /\ i + 1 # 0 /\ (i + 1) - 1 = i OBVIOUS
    <3>2. Body(reach)[i + 1] = reach[i] \cup UNION {f.parts[n] : n \in reach[i]} BY <3>1
    <3> HIDE DEF Body, T
    <3>3. reach[i + 1] \in T BY <1>1, <1>5, <2>2, <3>2
    <3> QED BY <3>1, <3>3
  <2> HIDE DEF S
  <2>3. Nat \subseteq S BY <2>1, <2>2, Induction
  <2> QED BY <2>3 DEF S
<1>7. Len(Names) \in Nat BY ResolutionAssumption
<1>8. Reach(f, V) = reach[Len(Names)] BY DEF Reach
<1> HIDE DEF reach
<1> QED BY <1>6, <1>7, <1>8
-----------------------------------------------------------------------------
(* A store that does not answer for a secret, links of a route that yield   *)
(* nothing - they do not answer, or do not have it - and what the links     *)
(* from the k-th on yield.  D are the stores that are down.                 *)
Shut(f, D, s, n) == s \in D \/ <<s, n>> \in f.unfit

Bare(f, D, h, n, I) ==
    \A i \in I \cap DOMAIN f.route[n] :
        Shut(f, D, f.route[n][i], n) \/ h[f.route[n][i]][n] = NoValue

Closed(f, D, n, I) == \A i \in I \cap DOMAIN f.route[n] : Shut(f, D, f.route[n][i], n)

Gives(f, D, h, n, k, v) ==
    \E i \in DOMAIN f.route[n] :
        /\ i >= k /\ ~Shut(f, D, f.route[n][i], n)
        /\ v # NoValue /\ h[f.route[n][i]][n] = v
        /\ Bare(f, D, h, n, k..(i - 1))

(* The groups that fail are those of a store that does not answer for one   *)
(* of them.                                                                 *)
Spoils(f, D, plan, s) ==
    s \in D \/ \E m \in plan \cap LeavesOf(f) : Link1(f, m) = s /\ <<s, m>> \in f.unfit

Begun(r) == r.pc \in {"fetch", "decide", "generate", "prompt"} \/ \E n \in Name : r.status[n] # "none"

Groups(f, D, r) ==
    /\ \A s \in r.failed : Spoils(f, D, r.plan, s)
    /\ \A n \in r.todo : Link1(f, n) \notin r.failed
    /\ r.pc # "fetch" => r.todo = {}
    /\ Begun(r) => \A n \in (r.plan \cap LeavesOf(f)) \ r.todo :
                      Link1(f, n) \in r.failed \/ ~Shut(f, D, Link1(f, n), n)

(* How a stored secret was decided: from its first store, from another, or  *)
(* for want of it in all of them.                                           *)
Lacks(f, D, h, r, n) ==
    /\ Link1(f, n) \notin r.failed /\ h[Link1(f, n)][n] = NoValue
    /\ Bare(f, D, h, n, 2..Len(f.route[n]))

ByFirst(f, h, r, n) ==
    /\ Link1(f, n) \notin r.failed /\ r.value[n] = h[Link1(f, n)][n]
    /\ r.status[n] = "resolved" /\ r.value[n] # NoValue

ByOther(f, D, h, r, n) ==
    /\ Link1(f, n) \in r.failed \/ h[Link1(f, n)][n] = NoValue
    /\ r.status[n] = "resolved" /\ Gives(f, D, h, n, 2, r.value[n])

ByPolicy(f, r, n) ==
    /\ f.missing[n] = "default"  => r.status[n] = "resolved" /\ r.value[n] = Default
    /\ f.missing[n] = "generate" => /\ r.status[n] = "resolved" /\ r.value[n] = NoValue
                                    /\ r.source[n] = "generated"
    /\ f.missing[n] = "error"    => r.status[n] = "missing" /\ r.value[n] = NoValue
    /\ f.missing[n] = "omit"     => r.status[n] = "optional" /\ r.value[n] = NoValue

Outcome(f, D, h, r, n) ==
    \/ ByFirst(f, h, r, n)
    \/ ByOther(f, D, h, r, n)
    \/ Lacks(f, D, h, r, n) /\ ByPolicy(f, r, n)

(* A `get` that walks the chain of its target by itself.                    *)
Walker(f, r) == r.op = "get" /\ r.target \in LeavesOf(f)

Outcomes(f, D, h, r) ==
    /\ \A n \in LeavesOf(f) : r.status[n] # "none" => n \notin r.todo /\ Outcome(f, D, h, r, n)
    /\ ~Walker(f, r) => \A n \in Name :
          r.status[n] = "none" \/ n \notin LeavesOf(f) => r.value[n] = NoValue
    /\ r.pc \in {"fetch", "decide", "generate"} =>
         \A n \in Undecided(f, r) \ r.todo : Link1(f, n) \in r.failed \/ h[Link1(f, n)][n] = NoValue

(* What the walk of the turn's chain has found so far.                      *)
Turns(f, D, h, r) ==
    /\ r.pc = "decide" /\ Undecided(f, r) # {} => Bare(f, D, h, Turn(f, r), 2..(r.link - 1))
    /\ r.pc = "generate" => Lacks(f, D, h, r, Turn(f, r)) /\ f.missing[Turn(f, r)] = "generate"

(* A composed secret is decided by its parts.                               *)
OutcomeOf(f, n, st) ==
    IF \A d \in f.parts[n] : st[d] = "resolved" THEN "resolved"
    ELSE IF f.missing[n] = "error" THEN "missing" ELSE "optional"

Composes(f, plan, st) ==
    /\ \A n \in Name : st[n] # "none" => n \in plan
    /\ \A n \in Name \ LeavesOf(f) : st[n] # "none" =>
         (\A d \in f.parts[n] : st[d] # "none") /\ st[n] = OutcomeOf(f, n, st)

(* What a `get` has found on its way, and what it may end with.             *)
Arrives(f, D, h, n, result, v) ==
    /\ result = "ok" =>
         \/ Gives(f, D, h, n, 1, v)
         \/ Bare(f, D, h, n, DOMAIN f.route[n]) /\ f.missing[n] = "default" /\ v = Default
    /\ result = "missing" => Bare(f, D, h, n, DOMAIN f.route[n]) /\ f.missing[n] # "default"
    /\ result = "error" => Closed(f, D, n, DOMAIN f.route[n])

Walked(f, D, h, r) ==
    /\ r.pc = "walk" =>
         /\ \A n \in Name : r.status[n] = "none"
         /\ r.link >= 1 /\ Bare(f, D, h, r.target, 1..(r.link - 1))
         /\ ~r.healthy => Closed(f, D, r.target, 1..(r.link - 1))
    /\ r.pc = "done" /\ Walker(f, r) => Arrives(f, D, h, r.target, r.result, r.value[r.target])

Right(f, D, h, r) ==
    /\ Groups(f, D, r) /\ Outcomes(f, D, h, r) /\ Turns(f, D, h, r)
    /\ Composes(f, r.plan, r.status) /\ Walked(f, D, h, r)
    /\ r.pc = "fetch" => \A n \in Name \ LeavesOf(f) : r.status[n] = "none"

(* While the stores are as the pass found them, all of that is so.          *)
Sure(f, D, h, r) == r.steady /\ r.pc # "idle" => Right(f, D, h, r)
-----------------------------------------------------------------------------
(* The secret whose turn it is, is one of those to be decided.              *)
LEMMA FirstOf == ASSUME NEW N, N \subseteq Name, N # {} PROVE First(N) \in N
<1> DEFINE T == {i \in DOMAIN Names : Names[i] \in N}
<1>1. DOMAIN Names \subseteq Nat /\ \A n \in Name : \E i \in DOMAIN Names : Names[i] = n
  BY ResolutionAssumption DEF Name, Range
<1>2. T \subseteq Nat /\ T # {} BY <1>1
<1>3. PICK i \in T : \A j \in T : i <= j
  <2> HIDE DEF T
  <2> QED BY <1>2, Least
<1>4. ASSUME NEW m \in N \ {Names[i]} PROVE Before(Names[i], m)
  <2>1. PICK j \in DOMAIN Names : Names[j] = m BY <1>1, <1>4
  <2>2. j \in T /\ i # j BY <2>1, <1>4
  <2>3. i <= j /\ i \in Nat /\ j \in Nat BY <1>1, <1>2, <1>3, <2>2
  <2> QED BY <2>1, <2>2, <2>3 DEF Before
<1>5. \E n \in N : \A m \in N \ {n} : Before(n, m) BY <1>3, <1>4
<1> QED BY <1>5 DEF First

LEMMA TurnOf ==
    ASSUME NEW f, NEW r, r.plan \subseteq Name, Undecided(f, r) # {}
    PROVE  Turn(f, r) \in Undecided(f, r)
<1>1. Undecided(f, r) \subseteq Name BY DEF Undecided
<1> QED BY <1>1, FirstOf DEF Turn

(* Rendering decides composed secrets and leaves the others as they are.    *)
LEMMA TurnedComposes ==
    ASSUME profile \in Profiles, NEW plan, NEW st, Composes(profile, plan, st), NEW st2,
           \A n \in LeavesOf(profile) : st2[n] = st[n],
           \A n \in Name \ LeavesOf(profile) :
              st2[n] = IF n \in plan /\ \A d \in profile.parts[n] : st[d] # "none"
                       THEN OutcomeOf(profile, n, st) ELSE st[n]
    PROVE  Composes(profile, plan, st2)
<1>1. profile.parts \in [Name -> SUBSET Name] BY Fields
<1>2. \A n \in Name : st[n] # "none" => st2[n] = st[n] BY DEF Composes
<1>3. \A n \in Name : st2[n] # "none" => n \in plan BY DEF Composes
<1>4. ASSUME NEW n \in Name \ LeavesOf(profile), st2[n] # "none"
      PROVE  (\A d \in profile.parts[n] : st2[d] # "none") /\ st2[n] = OutcomeOf(profile, n, st2)
  <2>1. /\ \A d \in profile.parts[n] : st[d] # "none"
        /\ st2[n] = OutcomeOf(profile, n, st)
    BY <1>4 DEF Composes
  <2>2. \A d \in profile.parts[n] : st2[d] = st[d] BY <1>1, <1>2, <1>4, <2>1
  <2> QED BY <2>1, <2>2 DEF OutcomeOf
<1> QED BY <1>3, <1>4 DEF Composes

LEMMA RenderedIs ==
    ASSUME profile \in Profiles, NEW r \in ProcType
    PROVE  \E st \in [Name -> Status], so \in [Name -> Source] :
              /\ Rendered(r) = [r EXCEPT !.status = st, !.source = so]
              /\ \A n \in LeavesOf(profile) : st[n] = r.status[n] /\ so[n] = r.source[n]
              /\ Composes(profile, r.plan, r.status) => Composes(profile, r.plan, st)
<1> DEFINE Of(n, st) == IF \A d \in profile.parts[n] : st[d] = "resolved" THEN "resolved"
                        ELSE IF profile.missing[n] = "error" THEN "missing" ELSE "optional"
           Ready(n, st) == n \in r.plan /\ Composed(n) /\ \A d \in profile.parts[n] : st[d] # "none"
           Turned(st) == [n \in Name |-> IF Ready(n, st) THEN Of(n, st) ELSE st[n]]
           T == {st \in [Name -> Status] :
                   /\ \A n \in LeavesOf(profile) : st[n] = r.status[n]
                   /\ Composes(profile, r.plan, r.status) => Composes(profile, r.plan, st)}
           G == [st \in T |-> Turned(st)]
           Body(g) == [i \in Nat |-> IF i = 0 THEN r.status ELSE Turned(g[i - 1])]
           pass == CHOOSE g : g = Body(g)
<1>1. ASSUME NEW st \in T PROVE Turned(st) \in T
  <2>1. \A n \in Name : Of(n, st) \in Status BY DEF Status
  <2>2. \A n \in LeavesOf(profile) : n \in Name /\ ~Ready(n, st) BY DEF LeavesOf, Composed
  <2>3. \A n \in Name \ LeavesOf(profile) :
           Turned(st)[n] = IF n \in r.plan /\ \A d \in profile.parts[n] : st[d] # "none"
                           THEN OutcomeOf(profile, n, st) ELSE st[n]
    BY DEF LeavesOf, Composed, OutcomeOf
  <2> HIDE DEF Of, Ready
  <2>4. Turned(st) \in [Name -> Status] /\ \A n \in LeavesOf(profile) : Turned(st)[n] = st[n]
    BY <2>1, <2>2
  <2> HIDE DEF Turned
  <2>5. Composes(profile, r.plan, st) => Composes(profile, r.plan, Turned(st))
    BY <2>3, <2>4, TurnedComposes
  <2> QED BY <2>4, <2>5
<1>2. r.status \in T /\ G \in [T -> T]
  <2>1. r.status \in T BY DEF ProcType
  <2> HIDE DEF T, Turned
  <2> QED BY <1>1, <2>1
<1>3. \E g \in [Nat -> T] : g[0] = r.status /\ \A i \in Nat : g[i + 1] = G[g[i]]
  <2>1. PICK v : v = r.status OBVIOUS
  <2>2. v \in T /\ G \in [T -> T] BY <1>2, <2>1
  <2> HIDE DEF T, G
  <2>3. \E g \in [Nat -> T] : g[0] = v /\ \A i \in Nat : g[i + 1] = G[g[i]] BY <2>2, Iterates
  <2> QED BY <2>1, <2>3
<1>4. \E g : g = Body(g)
  <2>1. PICK g \in [Nat -> T] : g[0] = r.status /\ \A i \in Nat : g[i + 1] = G[g[i]] BY <1>3
  <2> HIDE DEF Turned, T
  <2>2. ASSUME NEW i \in Nat PROVE g[i] = Body(g)[i]
    <3>1. CASE i = 0 BY <2>1, <3>1
    <3>2. CASE i # 0
      <4>1. i - 1 \in Nat /\ (i - 1) + 1 = i BY <3>2
      <4>2. g[i - 1] \in T BY <2>1, <4>1
      <4>3. g[i] = G[g[i - 1]] BY <2>1, <4>1
      <4> QED BY <3>2, <4>2, <4>3
    <3> QED BY <3>1, <3>2
  <2>3. g = [i \in Nat |-> g[i]] BY <2>1
  <2>4. Body(g) = [i \in Nat |-> Body(g)[i]] OBVIOUS
  <2> HIDE DEF Body, G
  <2>5. g = Body(g) BY <2>2, <2>3, <2>4
  <2> QED BY <2>5
<1>5. pass = Body(pass) BY <1>4
<1>6. Nat \subseteq {i \in Nat : pass[i] \in T}
  <2> HIDE DEF pass
  <2> DEFINE S == {i \in Nat : pass[i] \in T}
  <2>1. 0 \in S
    <3>1. pass[0] = r.status BY <1>5
    <3> HIDE DEF T
    <3> QED BY <3>1, <1>2
  <2>2. ASSUME NEW i \in Nat, i \in S PROVE i + 1 \in S
    <3> HIDE DEF Turned, T
    <3>1. i + 1 \in Nat /\ i + 1 # 0 /\ (i + 1) - 1 = i OBVIOUS
    <3>2. Body(pass)[i + 1] = Turned(pass[i]) BY <3>1
    <3> HIDE DEF Body
    <3>3. pass[i + 1] \in T BY <1>1, <1>5, <2>2, <3>2
    <3> QED BY <3>1, <3>3
  <2> HIDE DEF S
  <2>3. Nat \subseteq S BY <2>1, <2>2, Induction
  <2> QED BY <2>3 DEF S
<1>7. Len(Names) \in Nat BY ResolutionAssumption
<1> DEFINE st == pass[Len(Names)]
           so == [n \in Name |-> IF Composed(n) /\ st[n] = "resolved" THEN "composed"
                                 ELSE r.source[n]]
<1>8. Rendered(r) = [r EXCEPT !.status = st, !.source = so] BY DEF Rendered
<1> HIDE DEF pass
<1>9. st \in T BY <1>6, <1>7
<1>10. so \in [Name -> Source] BY DEF Source, ProcType
<1>11. \A n \in LeavesOf(profile) : so[n] = r.source[n] BY DEF LeavesOf, Composed
<1>12. /\ st \in [Name -> Status] /\ \A n \in LeavesOf(profile) : st[n] = r.status[n]
       /\ Composes(profile, r.plan, r.status) => Composes(profile, r.plan, st)
  BY <1>9
<1> HIDE DEF so, st
<1> USE <1>10, <1>12
<1> WITNESS st \in [Name -> Status], so \in [Name -> Source]
<1> QED BY <1>8, <1>11

(* What is prompted for is decided and not there.                           *)
LEMMA PromptableIs ==
    ASSUME profile \in Profiles, NEW r \in ProcType
    PROVE  PromptableUnscoped(r) \subseteq {n \in LeavesOf(profile) : n \notin OutputOf(r)}
<1> DEFINE Lacking(n) == {d \in profile.parts[n] : d \notin OutputOf(r)}
           T == {X \in SUBSET Name : X \cap OutputOf(r) = {}}
           More(X) == X \cup UNION {Lacking(n) : n \in X}
           G == [X \in T |-> More(X)]
           Body(g) == [i \in Nat |-> IF i = 0 THEN MissingOf(r) ELSE More(g[i - 1])]
           reach == CHOOSE g : g = Body(g)
<1>1. \A X \in T : More(X) \in T BY Fields
<1>2. MissingOf(r) \in T /\ G \in [T -> T]
  <2>1. MissingOf(r) \in T BY DEF MissingOf, OutputOf, ProcType
  <2> HIDE DEF T, More
  <2> QED BY <1>1, <2>1
<1>3. \E g \in [Nat -> T] : g[0] = MissingOf(r) /\ \A i \in Nat : g[i + 1] = G[g[i]]
  <2> HIDE DEF T, G
  <2> QED BY <1>2, Iterates
<1>4. \E g : g = Body(g)
  <2>1. PICK g \in [Nat -> T] : g[0] = MissingOf(r) /\ \A i \in Nat : g[i + 1] = G[g[i]] BY <1>3
  <2> HIDE DEF More, T
  <2>2. ASSUME NEW i \in Nat PROVE g[i] = Body(g)[i]
    <3>1. CASE i = 0 BY <2>1, <3>1
    <3>2. CASE i # 0
      <4>1. i - 1 \in Nat /\ (i - 1) + 1 = i BY <3>2
      <4>2. g[i - 1] \in T BY <2>1, <4>1
      <4>3. g[i] = G[g[i - 1]] BY <2>1, <4>1
      <4> QED BY <3>2, <4>2, <4>3
    <3> QED BY <3>1, <3>2
  <2>3. g = [i \in Nat |-> g[i]] BY <2>1
  <2>4. Body(g) = [i \in Nat |-> Body(g)[i]] OBVIOUS
  <2> HIDE DEF Body, G
  <2>5. g = Body(g) BY <2>2, <2>3, <2>4
  <2> QED BY <2>5
<1>5. reach = Body(reach) BY <1>4
<1>6. Nat \subseteq {i \in Nat : reach[i] \in T}
  <2> HIDE DEF reach
  <2> DEFINE S == {i \in Nat : reach[i] \in T}
  <2>1. 0 \in S
    <3>1. reach[0] = MissingOf(r) BY <1>5
    <3> HIDE DEF T
    <3> QED BY <3>1, <1>2
  <2>2. ASSUME NEW i \in Nat, i \in S PROVE i + 1 \in S
    <3> HIDE DEF More, T
    <3>1. i + 1 \in Nat /\ i + 1 # 0 /\ (i + 1) - 1 = i OBVIOUS
    <3>2. Body(reach)[i + 1] = More(reach[i]) BY <3>1
    <3> HIDE DEF Body
    <3>3. reach[i + 1] \in T BY <1>1, <1>5, <2>2, <3>2
    <3> QED BY <3>1, <3>3
  <2> HIDE DEF S
  <2>3. Nat \subseteq S BY <2>1, <2>2, Induction
  <2> QED BY <2>3 DEF S
<1>7. Len(Names) \in Nat BY ResolutionAssumption
<1>8. PromptableUnscoped(r) = reach[Len(Names)] \cap Leaves BY DEF PromptableUnscoped
<1> HIDE DEF reach
<1> QED BY <1>6, <1>7, <1>8 DEF Leaves, LeavesOf, Composed
-----------------------------------------------------------------------------
(* What one process has done, whatever the world around it does.            *)
Fine(f, r, h) == r \in ProcType /\ r.todo \cup r.prompts \subseteq LeavesOf(f) /\ Good(f, r, h)

(* The inductive invariant.                                                 *)
IInv ==
    /\ profile \in Profiles /\ down \in SUBSET Unreliable
    /\ held \in [Stores -> [Name -> Maybe]]
    /\ \A s \in Stores, n \in Name : held[s][n] # Default
    /\ \A p \in Procs : Fine(profile, proc[p], held) /\ Sure(profile, down, held, proc[p])
    /\ proc \in [Procs -> ProcType]

(* To have been told more is no less.                                       *)
LEMMA SaidMore ==
    ASSUME NEW f, NEW r, NEW d, r.absent \subseteq d.absent
    PROVE  /\ \A n, I : Said(f, r, n, I) => Said(f, d, n, I)
           /\ \A n : Sought(f, r, n) => Sought(f, d, n)
BY DEF Said, Sought

(* A command ends, whatever it was doing.                                   *)
LEMMA EndsFine ==
    ASSUME NEW f \in Profiles, NEW h, NEW r, Fine(f, r, h), r.pc # "idle",
           NEW how \in {"ok", "missing", "error", "refused"},
           r.op = "get" /\ r.target \in LeavesOf(f) /\ (how = "missing" \/ r.value[r.target] = Default)
              => Said(f, r, r.target, DOMAIN f.route[r.target])
    PROVE  Fine(f, Ends(r, how), h)
<1> DEFINE d == Ends(r, how)
<1>1. r \in ProcType /\ r.todo \cup r.prompts \subseteq LeavesOf(f) /\ Good(f, r, h) BY DEF Fine
<1>2. d \in ProcType BY <1>1 DEF ProcType, Ends
<1>3. /\ d.pc = "done" /\ d.result = how /\ d.alone = TRUE
      /\ d.op = r.op /\ d.target = r.target /\ d.plan = r.plan /\ d.visible = r.visible
      /\ d.scoped = r.scoped /\ d.round = r.round /\ d.todo = r.todo /\ d.failed = r.failed
      /\ d.status = r.status /\ d.source = r.source /\ d.value = r.value /\ d.prompts = r.prompts
      /\ d.asked = r.asked /\ d.absent = r.absent
  BY <1>1 DEF ProcType, Ends
<1> HIDE DEF d
<1>4. Planned(f, d) BY <1>1, <1>3 DEF Good, Planned
<1>5. Looked(f, d) BY <1>3 DEF Looked
<1>6. Absent(f, d) BY <1>1, <1>3, SaidMore DEF Good, Absent, TakenForAbsent
<1>7. Walks(f, d) BY <1>3, SaidMore DEF Walks
<1>8. Gaps(f, d, h) BY <1>3 DEF Gaps
<1> QED BY <1>1, <1>2, <1>3, <1>4, <1>5, <1>6, <1>7, <1>8 DEF Fine, Good, d

(* A pass begins knowing nothing.                                           *)
Fresh(f, r) ==
    /\ r \in ProcType
    /\ r.status = [n \in Name |-> "none"] /\ r.source = [n \in Name |-> "none"]
    /\ r.value = [n \in Name |-> NoValue]
    /\ r.asked = {} /\ r.absent = {} /\ r.todo = {} /\ r.prompts = {} /\ ~r.healthy
    /\ r.failed = {}
    /\ r.plan = Reach(f, IF r.op = "get" THEN {r.target} ELSE r.visible)
    /\ r.op = "get" => r.target \in Name
    /\ r.op # "get" /\ ~r.scoped => r.visible = Name

LEMMA NothingTaken ==
    ASSUME NEW f \in Profiles, NEW r, r.status = [n \in Name |-> "none"],
           r.source = [n \in Name |-> "none"]
    PROVE  Absent(f, r)
BY DEF Absent, TakenForAbsent, LeavesOf

(* A pass starts with the fetches, or ends at once.                         *)
LEMMA PassFine ==
    ASSUME profile \in Profiles, NEW h, NEW r, Fresh(profile, r),
           r.op = "get" => r.target \notin LeavesOf(profile)
    PROVE  Fine(profile, Pass(r), h)
<1> DEFINE d == Pass(r)
<1>0. Leaves = LeavesOf(profile) BY DEF Leaves, LeavesOf, Composed
<1>1. d \in ProcType BY DEF Fresh, ProcType, Pass
<1>2. /\ d.pc = "fetch" /\ d.todo = r.plan \cap LeavesOf(profile)
      /\ d.op = r.op /\ d.target = r.target /\ d.plan = r.plan /\ d.visible = r.visible
      /\ d.scoped = r.scoped /\ d.round = r.round /\ d.status = r.status /\ d.source = r.source
      /\ d.prompts = r.prompts /\ d.asked = r.asked /\ d.absent = r.absent
  BY <1>0 DEF Fresh, ProcType, Pass
<1> HIDE DEF d
<1>3. Planned(profile, d) BY <1>2 DEF Fresh, Planned
<1>4. Looked(profile, d) BY <1>2 DEF Looked, Undecided
<1>5. Absent(profile, d) BY <1>2, NothingTaken DEF Fresh
<1>6. Walks(profile, d) BY <1>2 DEF Walks
<1>7. Gaps(profile, d, h) BY <1>2 DEF Gaps, Fresh
<1> QED BY <1>1, <1>2, <1>3, <1>4, <1>5, <1>6, <1>7 DEF Fine, Good, d, Fresh

LEMMA StartedFine ==
    ASSUME profile \in Profiles, NEW h, NEW r, Fresh(profile, r),
           r.op = "get" => r.target \notin LeavesOf(profile)
    PROVE  Fine(profile, Started(r), h)
<1>1. ASSUME NEW how \in {"ok", "error"} PROVE Fine(profile, Ends(r, how), h)
  <2> DEFINE d == Ends(r, how)
  <2>1. d \in ProcType BY DEF Fresh, ProcType, Ends
  <2>2. /\ d.pc = "done"
        /\ d.op = r.op /\ d.target = r.target /\ d.plan = r.plan /\ d.visible = r.visible
        /\ d.scoped = r.scoped /\ d.todo = r.todo /\ d.status = r.status /\ d.source = r.source
        /\ d.prompts = r.prompts /\ d.asked = r.asked
    BY DEF Fresh, ProcType, Ends
  <2> HIDE DEF d
  <2>3. Planned(profile, d) BY <2>2 DEF Fresh, Planned
  <2>4. Looked(profile, d) /\ Walks(profile, d) /\ Gaps(profile, d, h)
    BY <2>2 DEF Looked, Walks, Gaps
  <2>5. Absent(profile, d) BY <2>2, NothingTaken DEF Fresh
  <2> QED BY <2>1, <2>2, <2>3, <2>4, <2>5 DEF Fine, Good, Fresh, d
<1>2. Fine(profile, Pass(r), h) BY PassFine
<1> QED BY <1>1, <1>2 DEF Started

(* A process that does nothing.                                             *)
LEMMA BlankFine ==
    ASSUME NEW f \in Profiles, NEW h PROVE Fine(f, Blank, h) /\ Blank.pc = "idle"
<1>1. Blank \in ProcType BY ResolutionAssumption DEF Blank, ProcType, AllOps, Status, Source, Maybe
<1>2. /\ Blank.pc = "idle" /\ Blank.todo = {} /\ Blank.prompts = {} /\ Blank.asked = {}
      /\ Blank.plan = {} /\ Blank.op = "report" /\ Blank.status = [n \in Name |-> "none"]
      /\ Blank.source = [n \in Name |-> "none"]
  BY DEF Blank
<1>3. Planned(f, Blank) /\ Looked(f, Blank) /\ Walks(f, Blank) /\ Gaps(f, Blank, h)
  BY <1>2 DEF Planned, Looked, Walks, Gaps
<1> QED BY <1>1, <1>2, <1>3, NothingTaken DEF Fine, Good

(* Another pass of the same command, after prompting too.                   *)
LEMMA AgainFresh ==
    ASSUME profile \in Profiles, NEW r \in ProcType, Planned(profile, r),
           r.pc # "idle", r.op # "get", r.round \in 1..2
    PROVE  \E d : Again(r) = Pass(d) /\ Fresh(profile, d) /\ d.op # "get"
<1> DEFINE d == [Blank EXCEPT !.op = r.op, !.plan = r.plan, !.visible = r.visible,
                              !.scoped = r.scoped, !.round = r.round + 1]
<1>1. Blank \in ProcType BY BlankFine DEF Fine
<1>2. d \in ProcType
  <2>1. r.round + 1 \in 1..3 OBVIOUS
  <2>2. r.op \in AllOps /\ r.plan \in SUBSET Name /\ r.visible \in SUBSET Name
        /\ r.scoped \in BOOLEAN
    BY DEF ProcType
  <2> QED BY <1>1, <2>1, <2>2 DEF ProcType
<1>3. /\ d.op = r.op /\ d.plan = r.plan /\ d.visible = r.visible /\ d.scoped = r.scoped
      /\ d.status = [n \in Name |-> "none"] /\ d.source = [n \in Name |-> "none"]
      /\ d.value = [n \in Name |-> NoValue] /\ ~d.healthy
      /\ d.asked = {} /\ d.absent = {} /\ d.todo = {} /\ d.prompts = {} /\ d.failed = {}
  BY DEF Blank
<1>4. Again(r) = Pass(d) BY DEF Again
<1> HIDE DEF d
<1>5. Fresh(profile, d) BY <1>2, <1>3 DEF Fresh, Planned
<1> QED BY <1>3, <1>4, <1>5

LEMMA AgainFine ==
    ASSUME profile \in Profiles, NEW h, NEW r \in ProcType, Planned(profile, r),
           r.pc # "idle", r.op # "get", r.round \in 1..2
    PROVE  Fine(profile, Again(r), h)
BY AgainFresh, PassFine
-----------------------------------------------------------------------------
(* A secret a provider backs has a route.                                   *)
LEMMA LeafOf ==
    ASSUME profile \in Profiles, NEW n \in LeavesOf(profile)
    PROVE  /\ n \in Name /\ Chain(n) = profile.route[n] /\ Chain(n) \in Seq(Stores)
           /\ Len(Chain(n)) \in Nat \ {0} /\ Primary(n) = Link1(profile, n) /\ Primary(n) \in Stores
           /\ 1 \in DOMAIN Chain(n) /\ DOMAIN Chain(n) = 1..Len(Chain(n))
<1>1. n \in Name /\ profile.route[n] \in Seq(Stores) /\ profile.route[n] # <<>>
  BY Fields DEF LeavesOf
<1>2. Len(profile.route[n]) \in Nat \ {0} BY <1>1
<1>3. 1 \in DOMAIN profile.route[n] /\ DOMAIN profile.route[n] = 1..Len(profile.route[n])
  BY <1>1, <1>2
<1>4. profile.route[n][1] \in Stores BY <1>1, <1>3
<1> QED BY <1>1, <1>2, <1>3, <1>4 DEF Chain, Primary, Link1

(* What a process still decides.                                            *)
LEMMA Facts ==
    ASSUME profile \in Profiles, NEW h, NEW r, Fine(profile, r, h)
    PROVE  /\ r \in ProcType /\ r.plan \subseteq Name
           /\ Open(r) = Undecided(profile, r)
           /\ Current(r) = Turn(profile, r)
           /\ Open(r) # {} => /\ Current(r) \in LeavesOf(profile) /\ Current(r) \in r.plan
                              /\ r.status[Current(r)] = "none"
<1>1. Leaves = LeavesOf(profile) BY DEF Leaves, LeavesOf, Composed
<1>2. r \in ProcType BY DEF Fine
<1>3. r.plan \subseteq Name BY <1>2 DEF ProcType
<1>4. Open(r) = Undecided(profile, r) BY <1>1 DEF Open, Undecided
<1>5. Current(r) = Turn(profile, r) BY <1>4 DEF Current, Turn
<1>6. Undecided(profile, r) # {} => Turn(profile, r) \in Undecided(profile, r) BY <1>3, TurnOf
<1> QED BY <1>2, <1>3, <1>4, <1>5, <1>6 DEF Undecided

(* An answer: what is not there is noted.                                   *)
LEMMA AsksFine ==
    ASSUME profile \in Profiles, NEW r, Fine(profile, r, held), r.pc # "idle",
           NEW n \in LeavesOf(profile), n \in r.plan, NEW s \in Stores
    PROVE  /\ Fine(profile, Asks(r, s, n), held)
           /\ Asks(r, s, n).pc = r.pc /\ Asks(r, s, n).link = r.link
           /\ Asks(r, s, n).plan = r.plan /\ Asks(r, s, n).status = r.status
           /\ Asks(r, s, n).todo = r.todo /\ Asks(r, s, n).op = r.op
           /\ Asks(r, s, n).target = r.target /\ Asks(r, s, n).value = r.value
           /\ Asks(r, s, n).result = r.result
           /\ held[s][n] = NoValue => <<s, n>> \in Asks(r, s, n).absent
<1> DEFINE d == Asks(r, s, n)
           b == IF held[s][n] = NoValue THEN r.absent \cup {<<s, n>>} ELSE r.absent
<1>1. r \in ProcType /\ r.todo \cup r.prompts \subseteq LeavesOf(profile) /\ Good(profile, r, held)
  BY DEF Fine
<1>2. n \in Name BY DEF LeavesOf
<1>3. d = [r EXCEPT !.asked = r.asked \cup {n}, !.absent = b] BY <1>1 DEF Asks, ProcType
<1>4. r.asked \cup {n} \in SUBSET Name /\ b \in SUBSET (Stores \X Name) BY <1>1, <1>2 DEF ProcType
<1>5. r.absent \subseteq b /\ (held[s][n] = NoValue => <<s, n>> \in b)
      /\ \A x : x \in b => x \in r.absent \/ (x = <<s, n>> /\ held[s][n] = NoValue)
  OBVIOUS
<1> HIDE DEF b, d
<1>6. d \in ProcType BY <1>1, <1>3, <1>4 DEF ProcType
<1>7. /\ d.pc = r.pc /\ d.op = r.op /\ d.target = r.target /\ d.plan = r.plan
      /\ d.visible = r.visible /\ d.scoped = r.scoped /\ d.round = r.round /\ d.todo = r.todo
      /\ d.failed = r.failed /\ d.status = r.status /\ d.source = r.source /\ d.value = r.value
      /\ d.link = r.link /\ d.healthy = r.healthy /\ d.prompts = r.prompts
      /\ d.result = r.result /\ d.alone = r.alone /\ d.asked = r.asked \cup {n} /\ d.absent = b
  BY <1>1, <1>3 DEF ProcType
<1>8. Planned(profile, d) BY <1>1, <1>7 DEF Good, Planned
<1>9. /\ Undecided(profile, d) = Undecided(profile, r) /\ Turn(profile, d) = Turn(profile, r)
      /\ \A m : Sought(profile, r, m) => Sought(profile, d, m)
      /\ \A m, I : Said(profile, r, m, I) => Said(profile, d, m, I)
  BY <1>5, <1>7, SaidMore DEF Undecided, Turn
<1>10. Looked(profile, d) BY <1>1, <1>5, <1>7, <1>9 DEF Good, Looked
<1>11. Absent(profile, d) BY <1>1, <1>7, <1>9 DEF Good, Absent, TakenForAbsent
<1>12. Walks(profile, d) BY <1>1, <1>7, <1>9 DEF Good, Walks
<1>13. Gaps(profile, d, held)
  <2>1. d.pc = "prompt" => d.prompts \subseteq
           {m \in LeavesOf(profile) : d.status[m] \in {"missing", "optional"}}
    BY <1>1, <1>7 DEF Good, Gaps
  <2>2. ASSUME d.alone, d.pc \in {"fetch", "decide", "generate", "prompt"},
               NEW z \in Stores, NEW m \in LeavesOf(profile), <<z, m>> \in d.absent
        PROVE  \/ held[z][m] = NoValue
               \/ /\ d.pc # "fetch" /\ z = Link1(profile, m)
                  /\ d.status[m] = "resolved" \/ (d.pc = "prompt" /\ m \notin d.prompts)
    <3>1. CASE <<z, m>> \in r.absent BY <1>1, <1>7, <2>2, <3>1 DEF Good, Gaps
    <3>2. CASE <<z, m>> = <<s, n>> /\ held[s][n] = NoValue BY <3>2
    <3> QED BY <1>5, <1>7, <2>2, <3>1, <3>2
  <2> QED BY <2>1, <2>2 DEF Gaps
<1>14. Fine(profile, d, held)
  BY <1>1, <1>6, <1>7, <1>8, <1>10, <1>11, <1>12, <1>13 DEF Fine, Good
<1> QED BY <1>5, <1>7, <1>14 DEF d

(* A secret is decided and the next one's turn comes; the store may have    *)
(* been given its value.                                                    *)
LEMMA DecidedFine ==
    ASSUME NEW f \in Profiles, NEW h, NEW h2, NEW r, Fine(f, r, h), r.pc \in {"decide", "generate"},
           Undecided(f, r) # {}, NEW n, n = Turn(f, r),
           NEW status \in Status \ {"none"}, NEW source \in Source, NEW v \in Maybe,
           status \in {"missing", "optional"} \/ source \in {"default", "generated"} => Sought(f, r, n),
           \A s \in Stores, m \in Name :
              h2[s][m] = h[s][m] \/ (s = Link1(f, n) /\ m = n /\ status = "resolved")
    PROVE  Fine(f, Decided(r, n, status, source, v), h2)
<1> DEFINE d == Decided(r, n, status, source, v)
<1>1. r \in ProcType /\ r.todo \cup r.prompts \subseteq LeavesOf(f) /\ Good(f, r, h) BY DEF Fine
<1>2. n \in Undecided(f, r) /\ n \in Name
  BY <1>1, TurnOf DEF ProcType, Undecided, LeavesOf
<1>3. d \in ProcType BY <1>1, <1>2 DEF ProcType, Decided
<1>4. /\ d.pc = "decide" /\ d.link = 2 /\ d.healthy = FALSE
      /\ d.status = [r.status EXCEPT ![n] = status] /\ d.source = [r.source EXCEPT ![n] = source]
      /\ d.op = r.op /\ d.target = r.target /\ d.plan = r.plan
      /\ d.visible = r.visible /\ d.scoped = r.scoped /\ d.round = r.round /\ d.todo = r.todo
      /\ d.failed = r.failed /\ d.prompts = r.prompts
      /\ d.result = r.result /\ d.alone = r.alone /\ d.asked = r.asked /\ d.absent = r.absent
  BY <1>1 DEF ProcType, Decided
<1> HIDE DEF d
<1>5. \A m \in Name : d.status[m] = (IF m = n THEN status ELSE r.status[m])
                      /\ d.source[m] = (IF m = n THEN source ELSE r.source[m])
  BY <1>1, <1>4 DEF ProcType
<1>6. Planned(f, d) BY <1>1, <1>4 DEF Good, Planned
<1>7. Looked(f, d)
  <2>1. Undecided(f, d) \subseteq Undecided(f, r) BY <1>1, <1>4, <1>5 DEF Undecided, LeavesOf
  <2>2. d.todo = {} /\ d.link >= 2 BY <1>1, <1>4 DEF Good, Looked
  <2>3. \A m \in Undecided(f, d) \ d.todo :
           <<Link1(f, m), m>> \in d.absent \/ Link1(f, m) \in d.failed
    BY <1>1, <1>4, <2>1 DEF Good, Looked
  <2> QED BY <1>4, <2>2, <2>3 DEF Looked
<1>8. Absent(f, d)
  <2> SUFFICES ASSUME NEW m \in LeavesOf(f), TakenForAbsent(d, m) PROVE Sought(f, d, m)
    BY DEF Absent
  <2>1. Sought(f, r, m) => Sought(f, d, m) BY <1>4, SaidMore
  <2>2. m \in Name BY DEF LeavesOf
  <2>3. CASE m = n BY <1>5, <2>1, <2>2, <2>3 DEF TakenForAbsent
  <2>4. CASE m # n
    <3>1. TakenForAbsent(r, m) BY <1>5, <2>2, <2>4 DEF TakenForAbsent
    <3> QED BY <1>1, <2>1, <3>1 DEF Good, Absent
  <2> QED BY <2>3, <2>4
<1>9. Walks(f, d) BY <1>4 DEF Walks
<1>10. Gaps(f, d, h2)
  <2> SUFFICES ASSUME d.alone, NEW z \in Stores, NEW m \in LeavesOf(f), <<z, m>> \in d.absent
               PROVE  h2[z][m] = NoValue \/ (z = Link1(f, m) /\ d.status[m] = "resolved")
    BY <1>4 DEF Gaps
  <2>1. m \in Name BY DEF LeavesOf
  <2>2. r.status[n] = "none" BY <1>2 DEF Undecided
  <2>3. h[z][m] = NoValue \/ (z = Link1(f, m) /\ r.status[m] = "resolved")
    BY <1>1, <1>4 DEF Good, Gaps
  <2>4. CASE h2[z][m] = h[z][m]
    BY <1>5, <2>1, <2>2, <2>3, <2>4
  <2>5. CASE z = Link1(f, n) /\ m = n /\ status = "resolved" BY <1>5, <2>1, <2>5
  <2> QED BY <2>1, <2>4, <2>5
<1> QED BY <1>1, <1>3, <1>4, <1>6, <1>7, <1>8, <1>9, <1>10 DEF Fine, Good, d

(* The next link of a chain.                                                *)
LEMMA LinkFine ==
    ASSUME NEW f \in Profiles, NEW h, NEW r, Fine(f, r, h), NEW b \in BOOLEAN,
           r.pc \in {"decide", "walk"},
           b /\ r.pc = "decide" => /\ Undecided(f, r) # {}
                                   /\ Said(f, r, Turn(f, r), 2..Len(f.route[Turn(f, r)])),
           b /\ r.pc = "walk" => Said(f, r, r.target, DOMAIN f.route[r.target])
    PROVE  Fine(f, [r EXCEPT !.link = r.link + 1, !.healthy = b], h)
<1> DEFINE d == [r EXCEPT !.link = r.link + 1, !.healthy = b]
<1>1. r \in ProcType /\ r.todo \cup r.prompts \subseteq LeavesOf(f) /\ Good(f, r, h) BY DEF Fine
<1>2. r.link \in Nat BY <1>1 DEF ProcType
<1>3. r.link + 1 \in Nat /\ (r.link >= 2 => r.link + 1 >= 2) BY <1>2
<1>4. d \in ProcType BY <1>1, <1>3 DEF ProcType
<1>5. /\ d.pc = r.pc /\ d.link = r.link + 1 /\ d.healthy = b
      /\ d.status = r.status /\ d.source = r.source /\ d.value = r.value
      /\ d.op = r.op /\ d.target = r.target /\ d.plan = r.plan
      /\ d.visible = r.visible /\ d.scoped = r.scoped /\ d.round = r.round /\ d.todo = r.todo
      /\ d.failed = r.failed /\ d.prompts = r.prompts
      /\ d.result = r.result /\ d.alone = r.alone /\ d.asked = r.asked /\ d.absent = r.absent
  BY <1>1 DEF ProcType
<1> HIDE DEF d
<1>6. /\ Undecided(f, d) = Undecided(f, r) /\ Turn(f, d) = Turn(f, r)
      /\ \A m : Sought(f, r, m) => Sought(f, d, m)
      /\ \A m, I : Said(f, r, m, I) => Said(f, d, m, I)
  BY <1>5, SaidMore DEF Undecided, Turn
<1>7. Planned(f, d) BY <1>1, <1>5 DEF Good, Planned
<1>8. Looked(f, d) BY <1>1, <1>3, <1>5, <1>6 DEF Good, Looked
<1>9. Absent(f, d) BY <1>1, <1>5, <1>6 DEF Good, Absent, TakenForAbsent
<1>10. Walks(f, d) BY <1>1, <1>5, <1>6 DEF Good, Walks
<1>11. Gaps(f, d, h) BY <1>1, <1>5 DEF Good, Gaps
<1> QED BY <1>1, <1>4, <1>5, <1>7, <1>8, <1>9, <1>10, <1>11 DEF Fine, Good, d
-----------------------------------------------------------------------------
(* The fetches of a pass.                                                   *)
LEMMA JoinedFine ==
    ASSUME NEW f \in Profiles, NEW h, NEW r, Fine(f, r, h), r.pc = "fetch"
    PROVE  Fine(f, Joined(r), h)
<1> DEFINE d == [r EXCEPT !.pc = "decide", !.link = 2, !.healthy = FALSE]
<1>1. r \in ProcType /\ r.todo \cup r.prompts \subseteq LeavesOf(f) /\ Good(f, r, h) BY DEF Fine
<1>2. CASE r.todo # {} BY <1>2 DEF Joined
<1>3. CASE r.todo = {}
  <2>1. d \in ProcType BY <1>1 DEF ProcType
  <2>2. /\ d.pc = "decide" /\ d.link = 2 /\ d.healthy = FALSE
        /\ d.status = r.status /\ d.source = r.source /\ d.value = r.value
        /\ d.op = r.op /\ d.target = r.target /\ d.plan = r.plan
        /\ d.visible = r.visible /\ d.scoped = r.scoped /\ d.round = r.round /\ d.todo = r.todo
        /\ d.failed = r.failed /\ d.prompts = r.prompts
        /\ d.result = r.result /\ d.alone = r.alone /\ d.asked = r.asked /\ d.absent = r.absent
    BY <1>1 DEF ProcType
  <2>3. Joined(r) = d BY <1>3 DEF Joined
  <2> HIDE DEF d
  <2>4. Planned(f, d) BY <1>1, <2>2 DEF Good, Planned
  <2>5. Undecided(f, d) = Undecided(f, r) BY <2>2 DEF Undecided
  <2>6. Looked(f, d) BY <1>1, <1>3, <2>2, <2>5 DEF Good, Looked
  <2>7. Absent(f, d) BY <1>1, <2>2, SaidMore DEF Good, Absent, TakenForAbsent
  <2>8. Walks(f, d) BY <2>2 DEF Walks
  <2>9. Gaps(f, d, h) BY <1>1, <2>2 DEF Good, Gaps
  <2> QED BY <1>1, <2>1, <2>2, <2>3, <2>4, <2>6, <2>7, <2>8, <2>9 DEF Fine, Good
<1> QED BY <1>2, <1>3

LEMMA FetchTypes ==
    ASSUME NEW r \in ProcType
    PROVE  /\ \A todo \in SUBSET Name : [r EXCEPT !.todo = todo] \in ProcType
           /\ [r EXCEPT !.pc = "fetch"] \in ProcType
BY DEF ProcType

LEMMA DecidedType ==
    ASSUME NEW r \in ProcType,
           NEW n \in Name, NEW status \in Status, NEW source \in Source, NEW v \in Maybe
    PROVE  Decided(r, n, status, source, v) \in ProcType
BY DEF ProcType, Decided

(* An answer is in; a failed group is lost.                                 *)
Heard(r, n)    == [Asks(r, Primary(n), n) EXCEPT !.todo = r.todo \ {n}]
Found(q, n, v) == [Decided(q, n, "resolved", "provider", v) EXCEPT !.pc = "fetch"]
GroupOf(r, n)  == {m \in r.plan \cap Leaves : Primary(m) = Primary(n)}
Lost(r, n, Group) ==
    [[r EXCEPT !.todo = r.todo \ Group, !.failed = r.failed \cup {Primary(n)}] EXCEPT
        !.status = [m \in Name |-> IF m \in Group THEN "none" ELSE r.status[m]],
        !.source = [m \in Name |-> IF m \in Group THEN "none" ELSE r.source[m]],
        !.value = [m \in Name |-> IF m \in Group THEN NoValue ELSE r.value[m]]]

LEMMA FetchedFine ==
    ASSUME profile \in Profiles, NEW r, Fine(profile, r, held), r.pc = "fetch",
           NEW n, n \in r.todo, NEW q, q = Heard(r, n), NEW v, v = held[Primary(n)][n], v \in Maybe
    PROVE  /\ v = NoValue => Fine(profile, q, held) /\ q.pc = "fetch"
           /\ v # NoValue => Fine(profile, Found(q, n, v), held) /\ Found(q, n, v).pc = "fetch"
<1>1. r \in ProcType /\ r.todo \cup r.prompts \subseteq LeavesOf(profile) /\ Good(profile, r, held)
  BY DEF Fine
<1>2. n \in LeavesOf(profile) /\ n \in r.plan BY <1>1 DEF Good, Planned
<1>3. n \in Name /\ Primary(n) \in Stores /\ Primary(n) = Link1(profile, n) BY <1>2, LeafOf
<1> DEFINE a == Asks(r, Primary(n), n)
<1>4. /\ Fine(profile, a, held) /\ a.pc = "fetch" /\ a.plan = r.plan /\ a.status = r.status
      /\ a.todo = r.todo /\ a.op = r.op /\ a.target = r.target
      /\ (v = NoValue => <<Primary(n), n>> \in a.absent)
  BY <1>2, <1>3, AsksFine
<1> HIDE DEF a
<1>5. a \in ProcType /\ a.todo \cup a.prompts \subseteq LeavesOf(profile) /\ Good(profile, a, held)
  BY <1>4 DEF Fine
<1>6. q = [a EXCEPT !.todo = r.todo \ {n}] BY DEF a, Heard
<1>7. q \in ProcType
  <2>1. r.todo \ {n} \in SUBSET Name BY <1>1 DEF ProcType
  <2> QED BY <1>5, <1>6, <2>1, FetchTypes
<1>8. CASE v = NoValue
  <2>2. /\ q.pc = "fetch" /\ q.todo = a.todo \ {n}
        /\ q.status = a.status /\ q.source = a.source /\ q.value = a.value
        /\ q.op = a.op /\ q.target = a.target /\ q.plan = a.plan
        /\ q.visible = a.visible /\ q.scoped = a.scoped /\ q.round = a.round
        /\ q.failed = a.failed /\ q.prompts = a.prompts
        /\ q.result = a.result /\ q.alone = a.alone /\ q.asked = a.asked /\ q.absent = a.absent
    BY <1>4, <1>5, <1>6 DEF ProcType
  <2>3. Planned(profile, q) BY <1>4, <1>5, <2>2 DEF Good, Planned
  <2>4. Looked(profile, q)
    <3>1. Undecided(profile, q) = Undecided(profile, a) BY <2>2 DEF Undecided
    <3> QED BY <1>3, <1>4, <1>5, <1>8, <2>2, <3>1 DEF Good, Looked
  <2>5. Absent(profile, q) BY <1>5, <2>2, SaidMore DEF Good, Absent, TakenForAbsent
  <2>6. Walks(profile, q) BY <2>2 DEF Walks
  <2>7. Gaps(profile, q, held) BY <1>4, <1>5, <2>2 DEF Good, Gaps
  <2> QED BY <1>5, <1>7, <1>8, <2>2, <2>3, <2>4, <2>5, <2>6, <2>7 DEF Fine, Good
<1>9. CASE v # NoValue
  <2> DEFINE d == Found(q, n, v)
  <2>1. d \in ProcType
    <3>1. "resolved" \in Status /\ "provider" \in Source BY DEF Status, Source
    <3>2. Decided(q, n, "resolved", "provider", v) \in ProcType
      BY <1>3, <1>7, <3>1, DecidedType
    <3> QED BY <3>2, FetchTypes DEF Found
  <2>2. /\ d.pc = "fetch" /\ d.todo = a.todo \ {n}
        /\ d.status = [a.status EXCEPT ![n] = "resolved"]
        /\ d.source = [a.source EXCEPT ![n] = "provider"]
        /\ d.op = a.op /\ d.target = a.target /\ d.plan = a.plan
        /\ d.visible = a.visible /\ d.scoped = a.scoped /\ d.round = a.round
        /\ d.failed = a.failed /\ d.prompts = a.prompts
        /\ d.result = a.result /\ d.alone = a.alone /\ d.asked = a.asked /\ d.absent = a.absent
    BY <1>4, <1>5, <1>6 DEF ProcType, Decided, Found
  <2> HIDE DEF d
  <2>3. \A m \in Name : d.status[m] = (IF m = n THEN "resolved" ELSE a.status[m])
                        /\ d.source[m] = (IF m = n THEN "provider" ELSE a.source[m])
    BY <1>5, <2>2 DEF ProcType
  <2>4. Planned(profile, d) BY <1>4, <1>5, <2>2 DEF Good, Planned
  <2>5. Looked(profile, d)
    <3>1. Undecided(profile, d) \subseteq Undecided(profile, a) \ {n}
      BY <2>2, <2>3 DEF Undecided, LeavesOf
    <3>2. \A m \in Undecided(profile, d) \ d.todo :
             <<Link1(profile, m), m>> \in d.absent \/ Link1(profile, m) \in d.failed
      BY <1>4, <1>5, <2>2, <3>1 DEF Good, Looked
    <3> QED BY <2>2, <3>2 DEF Looked
  <2>6. Absent(profile, d)
    <3> SUFFICES ASSUME NEW m \in LeavesOf(profile), TakenForAbsent(d, m)
                 PROVE  Sought(profile, d, m)
      BY DEF Absent
    <3>1. m # n /\ TakenForAbsent(a, m) BY <2>3 DEF TakenForAbsent, LeavesOf
    <3> QED BY <1>5, <2>2, <3>1, SaidMore DEF Good, Absent
  <2>7. Walks(profile, d) BY <2>2 DEF Walks
  <2>8. Gaps(profile, d, held) BY <1>4, <1>5, <2>2 DEF Good, Gaps
  <2>9. Fine(profile, d, held)
    BY <1>5, <2>1, <2>2, <2>4, <2>5, <2>6, <2>7, <2>8 DEF Fine, Good
  <2> QED BY <1>9, <2>2, <2>9 DEF d
<1> QED BY <1>8, <1>9

LEMMA LostFine ==
    ASSUME profile \in Profiles, NEW r, Fine(profile, r, held), r.pc = "fetch",
           NEW n, n \in r.todo, NEW Group, Group = GroupOf(r, n), NEW q, q = Lost(r, n, Group)
    PROVE  Fine(profile, q, held) /\ q.pc = "fetch"
<1>1. r \in ProcType /\ r.todo \cup r.prompts \subseteq LeavesOf(profile) /\ Good(profile, r, held)
  BY DEF Fine
<1>2. n \in LeavesOf(profile) /\ Leaves = LeavesOf(profile)
  BY <1>1 DEF Leaves, LeavesOf, Composed
<1>3. Primary(n) \in Stores BY <1>2, LeafOf
<1>4. /\ [m \in Name |-> IF m \in Group THEN "none" ELSE r.status[m]] \in [Name -> Status]
      /\ [m \in Name |-> IF m \in Group THEN "none" ELSE r.source[m]] \in [Name -> Source]
      /\ [m \in Name |-> IF m \in Group THEN NoValue ELSE r.value[m]] \in [Name -> Maybe]
  BY <1>1 DEF ProcType, Status, Source, Maybe
<1>5. q \in ProcType BY <1>1, <1>3, <1>4 DEF ProcType, Lost
<1>6. /\ q.pc = "fetch" /\ q.todo = r.todo \ Group /\ q.failed = r.failed \cup {Primary(n)}
      /\ q.status = [m \in Name |-> IF m \in Group THEN "none" ELSE r.status[m]]
      /\ q.source = [m \in Name |-> IF m \in Group THEN "none" ELSE r.source[m]]
      /\ q.op = r.op /\ q.target = r.target /\ q.plan = r.plan
      /\ q.visible = r.visible /\ q.scoped = r.scoped /\ q.round = r.round
      /\ q.prompts = r.prompts
      /\ q.result = r.result /\ q.alone = r.alone /\ q.asked = r.asked /\ q.absent = r.absent
  BY <1>1 DEF ProcType, Lost
<1>7. Planned(profile, q) BY <1>1, <1>6 DEF Good, Planned
<1>8. Looked(profile, q)
  <2> SUFFICES ASSUME NEW m \in Undecided(profile, q) \ q.todo
               PROVE  <<Link1(profile, m), m>> \in q.absent \/ Link1(profile, m) \in q.failed
    BY <1>6 DEF Looked
  <2>1. m \in LeavesOf(profile) /\ m \in r.plan /\ m \in Name BY <1>6 DEF Undecided, LeavesOf
  <2>2. CASE m \in Group BY <1>6, <2>1, <2>2, LeafOf DEF GroupOf
  <2>3. CASE m \notin Group
    <3>1. m \in Undecided(profile, r) \ r.todo BY <1>6, <2>1, <2>3 DEF Undecided
    <3> QED BY <1>1, <1>6, <3>1 DEF Good, Looked
  <2> QED BY <2>2, <2>3
<1>9. Absent(profile, q)
  <2> SUFFICES ASSUME NEW m \in LeavesOf(profile), TakenForAbsent(q, m) PROVE Sought(profile, q, m)
    BY DEF Absent
  <2>1. m \notin Group /\ TakenForAbsent(r, m) BY <1>6 DEF TakenForAbsent, LeavesOf
  <2>2. Sought(profile, r, m) BY <1>1, <2>1 DEF Good, Absent
  <2>3. r.absent \subseteq q.absent BY <1>6
  <2> QED BY <2>2, <2>3, SaidMore
<1>10. Walks(profile, q) BY <1>6 DEF Walks
<1>11. Gaps(profile, q, held) BY <1>1, <1>6 DEF Good, Gaps
<1> QED BY <1>1, <1>5, <1>6, <1>7, <1>8, <1>9, <1>10, <1>11 DEF Fine, Good
-----------------------------------------------------------------------------
(* The same of what a pass has concluded, while the stores are as it found  *)
(* them.  What was concluded about a secret stays so while its stores do.   *)
LEMMA SameOutcome ==
    ASSUME profile \in Profiles, NEW D, NEW h, NEW h2, NEW r, NEW d, NEW n \in LeavesOf(profile),
           d.status[n] = r.status[n], d.source[n] = r.source[n], d.value[n] = r.value[n],
           Link1(profile, n) \in d.failed <=> Link1(profile, n) \in r.failed,
           \A s \in Stores : h2[s][n] = h[s][n]
    PROVE  /\ Outcome(profile, D, h, r, n) => Outcome(profile, D, h2, d, n)
           /\ Lacks(profile, D, h, r, n) => Lacks(profile, D, h2, d, n)
           /\ \A I : Bare(profile, D, h, n, I) => Bare(profile, D, h2, n, I)
<1>1. /\ Link1(profile, n) \in Stores
      /\ \A i \in DOMAIN profile.route[n] : profile.route[n][i] \in Stores
  BY LeafOf DEF Chain
<1>2. \A I : Bare(profile, D, h, n, I) => Bare(profile, D, h2, n, I) BY <1>1 DEF Bare
<1>3. \A k, v : Gives(profile, D, h, n, k, v) => Gives(profile, D, h2, n, k, v)
  BY <1>1, <1>2 DEF Gives
<1>4. Lacks(profile, D, h, r, n) => Lacks(profile, D, h2, d, n) BY <1>1, <1>2 DEF Lacks
<1>5. ByFirst(profile, h, r, n) => ByFirst(profile, h2, d, n) BY <1>1 DEF ByFirst
<1>6. ByOther(profile, D, h, r, n) => ByOther(profile, D, h2, d, n) BY <1>1, <1>3 DEF ByOther
<1>7. ByPolicy(profile, r, n) => ByPolicy(profile, d, n) BY DEF ByPolicy
<1> QED BY <1>2, <1>4, <1>5, <1>6, <1>7 DEF Outcome

(* Of a record only these fields matter.                                    *)
LEMMA SameRight ==
    ASSUME profile \in Profiles, NEW D, NEW h, NEW r, NEW d, Right(profile, D, h, r),
           d.pc = r.pc, d.op = r.op, d.target = r.target, d.plan = r.plan, d.todo = r.todo,
           d.failed = r.failed, d.status = r.status, d.source = r.source, d.value = r.value,
           d.link = r.link, d.healthy = r.healthy, d.result = r.result
    PROVE  Right(profile, D, h, d)
<1>1. Groups(profile, D, d) BY DEF Right, Groups, Begun
<1>2. \A n \in LeavesOf(profile) :
        /\ Outcome(profile, D, h, r, n) => Outcome(profile, D, h, d, n)
        /\ Lacks(profile, D, h, r, n) => Lacks(profile, D, h, d, n)
  BY SameOutcome
<1>3. Undecided(profile, d) = Undecided(profile, r) /\ Turn(profile, d) = Turn(profile, r)
      /\ Walker(profile, d) = Walker(profile, r)
  BY DEF Undecided, Turn, Walker
<1>4. Outcomes(profile, D, h, d) BY <1>2, <1>3 DEF Right, Outcomes
<1>5. Turns(profile, D, h, d) BY <1>3 DEF Right, Turns, Lacks
<1>6. Walked(profile, D, h, d) BY <1>3 DEF Right, Walked
<1> QED BY <1>1, <1>4, <1>5, <1>6 DEF Right

(* A pass that has decided goes on to its end or to prompting.              *)
LEMMA LaterRight ==
    ASSUME profile \in Profiles, NEW D, NEW h, NEW r, NEW d, Right(profile, D, h, r),
           r.pc \in {"walk", "decide", "generate", "prompt"}, d.pc \in {"done", "prompt"},
           d.pc = "prompt" => r.pc # "walk",
           d.op = r.op, d.target = r.target, d.plan = r.plan, d.todo = r.todo,
           d.failed = r.failed, d.status = r.status, d.source = r.source,
           d.value = r.value \/ Walker(profile, r),
           \A n \in Name : d.value[n] = r.value[n] \/ r.status[n] = "none",
           Walked(profile, D, h, d)
    PROVE  Right(profile, D, h, d)
<1>1. Groups(profile, D, d) BY DEF Right, Groups, Begun
<1>2. \A n \in LeavesOf(profile) : r.status[n] # "none" /\ Outcome(profile, D, h, r, n)
                                      => Outcome(profile, D, h, d, n)
  BY SameOutcome DEF LeavesOf
<1>3. Outcomes(profile, D, h, d) BY <1>2 DEF Right, Outcomes, Walker
<1>4. Turns(profile, D, h, d) BY DEF Turns
<1> QED BY <1>1, <1>3, <1>4 DEF Right

LEMMA EndsSure ==
    ASSUME profile \in Profiles, NEW D, NEW h, NEW r \in ProcType, Sure(profile, D, h, r),
           r.pc \in {"walk", "decide", "generate", "prompt"},
           NEW how \in {"ok", "missing", "error", "refused"},
           Right(profile, D, h, r) /\ Walker(profile, r) =>
              Arrives(profile, D, h, r.target, how, r.value[r.target])
    PROVE  Sure(profile, D, h, Ends(r, how))
<1>1. PICK d : d = Ends(r, how) OBVIOUS
<1>2. /\ d.pc = "done" /\ d.result = how /\ d.op = r.op /\ d.target = r.target /\ d.plan = r.plan
      /\ d.todo = r.todo /\ d.failed = r.failed /\ d.status = r.status /\ d.source = r.source
      /\ d.value = r.value /\ d.steady = r.steady
  BY <1>1 DEF ProcType, Ends
<1>3. ASSUME d.steady PROVE Right(profile, D, h, d)
  <2>1. Right(profile, D, h, r) BY <1>2, <1>3 DEF Sure
  <2>2. Walked(profile, D, h, d) BY <1>2, <2>1 DEF Walked, Walker
  <2> QED BY <1>2, <2>1, <2>2, LaterRight
<1> QED BY <1>1, <1>3 DEF Sure

(* A command that has just begun: nothing is concluded.                     *)
LEMMA FreshRight ==
    ASSUME profile \in Profiles, NEW D, NEW h, NEW d,
           d.failed = {}, d.status = [n \in Name |-> "none"], d.value = [n \in Name |-> NoValue],
           \/ d.pc = "fetch" /\ d.todo = d.plan \cap LeavesOf(profile)
           \/ d.pc = "done" /\ d.todo = {} /\ ~Walker(profile, d)
           \/ d.pc = "walk" /\ d.todo = {} /\ d.link = 1
    PROVE  Right(profile, D, h, d)
<1>1. \A n \in LeavesOf(profile) : n \in Name BY DEF LeavesOf
<1>2. Groups(profile, D, d) BY <1>1 DEF Groups, Begun
<1>3. Outcomes(profile, D, h, d)
  <2>1. Undecided(profile, d) \subseteq d.plan \cap LeavesOf(profile) BY DEF Undecided
  <2> QED BY <1>1, <2>1 DEF Outcomes
<1>4. Turns(profile, D, h, d) BY DEF Turns
<1>5. Composes(profile, d.plan, d.status) BY DEF Composes
<1>6. Walked(profile, D, h, d)
  <2>1. d.link = 1 => 1..(d.link - 1) = {} BY SMT
  <2> QED BY <2>1 DEF Walked, Bare, Closed
<1> QED BY <1>2, <1>3, <1>4, <1>5, <1>6 DEF Right

LEMMA PassSure ==
    ASSUME profile \in Profiles, NEW D, NEW h, NEW r, Fresh(profile, r)
    PROVE  Sure(profile, D, h, Pass(r))
<1>1. PICK d : d = Pass(r) OBVIOUS
<1>2. Leaves = LeavesOf(profile) BY DEF Leaves, LeavesOf, Composed
<1>3. /\ d.pc = "fetch" /\ d.todo = d.plan \cap LeavesOf(profile) /\ d.failed = {}
      /\ d.status = [n \in Name |-> "none"] /\ d.value = [n \in Name |-> NoValue]
  BY <1>1, <1>2 DEF Fresh, ProcType, Pass
<1>4. Right(profile, D, h, d) BY <1>3, FreshRight
<1> QED BY <1>1, <1>4 DEF Sure

LEMMA StartedSure ==
    ASSUME profile \in Profiles, NEW D, NEW h, NEW r, Fresh(profile, r),
           r.op = "get" => r.target \notin LeavesOf(profile)
    PROVE  Sure(profile, D, h, Started(r))
<1>1. ASSUME NEW how \in {"ok", "error"} PROVE Sure(profile, D, h, Ends(r, how))
  <2>1. PICK d : d = Ends(r, how) OBVIOUS
  <2>2. /\ d.pc = "done" /\ d.todo = {} /\ d.failed = {} /\ d.op = r.op /\ d.target = r.target
        /\ d.status = [n \in Name |-> "none"] /\ d.value = [n \in Name |-> NoValue]
    BY <2>1 DEF Fresh, ProcType, Ends
  <2>3. ~Walker(profile, d) BY <2>2 DEF Walker
  <2>4. Right(profile, D, h, d) BY <2>2, <2>3, FreshRight
  <2> QED BY <2>1, <2>4 DEF Sure
<1>2. Sure(profile, D, h, Pass(r)) BY PassSure
<1> QED BY <1>1, <1>2 DEF Started

LEMMA AsksSure ==
    ASSUME profile \in Profiles, NEW D, NEW h, NEW r \in ProcType, Sure(profile, D, h, r),
           NEW s, NEW n
    PROVE  /\ Sure(profile, D, h, Asks(r, s, n))
           /\ Asks(r, s, n).failed = r.failed /\ Asks(r, s, n).steady = r.steady
           /\ Asks(r, s, n).healthy = r.healthy /\ Asks(r, s, n).value = r.value
           /\ Asks(r, s, n).source = r.source
<1>1. PICK d : d = Asks(r, s, n) OBVIOUS
<1>2. /\ d.pc = r.pc /\ d.op = r.op /\ d.target = r.target /\ d.plan = r.plan /\ d.todo = r.todo
      /\ d.failed = r.failed /\ d.status = r.status /\ d.source = r.source /\ d.value = r.value
      /\ d.link = r.link /\ d.healthy = r.healthy /\ d.result = r.result /\ d.steady = r.steady
  BY <1>1 DEF ProcType, Asks
<1>3. ASSUME d.steady, d.pc # "idle" PROVE Right(profile, D, h, d)
  <2>1. Right(profile, D, h, r) BY <1>2, <1>3 DEF Sure
  <2> QED BY <1>2, <2>1, SameRight
<1> QED BY <1>1, <1>2, <1>3 DEF Sure

(* The turn's secret is decided; what was concluded of the others stays.    *)
LEMMA DecidedSure ==
    ASSUME profile \in Profiles, NEW D, NEW h, NEW h2, NEW r, Fine(profile, r, h), Sure(profile, D, h, r),
           r.pc \in {"decide", "generate"}, Undecided(profile, r) # {}, NEW n, n = Turn(profile, r),
           NEW status \in Status \ {"none"}, NEW source \in Source, NEW v \in Maybe,
           \A s \in Stores, m \in Name \ {n} : h2[s][m] = h[s][m],
           Right(profile, D, h, r) => Outcome(profile, D, h2, Decided(r, n, status, source, v), n)
    PROVE  Sure(profile, D, h2, Decided(r, n, status, source, v))
<1>1. PICK d : d = Decided(r, n, status, source, v) OBVIOUS
<1>2. r \in ProcType /\ n \in Undecided(profile, r) /\ n \in LeavesOf(profile) /\ n \in Name
      /\ n \in r.plan /\ r.status[n] = "none"
  BY TurnOf DEF Fine, ProcType, Undecided, LeavesOf
<1>3. /\ d.pc = "decide" /\ d.link = 2 /\ d.op = r.op /\ d.target = r.target /\ d.plan = r.plan
      /\ d.todo = r.todo /\ d.failed = r.failed /\ d.steady = r.steady
      /\ d.status = [r.status EXCEPT ![n] = status] /\ d.source = [r.source EXCEPT ![n] = source]
      /\ d.value = [r.value EXCEPT ![n] = v]
  BY <1>1, <1>2 DEF ProcType, Decided
<1>4. \A m \in Name : /\ d.status[m] = (IF m = n THEN status ELSE r.status[m])
                      /\ d.source[m] = (IF m = n THEN source ELSE r.source[m])
                      /\ d.value[m] = (IF m = n THEN v ELSE r.value[m])
  BY <1>2, <1>3 DEF ProcType
<1>5. ASSUME d.steady PROVE Right(profile, D, h2, d)
  <2>1. Right(profile, D, h, r) BY <1>3, <1>5 DEF Sure
  <2>2. Outcome(profile, D, h2, d, n) BY <1>1, <2>1
  <2>3. \A m \in LeavesOf(profile) \ {n} : Outcome(profile, D, h, r, m) => Outcome(profile, D, h2, d, m)
    <3> SUFFICES ASSUME NEW m \in LeavesOf(profile) \ {n}
                 PROVE  Outcome(profile, D, h, r, m) => Outcome(profile, D, h2, d, m)
      OBVIOUS
    <3>1. m \in Name \ {n} BY DEF LeavesOf
    <3>2. \A s \in Stores : h2[s][m] = h[s][m] BY <3>1
    <3> QED BY <1>3, <1>4, <3>1, <3>2, SameOutcome
  <2>4. Begun(r) BY DEF Begun
  <2>5. Groups(profile, D, d) BY <1>3, <2>1, <2>4 DEF Right, Groups
  <2>6. Undecided(profile, d) \subseteq Undecided(profile, r) \ {n}
    BY <1>3, <1>4 DEF Undecided, LeavesOf
  <2>7. Walker(profile, d) = Walker(profile, r) BY <1>3 DEF Walker
  <2>8. Outcomes(profile, D, h2, d)
    <3>1. \A m \in LeavesOf(profile) : d.status[m] # "none" =>
             m \notin d.todo /\ Outcome(profile, D, h2, d, m)
      <4>1. n \notin r.todo BY <2>1 DEF Right, Groups
      <4> QED BY <1>3, <1>4, <2>1, <2>2, <2>3, <4>1 DEF Right, Outcomes, LeavesOf
    <3>2. ~Walker(profile, d) => \A m \in Name :
             d.status[m] = "none" \/ m \notin LeavesOf(profile) => d.value[m] = NoValue
      BY <1>2, <1>4, <2>1, <2>7 DEF Right, Outcomes
    <3>3. \A m \in Undecided(profile, d) \ d.todo :
             Link1(profile, m) \in d.failed \/ h2[Link1(profile, m)][m] = NoValue
      <4> SUFFICES ASSUME NEW m \in Undecided(profile, d) \ d.todo
                   PROVE  Link1(profile, m) \in d.failed \/ h2[Link1(profile, m)][m] = NoValue
        OBVIOUS
      <4>1. m \in LeavesOf(profile) /\ m \in Name \ {n} /\ m \in Undecided(profile, r) \ r.todo
        BY <1>3, <2>6 DEF Undecided, LeavesOf
      <4>2. Link1(profile, m) \in Stores BY <4>1, LeafOf
      <4> QED BY <1>3, <2>1, <4>1, <4>2 DEF Right, Outcomes
    <3> QED BY <3>1, <3>2, <3>3 DEF Outcomes
  <2>9. Turns(profile, D, h2, d)
    <3>1. 2..(2 - 1) = {} BY SMT
    <3> QED BY <1>3, <3>1 DEF Turns, Bare
  <2>10. Composes(profile, d.plan, d.status)
    <3>1. profile.parts \in [Name -> SUBSET Name] BY Fields
    <3>2. \A m \in Name : d.status[m] # "none" => m \in d.plan
      BY <1>2, <1>3, <1>4, <2>1 DEF Right, Composes
    <3>3. ASSUME NEW m \in Name \ LeavesOf(profile), d.status[m] # "none"
          PROVE  (\A x \in profile.parts[m] : d.status[x] # "none")
                 /\ d.status[m] = OutcomeOf(profile, m, d.status)
      <4>1. m # n /\ r.status[m] # "none" /\ r.status[m] = d.status[m] BY <1>2, <1>4, <3>3
      <4>2. (\A x \in profile.parts[m] : r.status[x] # "none")
            /\ r.status[m] = OutcomeOf(profile, m, r.status)
        BY <2>1, <4>1 DEF Right, Composes
      <4>3. \A x \in profile.parts[m] : x \in Name /\ x # n BY <1>2, <3>1, <4>2
      <4>4. \A x \in profile.parts[m] : d.status[x] = r.status[x] BY <1>4, <4>3
      <4> QED BY <4>1, <4>2, <4>4 DEF OutcomeOf
    <3> QED BY <3>2, <3>3 DEF Composes
  <2>11. Walked(profile, D, h2, d) BY <1>3 DEF Walked
  <2> QED BY <1>3, <2>5, <2>8, <2>9, <2>10, <2>11 DEF Right
<1> QED BY <1>1, <1>3, <1>5 DEF Sure

(* The next link, and what the one before it has shown.                     *)
LEMMA LinkSure ==
    ASSUME profile \in Profiles, NEW D, NEW h, NEW r, Fine(profile, r, h), Sure(profile, D, h, r),
           NEW b \in BOOLEAN, r.pc \in {"decide", "walk"}, r.pc = "decide" => Undecided(profile, r) # {},
           NEW n, n = IF r.pc = "walk" THEN r.target ELSE Turn(profile, r),
           r.link \in DOMAIN profile.route[n],
           \/ Shut(profile, D, profile.route[n][r.link], n) /\ (b <=> r.healthy)
           \/ h[profile.route[n][r.link]][n] = NoValue /\ b
    PROVE  Sure(profile, D, h, [r EXCEPT !.link = r.link + 1, !.healthy = b])
<1>1. PICK d : d = [r EXCEPT !.link = r.link + 1, !.healthy = b] OBVIOUS
<1>2. r \in ProcType /\ r.link \in Nat BY DEF Fine, ProcType
<1>3. /\ d.pc = r.pc /\ d.op = r.op /\ d.target = r.target /\ d.plan = r.plan /\ d.todo = r.todo
      /\ d.failed = r.failed /\ d.status = r.status /\ d.source = r.source /\ d.value = r.value
      /\ d.link = r.link + 1 /\ d.healthy = b /\ d.result = r.result /\ d.steady = r.steady
  BY <1>1, <1>2 DEF ProcType
<1>4. ASSUME d.steady PROVE Right(profile, D, h, d)
  <2>1. Right(profile, D, h, r) BY <1>3, <1>4 DEF Sure
  <2>3. Undecided(profile, d) = Undecided(profile, r) /\ Turn(profile, d) = Turn(profile, r)
        /\ Walker(profile, d) = Walker(profile, r)
    BY <1>3 DEF Undecided, Turn, Walker
  <2>4. Groups(profile, D, d) BY <1>3, <2>1 DEF Right, Groups, Begun
  <2>5. \A m \in LeavesOf(profile) : Outcome(profile, D, h, r, m) => Outcome(profile, D, h, d, m)
    BY <1>3, SameOutcome
  <2>6. Outcomes(profile, D, h, d) BY <1>3, <2>1, <2>3, <2>5 DEF Right, Outcomes
  <2>7. (r.link + 1) - 1 = r.link BY <1>2
  <2>8. Bare(profile, D, h, n, {r.link}) BY DEF Bare
  <2>9. ASSUME NEW k \in Nat, Bare(profile, D, h, n, k..(r.link - 1))
        PROVE  Bare(profile, D, h, n, k..r.link)
    <3>1. k..r.link \subseteq (k..(r.link - 1)) \cup {r.link} BY <1>2
    <3> QED BY <2>8, <2>9, <3>1 DEF Bare
  <2>10. Turns(profile, D, h, d)
    BY <1>3, <2>1, <2>3, <2>7, <2>9 DEF Right, Turns
  <2>11. Walked(profile, D, h, d)
    <3> SUFFICES ASSUME r.pc = "walk"
                 PROVE  /\ d.link >= 1 /\ Bare(profile, D, h, n, 1..(d.link - 1))
                        /\ ~d.healthy => Closed(profile, D, n, 1..(d.link - 1))
      BY <1>3, <2>1 DEF Right, Walked
    <3>1. Bare(profile, D, h, n, 1..(d.link - 1)) BY <1>3, <2>1, <2>7, <2>9 DEF Right, Walked
    <3>2. ASSUME ~b PROVE Closed(profile, D, n, 1..r.link)
      <4>1. Shut(profile, D, profile.route[n][r.link], n) /\ ~r.healthy BY <3>2
      <4>2. Closed(profile, D, n, 1..(r.link - 1)) BY <2>1, <4>1 DEF Right, Walked
      <4>3. 1..r.link \subseteq (1..(r.link - 1)) \cup {r.link} BY <1>2
      <4> QED BY <4>1, <4>2, <4>3 DEF Closed
    <3> QED BY <1>2, <1>3, <2>7, <3>1, <3>2
  <2> QED BY <1>3, <2>1, <2>4, <2>6, <2>10, <2>11 DEF Right
<1> QED BY <1>1, <1>3, <1>4 DEF Sure

(* The fetches.                                                             *)
LEMMA JoinedSure ==
    ASSUME profile \in Profiles, NEW D, NEW h, NEW r \in ProcType, Sure(profile, D, h, r),
           r.pc = "fetch"
    PROVE  Sure(profile, D, h, Joined(r))
<1>1. CASE r.todo # {} BY <1>1 DEF Joined
<1>2. CASE r.todo = {}
  <2>1. PICK d : d = Joined(r) OBVIOUS
  <2>2. /\ d.pc = "decide" /\ d.link = 2 /\ d.op = r.op /\ d.target = r.target /\ d.plan = r.plan
        /\ d.todo = {} /\ d.failed = r.failed /\ d.status = r.status /\ d.source = r.source
        /\ d.value = r.value /\ d.steady = r.steady
    BY <1>2, <2>1 DEF ProcType, Joined
  <2>3. ASSUME d.steady PROVE Right(profile, D, h, d)
    <3>1. Right(profile, D, h, r) BY <2>2, <2>3 DEF Sure
    <3>2. Groups(profile, D, d) BY <1>2, <2>2, <3>1 DEF Right, Groups, Begun
    <3>3. \A m \in LeavesOf(profile) : Outcome(profile, D, h, r, m) => Outcome(profile, D, h, d, m)
      BY <2>2, SameOutcome
    <3>4. Undecided(profile, d) = Undecided(profile, r) /\ Walker(profile, d) = Walker(profile, r)
      BY <2>2 DEF Undecided, Walker
    <3>5. Outcomes(profile, D, h, d) BY <1>2, <2>2, <3>1, <3>3, <3>4 DEF Right, Outcomes
    <3>6. 2..(2 - 1) = {} BY SMT
    <3>7. Turns(profile, D, h, d) /\ Walked(profile, D, h, d)
      BY <2>2, <3>6 DEF Turns, Walked, Bare
    <3> QED BY <2>2, <3>1, <3>2, <3>5, <3>7 DEF Right
  <2> QED BY <2>1, <2>2, <2>3 DEF Sure
<1> QED BY <1>1, <1>2

LEMMA HeardRight ==
    ASSUME profile \in Profiles, NEW D, NEW r, NEW d, Right(profile, D, held, r),
           NEW n \in r.todo, n \in LeavesOf(profile), n \in r.plan,
           ~Shut(profile, D, Primary(n), n), r.pc = "fetch", ~Walker(profile, r),
           d.pc = "fetch", d.op = r.op, d.target = r.target, d.plan = r.plan,
           d.todo = r.todo \ {n}, d.failed = r.failed,
           \A m \in Name \ {n} : /\ d.status[m] = r.status[m] /\ d.source[m] = r.source[m]
                                 /\ d.value[m] = r.value[m],
           \/ held[Primary(n)][n] = NoValue /\ d.status[n] = r.status[n] /\ d.source[n] = r.source[n]
              /\ d.value[n] = r.value[n]
           \/ held[Primary(n)][n] # NoValue /\ d.status[n] = "resolved"
              /\ d.value[n] = held[Primary(n)][n]
    PROVE  Right(profile, D, held, d)
<1>1. Primary(n) = Link1(profile, n) /\ n \in Name BY LeafOf
<1>2. Link1(profile, n) \notin r.failed BY DEF Right, Groups
<1>3. r.status[n] = "none" /\ r.value[n] = NoValue BY <1>1 DEF Right, Outcomes
<1>4. Groups(profile, D, d) BY <1>1 DEF Right, Groups, Begun
<1>5. \A m \in LeavesOf(profile) \ {n} :
         Outcome(profile, D, held, r, m) => Outcome(profile, D, held, d, m)
  BY SameOutcome DEF LeavesOf
<1>6. d.status[n] # "none" => Outcome(profile, D, held, d, n)
  BY <1>1, <1>2, <1>3 DEF Outcome, ByFirst
<1>7. Outcomes(profile, D, held, d)
  <2>1. \A m \in LeavesOf(profile) : d.status[m] # "none" =>
           m \notin d.todo /\ Outcome(profile, D, held, d, m)
    BY <1>5, <1>6 DEF Right, Outcomes, LeavesOf
  <2>2. \A m \in Name : d.status[m] = "none" \/ m \notin LeavesOf(profile) => d.value[m] = NoValue
    BY <1>3 DEF Right, Outcomes
  <2>3. \A m \in Undecided(profile, d) \ d.todo :
           Link1(profile, m) \in d.failed \/ held[Link1(profile, m)][m] = NoValue
    <3> SUFFICES ASSUME NEW m \in Undecided(profile, d) \ d.todo
                 PROVE  Link1(profile, m) \in d.failed \/ held[Link1(profile, m)][m] = NoValue
      OBVIOUS
    <3>1. CASE m = n BY <1>1, <3>1 DEF Undecided
    <3>2. CASE m # n
      <4>1. m \in Undecided(profile, r) \ r.todo BY <3>2 DEF Undecided, LeavesOf
      <4> QED BY <4>1 DEF Right, Outcomes
    <3> QED BY <3>1, <3>2
  <2> QED BY <2>1, <2>2, <2>3 DEF Outcomes
<1>8. Turns(profile, D, held, d) /\ Walked(profile, D, held, d) BY DEF Turns, Walked
<1>9. \A m \in Name \ LeavesOf(profile) : d.status[m] = "none" BY DEF Right
<1>10. Composes(profile, d.plan, d.status) BY <1>9 DEF Right, Composes
<1> QED BY <1>4, <1>7, <1>8, <1>9, <1>10 DEF Right

LEMMA FetchedSure ==
    ASSUME profile \in Profiles, NEW D, NEW r, Fine(profile, r, held), Sure(profile, D, held, r),
           r.pc = "fetch", NEW n, n \in r.todo, ~Shut(profile, D, Primary(n), n),
           NEW q, q = Heard(r, n), NEW v, v = held[Primary(n)][n]
    PROVE  /\ v = NoValue => Sure(profile, D, held, q)
           /\ v # NoValue => Sure(profile, D, held, Found(q, n, v))
<1>1. r \in ProcType /\ n \in LeavesOf(profile) /\ n \in r.plan /\ ~Walker(profile, r)
  BY DEF Fine, Good, Planned, Walker
<1>2. n \in Name BY <1>1 DEF LeavesOf
<1>3. /\ q.pc = "fetch" /\ q.op = r.op /\ q.target = r.target /\ q.plan = r.plan
      /\ q.todo = r.todo \ {n} /\ q.failed = r.failed /\ q.status = r.status
      /\ q.source = r.source /\ q.value = r.value /\ q.steady = r.steady
  BY <1>1 DEF Heard, Asks, ProcType
<1>4. ASSUME v = NoValue PROVE Sure(profile, D, held, q)
  BY <1>1, <1>3, <1>4, HeardRight DEF Sure
<1>5. ASSUME v # NoValue PROVE Sure(profile, D, held, Found(q, n, v))
  <2>1. PICK d : d = Found(q, n, v) OBVIOUS
  <2>2. /\ d.pc = "fetch" /\ d.op = r.op /\ d.target = r.target /\ d.plan = r.plan
        /\ d.todo = r.todo \ {n} /\ d.failed = r.failed /\ d.steady = r.steady
        /\ d.status = [r.status EXCEPT ![n] = "resolved"]
        /\ d.source = [r.source EXCEPT ![n] = "provider"]
        /\ d.value = [r.value EXCEPT ![n] = v]
    BY <1>1, <2>1 DEF Heard, Asks, Found, Decided, ProcType
  <2>3. /\ d.status[n] = "resolved" /\ d.value[n] = v
        /\ \A m \in Name \ {n} : /\ d.status[m] = r.status[m] /\ d.source[m] = r.source[m]
                                 /\ d.value[m] = r.value[m]
    BY <1>1, <1>2, <2>2 DEF ProcType
  <2>4. ASSUME d.steady PROVE Right(profile, D, held, d)
    <3>1. Right(profile, D, held, r) BY <2>2, <2>4 DEF Sure
    <3>2. /\ held[Primary(n)][n] # NoValue /\ d.status[n] = "resolved"
          /\ d.value[n] = held[Primary(n)][n]
      BY <1>5, <2>3
    <3>3. d.pc = "fetch" /\ d.op = r.op /\ d.target = r.target /\ d.plan = r.plan
          /\ d.todo = r.todo \ {n} /\ d.failed = r.failed
      BY <2>2
    <3>4. \A m \in Name \ {n} : /\ d.status[m] = r.status[m] /\ d.source[m] = r.source[m]
                               /\ d.value[m] = r.value[m]
      BY <2>3
    <3> QED BY <1>1, <3>1, <3>2, <3>3, <3>4, HeardRight
  <2> QED BY <2>1, <2>4 DEF Sure
<1> QED BY <1>4, <1>5

LEMMA LostSure ==
    ASSUME profile \in Profiles, NEW D, NEW r, Fine(profile, r, held), Sure(profile, D, held, r),
           r.pc = "fetch", NEW n, n \in r.todo, Shut(profile, D, Primary(n), n),
           NEW Group, Group = GroupOf(r, n), NEW q, q = Lost(r, n, Group)
    PROVE  Sure(profile, D, held, q)
<1>1. r \in ProcType /\ n \in LeavesOf(profile) /\ n \in r.plan /\ ~Walker(profile, r)
      /\ r.todo \subseteq LeavesOf(profile) /\ r.todo \subseteq r.plan
  BY DEF Fine, Good, Planned, Walker
<1>2. Leaves = LeavesOf(profile) /\ \A m \in LeavesOf(profile) : Primary(m) = Link1(profile, m) /\ m \in Name
  BY LeafOf DEF Leaves, LeavesOf, Composed
<1>3. Group = {m \in r.plan \cap LeavesOf(profile) : Link1(profile, m) = Link1(profile, n)}
  BY <1>1, <1>2 DEF GroupOf
<1>4. /\ q.pc = "fetch" /\ q.op = r.op /\ q.target = r.target /\ q.plan = r.plan
      /\ q.todo = r.todo \ Group /\ q.failed = r.failed \cup {Link1(profile, n)}
      /\ q.status = [m \in Name |-> IF m \in Group THEN "none" ELSE r.status[m]]
      /\ q.source = [m \in Name |-> IF m \in Group THEN "none" ELSE r.source[m]]
      /\ q.value = [m \in Name |-> IF m \in Group THEN NoValue ELSE r.value[m]]
      /\ q.steady = r.steady
  <2>1. Primary(n) = Link1(profile, n) BY <1>1, LeafOf
  <2>2. /\ q.pc = r.pc /\ q.op = r.op /\ q.target = r.target /\ q.plan = r.plan
        /\ q.todo = r.todo \ Group /\ q.failed = r.failed \cup {Primary(n)}
        /\ q.status = [m \in Name |-> IF m \in Group THEN "none" ELSE r.status[m]]
        /\ q.source = [m \in Name |-> IF m \in Group THEN "none" ELSE r.source[m]]
        /\ q.value = [m \in Name |-> IF m \in Group THEN NoValue ELSE r.value[m]]
        /\ q.steady = r.steady
    BY <1>1 DEF ProcType, Lost
  <2> QED BY <2>1, <2>2
<1>5. ASSUME q.steady PROVE Right(profile, D, held, q)
  <2>1. Right(profile, D, held, r) BY <1>4, <1>5 DEF Sure
  <2>2. Groups(profile, D, q)
    <3>1. Spoils(profile, D, r.plan, Link1(profile, n)) BY <1>1, <1>2 DEF Spoils, Shut
    <3>2. \A s \in q.failed : Spoils(profile, D, q.plan, s) BY <1>4, <2>1, <3>1 DEF Right, Groups
    <3>3. \A m \in q.todo : Link1(profile, m) \notin q.failed
      BY <1>1, <1>3, <1>4, <2>1 DEF Right, Groups
    <3>4. \A m \in (q.plan \cap LeavesOf(profile)) \ q.todo :
             Link1(profile, m) \in q.failed \/ ~Shut(profile, D, Link1(profile, m), m)
      BY <1>3, <1>4, <2>1 DEF Right, Groups, Begun
    <3> QED BY <1>4, <3>2, <3>3, <3>4 DEF Groups
  <2>3. ASSUME NEW m \in LeavesOf(profile), q.status[m] # "none"
        PROVE  m \notin q.todo /\ Outcome(profile, D, held, q, m)
    <3>1. m \in Name /\ m \notin Group BY <1>2, <1>4, <2>3
    <3>2. q.status[m] = r.status[m] /\ q.source[m] = r.source[m] /\ q.value[m] = r.value[m]
      BY <1>4, <3>1
    <3>3. m \in r.plan BY <2>1, <2>3, <3>1, <3>2 DEF Right, Composes
    <3>4. Link1(profile, m) # Link1(profile, n) BY <1>3, <2>3, <3>1, <3>3
    <3>5. m \notin r.todo /\ Outcome(profile, D, held, r, m) BY <2>1, <2>3, <3>2 DEF Right, Outcomes
    <3> QED BY <1>4, <2>3, <3>2, <3>4, <3>5, SameOutcome
  <2>4. \A m \in Name : q.status[m] = "none" \/ m \notin LeavesOf(profile) => q.value[m] = NoValue
    BY <1>1, <1>4, <2>1 DEF Right, Outcomes
  <2>5. ASSUME NEW m \in Undecided(profile, q) \ q.todo
        PROVE  Link1(profile, m) \in q.failed \/ held[Link1(profile, m)][m] = NoValue
    <3>1. m \in LeavesOf(profile) /\ m \in r.plan /\ m \in Name BY <1>2, <1>4 DEF Undecided
    <3>2. CASE m \in Group BY <1>3, <1>4, <3>2
    <3>3. CASE m \notin Group
      <4>1. m \in Undecided(profile, r) \ r.todo BY <1>4, <3>1, <3>3 DEF Undecided
      <4> QED BY <1>4, <2>1, <4>1 DEF Right, Outcomes
    <3> QED BY <3>2, <3>3
  <2>6. Outcomes(profile, D, held, q) BY <2>3, <2>4, <2>5 DEF Outcomes
  <2>7. Turns(profile, D, held, q) /\ Walked(profile, D, held, q) BY <1>4 DEF Turns, Walked
  <2>8. \A m \in Name \ LeavesOf(profile) : q.status[m] = "none" BY <1>4, <2>1 DEF Right
  <2>9. Composes(profile, q.plan, q.status) BY <1>4, <2>1, <2>8 DEF Right, Composes
  <2> QED BY <2>2, <2>6, <2>7, <2>8, <2>9 DEF Right
<1> QED BY <1>4, <1>5 DEF Sure

(* A chain that is exhausted, and what a link has.                          *)
LEMMA LacksAt ==
    ASSUME profile \in Profiles, NEW D, NEW r, Fine(profile, r, held), Right(profile, D, held, r),
           r.pc = "decide", NEW n, n = Turn(profile, r), Undecided(profile, r) # {},
           r.link \notin DOMAIN profile.route[n], Link1(profile, n) \notin r.failed
    PROVE  Lacks(profile, D, held, r, n)
<1>1. n \in Undecided(profile, r) /\ n \in LeavesOf(profile) /\ r.link \in Nat /\ r.link >= 2
      /\ r.todo = {}
  BY TurnOf DEF Fine, Good, Looked, ProcType, Undecided
<1>2. held[Link1(profile, n)][n] = NoValue BY <1>1 DEF Right, Outcomes
<1>3. DOMAIN profile.route[n] = 1..Len(profile.route[n]) /\ Len(profile.route[n]) \in Nat
  BY <1>1, LeafOf DEF Chain
<1>4. 2..Len(profile.route[n]) \subseteq 2..(r.link - 1) BY <1>1, <1>3
<1>5. Bare(profile, D, held, n, 2..(r.link - 1)) BY DEF Right, Turns
<1>6. Bare(profile, D, held, n, 2..Len(profile.route[n])) BY <1>4, <1>5 DEF Bare
<1> QED BY <1>2, <1>6 DEF Lacks

LEMMA GivesAt ==
    ASSUME profile \in Profiles, NEW D, NEW r, Fine(profile, r, held), Right(profile, D, held, r),
           r.pc = "decide", NEW n, n = Turn(profile, r), Undecided(profile, r) # {},
           r.link \in DOMAIN profile.route[n], NEW v, v = held[profile.route[n][r.link]][n],
           ~Shut(profile, D, profile.route[n][r.link], n), v # NoValue,
           NEW source \in Source
    PROVE  Outcome(profile, D, held, Decided(r, n, "resolved", source, v), n)
<1>1. n \in Undecided(profile, r) /\ n \in Name /\ r.link \in Nat /\ r.link >= 2
      /\ r.todo = {} /\ r \in ProcType
  BY TurnOf DEF Fine, Good, Looked, ProcType, Undecided, LeavesOf
<1>2. Link1(profile, n) \in r.failed \/ held[Link1(profile, n)][n] = NoValue
  BY <1>1 DEF Right, Outcomes
<1>3. Bare(profile, D, held, n, 2..(r.link - 1)) BY DEF Right, Turns
<1>4. Gives(profile, D, held, n, 2, v) BY <1>1, <1>3 DEF Gives
<1>5. PICK d : d = Decided(r, n, "resolved", source, v) OBVIOUS
<1>6. d.status = [r.status EXCEPT ![n] = "resolved"] /\ d.value = [r.value EXCEPT ![n] = v]
      /\ d.failed = r.failed
  BY <1>1, <1>5 DEF ProcType, Decided
<1>7. d.status[n] = "resolved" /\ d.value[n] = v BY <1>1, <1>6 DEF ProcType
<1> QED BY <1>2, <1>4, <1>5, <1>6, <1>7 DEF Outcome, ByOther

(* What is missing is decided by policy, or generated.                      *)
LEMMA PolicyAt ==
    ASSUME profile \in Profiles, NEW D, NEW h, NEW r \in ProcType, NEW n \in Name,
           Lacks(profile, D, h, r, n), NEW status \in Status \ {"none"}, NEW source \in Source,
           NEW v \in Maybe,
           \/ profile.missing[n] = "default" /\ status = "resolved" /\ v = Default
           \/ profile.missing[n] = "generate" /\ status = "resolved" /\ v = NoValue
              /\ source = "generated"
           \/ profile.missing[n] = "error" /\ status = "missing" /\ v = NoValue
           \/ profile.missing[n] = "omit" /\ status = "optional" /\ v = NoValue
    PROVE  Outcome(profile, D, h, Decided(r, n, status, source, v), n)
<1>1. PICK d : d = Decided(r, n, status, source, v) OBVIOUS
<1>2. /\ d.status = [r.status EXCEPT ![n] = status] /\ d.value = [r.value EXCEPT ![n] = v]
      /\ d.source = [r.source EXCEPT ![n] = source] /\ d.failed = r.failed
  BY <1>1 DEF ProcType, Decided
<1>3. d.status[n] = status /\ d.value[n] = v /\ d.source[n] = source BY <1>2 DEF ProcType
<1>4. Lacks(profile, D, h, d, n) BY <1>2 DEF Lacks
<1>5. ByPolicy(profile, d, n) BY <1>3 DEF ByPolicy
<1> QED BY <1>1, <1>4, <1>5 DEF Outcome

LEMMA GenerateSure ==
    ASSUME profile \in Profiles, NEW D, NEW h, NEW r, Fine(profile, r, h), Sure(profile, D, h, r),
           r.pc = "decide", Undecided(profile, r) # {}, profile.missing[Turn(profile, r)] = "generate",
           Right(profile, D, h, r) => Lacks(profile, D, h, r, Turn(profile, r))
    PROVE  Sure(profile, D, h, [r EXCEPT !.pc = "generate"])
<1>1. PICK d : d = [r EXCEPT !.pc = "generate"] OBVIOUS
<1>2. /\ d.pc = "generate" /\ d.op = r.op /\ d.target = r.target /\ d.plan = r.plan /\ d.todo = r.todo
      /\ d.failed = r.failed /\ d.status = r.status /\ d.source = r.source /\ d.value = r.value
      /\ d.steady = r.steady
  BY <1>1 DEF Fine, ProcType
<1>3. ASSUME d.steady PROVE Right(profile, D, h, d)
  <2>1. Right(profile, D, h, r) BY <1>2, <1>3 DEF Sure
  <2>2. Undecided(profile, d) = Undecided(profile, r) /\ Turn(profile, d) = Turn(profile, r)
        /\ Walker(profile, d) = Walker(profile, r)
    BY <1>2 DEF Undecided, Turn, Walker
  <2>3. Groups(profile, D, d) BY <1>2, <2>1 DEF Right, Groups, Begun
  <2>4. \A m \in LeavesOf(profile) : Outcome(profile, D, h, r, m) => Outcome(profile, D, h, d, m)
    BY <1>2, SameOutcome
  <2>5. Outcomes(profile, D, h, d) BY <1>2, <2>1, <2>2, <2>4 DEF Right, Outcomes
  <2>6. Turns(profile, D, h, d) BY <1>2, <2>1, <2>2 DEF Turns, Lacks
  <2>7. Walked(profile, D, h, d) BY <1>2 DEF Walked
  <2> QED BY <1>2, <2>1, <2>3, <2>5, <2>6, <2>7 DEF Right
<1> QED BY <1>1, <1>3 DEF Sure

(* The pass is rendered, and prompts or begins again.                       *)
LEMMA RenderedSure ==
    ASSUME profile \in Profiles, NEW D, NEW h, NEW r \in ProcType, Sure(profile, D, h, r),
           r.pc = "decide", Undecided(profile, r) = {}
    PROVE  Sure(profile, D, h, Rendered(r))
<1>1. PICK st \in [Name -> Status], so \in [Name -> Source] :
          /\ Rendered(r) = [r EXCEPT !.status = st, !.source = so]
          /\ \A n \in LeavesOf(profile) : st[n] = r.status[n] /\ so[n] = r.source[n]
          /\ Composes(profile, r.plan, r.status) => Composes(profile, r.plan, st)
  BY RenderedIs
<1>2. PICK d : d = [r EXCEPT !.status = st, !.source = so] OBVIOUS
<1>3. /\ d.pc = "decide" /\ d.op = r.op /\ d.target = r.target /\ d.plan = r.plan /\ d.todo = r.todo
      /\ d.failed = r.failed /\ d.status = st /\ d.source = so /\ d.value = r.value
      /\ d.steady = r.steady
  BY <1>2 DEF ProcType
<1>4. ASSUME d.steady PROVE Right(profile, D, h, d)
  <2>1. Right(profile, D, h, r) BY <1>3, <1>4 DEF Sure
  <2>2. Undecided(profile, d) = {} BY <1>1, <1>3 DEF Undecided
  <2>3. Groups(profile, D, d) BY <1>3, <2>1 DEF Right, Groups, Begun
  <2>4. \A m \in LeavesOf(profile) : Outcome(profile, D, h, r, m) => Outcome(profile, D, h, d, m)
    BY <1>1, <1>3, SameOutcome
  <2>5. Outcomes(profile, D, h, d)
    <3>1. \A m \in LeavesOf(profile) : d.status[m] # "none" =>
             m \notin d.todo /\ Outcome(profile, D, h, d, m)
      BY <1>1, <1>3, <2>1, <2>4 DEF Right, Outcomes
    <3>2. ~Walker(profile, d) => \A m \in Name :
             d.status[m] = "none" \/ m \notin LeavesOf(profile) => d.value[m] = NoValue
      BY <1>1, <1>3, <2>1 DEF Right, Outcomes, Walker
    <3> QED BY <2>2, <3>1, <3>2 DEF Outcomes
  <2>6. Turns(profile, D, h, d) /\ Walked(profile, D, h, d) BY <1>3, <2>2 DEF Turns, Walked
  <2>7. Composes(profile, d.plan, d.status) BY <1>1, <1>3, <2>1 DEF Right
  <2> QED BY <1>3, <2>3, <2>5, <2>6, <2>7 DEF Right
<1> QED BY <1>1, <1>2, <1>4 DEF Sure

LEMMA PromptSure ==
    ASSUME profile \in Profiles, NEW D, NEW h, NEW r \in ProcType, Sure(profile, D, h, r),
           r.pc = "decide", NEW P
    PROVE  Sure(profile, D, h, [r EXCEPT !.pc = "prompt", !.prompts = P])
<1>1. PICK d : d = [r EXCEPT !.pc = "prompt", !.prompts = P] OBVIOUS
<1>2. /\ d.pc = "prompt" /\ d.op = r.op /\ d.target = r.target /\ d.plan = r.plan /\ d.todo = r.todo
      /\ d.failed = r.failed /\ d.status = r.status /\ d.source = r.source /\ d.value = r.value
      /\ d.steady = r.steady
  BY <1>1 DEF ProcType
<1>3. Walked(profile, D, h, d) BY <1>2 DEF Walked
<1>4. ASSUME d.steady PROVE Right(profile, D, h, d)
  <2>1. Right(profile, D, h, r) BY <1>2, <1>4 DEF Sure
  <2> QED BY <1>2, <1>3, <2>1, LaterRight
<1> QED BY <1>1, <1>4 DEF Sure

LEMMA AgainSure ==
    ASSUME profile \in Profiles, NEW D, NEW h, NEW r \in ProcType, Planned(profile, r),
           r.pc # "idle", r.op # "get", r.round \in 1..2
    PROVE  Sure(profile, D, h, Again(r))
BY AgainFresh, PassSure

(* A `get` ends with a value.                                               *)
LEMMA GotSure ==
    ASSUME profile \in Profiles, NEW D, NEW h, NEW r, Fine(profile, r, h), Sure(profile, D, h, r),
           r.pc = "walk", NEW v,
           Right(profile, D, h, r) => Arrives(profile, D, h, r.target, "ok", v)
    PROVE  Sure(profile, D, h, [Ends(r, "ok") EXCEPT !.value[r.target] = v])
<1>1. PICK d : d = [Ends(r, "ok") EXCEPT !.value[r.target] = v] OBVIOUS
<1>2. r \in ProcType /\ r.target \in Name /\ Walker(profile, r)
  BY DEF Fine, Good, Planned, Walker
<1>3. /\ d.pc = "done" /\ d.result = "ok" /\ d.op = r.op /\ d.target = r.target /\ d.plan = r.plan
      /\ d.todo = r.todo /\ d.failed = r.failed /\ d.status = r.status /\ d.source = r.source
      /\ d.steady = r.steady /\ d.value = [r.value EXCEPT ![r.target] = v]
  BY <1>1, <1>2 DEF ProcType, Ends
<1>4. d.value[r.target] = v BY <1>2, <1>3 DEF ProcType
<1>5. ASSUME d.steady PROVE Right(profile, D, h, d)
  <2>1. Right(profile, D, h, r) BY <1>3, <1>5 DEF Sure
  <2>2. \A n \in Name : r.status[n] = "none" BY <2>1 DEF Right, Walked
  <2>3. Walked(profile, D, h, d) BY <1>3, <1>4, <2>1 DEF Walked
  <2> QED BY <1>2, <1>3, <2>1, <2>2, <2>3, LaterRight
<1> QED BY <1>1, <1>5 DEF Sure

(* What a `get` has found when its chain ends, or at a link that has it.    *)
LEMMA WalkedAll ==
    ASSUME profile \in Profiles, NEW D, NEW h, NEW r, Fine(profile, r, h), Right(profile, D, h, r),
           r.pc = "walk", NEW n, n = r.target, r.link \notin DOMAIN profile.route[n]
    PROVE  /\ Bare(profile, D, h, n, DOMAIN profile.route[n])
           /\ ~r.healthy => Closed(profile, D, n, DOMAIN profile.route[n])
<1>1. n \in LeavesOf(profile) /\ r.link \in Nat BY DEF Fine, Good, Planned, ProcType
<1>2. DOMAIN profile.route[n] = 1..Len(profile.route[n]) /\ Len(profile.route[n]) \in Nat
  BY <1>1, LeafOf DEF Chain
<1>3. r.link >= 1 /\ Bare(profile, D, h, n, 1..(r.link - 1))
      /\ (~r.healthy => Closed(profile, D, n, 1..(r.link - 1)))
  BY DEF Right, Walked
<1>4. DOMAIN profile.route[n] \subseteq 1..(r.link - 1) BY <1>1, <1>2, <1>3
<1> QED BY <1>3, <1>4 DEF Bare, Closed

LEMMA WalkedTo ==
    ASSUME NEW D, NEW h, NEW r, Right(profile, D, h, r),
           r.pc = "walk", NEW n, n = r.target, r.link \in DOMAIN profile.route[n], NEW v,
           v = h[profile.route[n][r.link]][n], v # NoValue,
           ~Shut(profile, D, profile.route[n][r.link], n)
    PROVE  Arrives(profile, D, h, n, "ok", v)
<1>1. r.link >= 1 /\ Bare(profile, D, h, n, 1..(r.link - 1)) BY DEF Right, Walked
<1>2. Gives(profile, D, h, n, 1, v) BY <1>1 DEF Gives
<1> QED BY <1>2 DEF Arrives
-----------------------------------------------------------------------------
(* One process goes on, and the stores stay as they are.                    *)
LEMMA GoesOn ==
    ASSUME IInv, NEW p \in Procs, NEW r, Fine(profile, r, held),
           Sure(profile, down, held, r), Reading(p, r)
    PROVE  IInv'
<1>1. proc' = [proc EXCEPT ![p] = r] /\ profile' = profile /\ down' = down /\ held' = held
  BY DEF Reading, Goes
<1>2. r \in ProcType BY DEF Fine
<1>3. \A q \in Procs : proc'[q] = IF q = p THEN r ELSE proc[q] BY <1>1 DEF IInv
<1>4. proc' \in [Procs -> ProcType] BY <1>1, <1>2 DEF IInv
<1>5. \A q \in Procs : Fine(profile, proc'[q], held) /\ Sure(profile, down, held, proc'[q])
  BY <1>3 DEF IInv
<1> QED BY <1>1, <1>4, <1>5 DEF IInv

LEMMA InitInv == Init => IInv
<1> SUFFICES ASSUME Init PROVE IInv OBVIOUS
<1>1. held \in [Stores -> [Name -> Maybe]] /\ \A s \in Stores, n \in Name : held[s][n] # Default
  <2>1. PICK full : held = [s \in Stores |-> [n \in Name |-> IF <<s, n>> \in full THEN s ELSE NoValue]]
    BY DEF Init
  <2>2. NoValue # Default /\ \A s \in Stores : s # Default
    BY ResolutionAssumption DEF NoValue, Default
  <2> QED BY <2>1, <2>2 DEF Maybe, Value
<1>2. Fine(profile, Blank, held) /\ Sure(profile, down, held, Blank)
  BY BlankFine DEF Init, Sure
<1>3. Blank \in ProcType BY BlankFine DEF Fine, Init
<1> QED BY <1>1, <1>2, <1>3 DEF Init, IInv

LEMMA ResolveInv ==
    ASSUME IInv, NEW p \in Procs, NEW op \in Ops[p], NEW scope \in profile.scopes \cup {Name},
           Resolve(p, op, scope)
    PROVE  IInv'
<1> DEFINE r == [Blank EXCEPT !.op = op, !.visible = scope, !.scoped = scope # Name,
                              !.plan = Closure(scope)]
<1>1. op \in AllOps /\ op # "get" BY ResolutionAssumption DEF Resolve
<1>2. profile \in Profiles /\ scope \in SUBSET Name BY Fields DEF IInv
<1>3. Closure(scope) = Reach(profile, scope) /\ Closure(scope) \subseteq Name
  BY <1>2, ReachIs, Reached
<1>4. Blank \in ProcType BY <1>2, BlankFine DEF Fine
<1>5. r \in ProcType BY <1>1, <1>2, <1>3, <1>4 DEF ProcType
<1>6. /\ r.op = op /\ r.visible = scope /\ r.scoped = (scope # Name) /\ r.plan = Closure(scope)
      /\ r.status = [n \in Name |-> "none"] /\ r.source = [n \in Name |-> "none"]
      /\ r.value = [n \in Name |-> NoValue]
      /\ r.asked = {} /\ r.absent = {} /\ r.todo = {} /\ r.prompts = {} /\ ~r.healthy /\ r.failed = {}
  BY DEF Blank
<1>7. Reading(p, Started(r)) BY DEF Resolve
<1> HIDE DEF r
<1>8. Fresh(profile, r) BY <1>1, <1>3, <1>5, <1>6 DEF Fresh
<1>9. Fine(profile, Started(r), held) BY <1>1, <1>2, <1>6, <1>8, StartedFine
<1>10. Sure(profile, down, held, Started(r)) BY <1>1, <1>2, <1>6, <1>8, StartedSure
<1> QED BY <1>7, <1>9, <1>10, GoesOn

LEMMA GetInv == ASSUME IInv, NEW p \in Procs, NEW n \in Name, Get(p, n) PROVE IInv'
<1> DEFINE r == [Blank EXCEPT !.op = "get", !.target = n, !.visible = {n}, !.plan = Closure({n})]
<1>1. profile \in Profiles BY DEF IInv
<1>2. Closure({n}) = Reach(profile, {n}) /\ Closure({n}) \subseteq Name
  BY <1>1, ReachIs, Reached
<1>3. Blank \in ProcType BY <1>1, BlankFine DEF Fine
<1>4. r \in ProcType BY <1>2, <1>3 DEF ProcType, AllOps
<1>5. /\ r.op = "get" /\ r.target = n /\ r.visible = {n} /\ r.plan = Closure({n})
      /\ r.status = [m \in Name |-> "none"] /\ r.source = [m \in Name |-> "none"]
      /\ r.value = [m \in Name |-> NoValue] /\ r.result = "none" /\ r.scoped = FALSE
      /\ r.asked = {} /\ r.absent = {} /\ r.todo = {} /\ r.prompts = {} /\ r.healthy = FALSE
      /\ r.failed = {} /\ r.link = 1
  BY DEF Blank
<1>6. Reading(p, IF Composed(n) THEN Started([r EXCEPT !.visible = Name])
                 ELSE [r EXCEPT !.pc = "walk"])
  BY DEF Get
<1> HIDE DEF r
<1>7. CASE Composed(n)
  <2> DEFINE d == [r EXCEPT !.visible = Name]
  <2>1. d \in ProcType BY <1>4 DEF ProcType
  <2>2. /\ d.op = "get" /\ d.target = n /\ d.plan = r.plan /\ d.status = r.status
        /\ d.source = r.source /\ d.value = r.value /\ d.asked = {} /\ d.absent = {}
        /\ d.todo = {} /\ d.prompts = {} /\ ~d.healthy /\ d.failed = {}
    BY <1>4, <1>5 DEF ProcType
  <2> HIDE DEF d
  <2>3. Fresh(profile, d) BY <1>2, <1>5, <2>1, <2>2 DEF Fresh
  <2>4. n \notin LeavesOf(profile) BY <1>7 DEF LeavesOf, Composed
  <2>5. Fine(profile, Started(d), held) BY <1>1, <2>2, <2>3, <2>4, StartedFine
  <2>6. Sure(profile, down, held, Started(d)) BY <1>1, <2>2, <2>3, <2>4, StartedSure
  <2> QED BY <1>6, <1>7, <2>5, <2>6, GoesOn DEF d
<1>8. CASE ~Composed(n)
  <2> DEFINE d == [r EXCEPT !.pc = "walk"]
  <2>1. d \in ProcType BY <1>4 DEF ProcType
  <2>2. /\ d.pc = "walk" /\ d.op = "get" /\ d.target = n /\ d.plan = r.plan /\ d.status = r.status
        /\ d.source = r.source /\ d.value = r.value /\ d.asked = {} /\ d.absent = {}
        /\ d.todo = {} /\ d.prompts = {} /\ d.healthy = FALSE /\ d.result = "none"
        /\ d.failed = {} /\ d.link = 1
        /\ d.scoped = FALSE
    BY <1>4, <1>5 DEF ProcType
  <2> HIDE DEF d
  <2>3. n \in LeavesOf(profile) BY <1>8 DEF LeavesOf, Composed
  <2>4. Planned(profile, d) BY <1>2, <1>5, <2>2, <2>3 DEF Planned
  <2>5. Looked(profile, d) /\ Gaps(profile, d, held) BY <2>2 DEF Looked, Gaps
  <2>6. Absent(profile, d) BY <1>1, <1>5, <2>2, NothingTaken
  <2>7. Walks(profile, d) BY <1>5, <2>2 DEF Walks
  <2>8. Fine(profile, d, held) BY <2>1, <2>2, <2>4, <2>5, <2>6, <2>7 DEF Fine, Good
  <2>9. Sure(profile, down, held, d) BY <1>1, <1>5, <2>2, FreshRight DEF Sure
  <2> QED BY <1>6, <1>8, <2>8, <2>9, GoesOn DEF d
<1> QED BY <1>7, <1>8

LEMMA FetchOneInv == ASSUME IInv, NEW p \in Procs, NEW n \in Name, FetchOne(p, n) PROVE IInv'
<1>1. PICK r : r = proc[p] OBVIOUS
<1>2. profile \in Profiles /\ Fine(profile, r, held) /\ Sure(profile, down, held, r)
  BY <1>1 DEF IInv
<1>3. r.pc = "fetch" /\ n \in r.todo BY <1>1 DEF FetchOne, Is
<1>4. PICK q : q = Heard(r, n) OBVIOUS
<1>5. PICK v : v = held[Primary(n)][n] OBVIOUS
<1>6. v \in Maybe
  <2>1. n \in LeavesOf(profile) BY <1>2, <1>3 DEF Fine
  <2>2. Primary(n) \in Stores BY <1>2, <2>1, LeafOf
  <2> QED BY <1>5, <2>2 DEF IInv
<1>7. q = [Asks(proc[p], Primary(n), n) EXCEPT !.todo = @ \ {n}]
  <2>1. n \in LeavesOf(profile) /\ n \in r.plan BY <1>2, <1>3 DEF Fine, Good, Planned
  <2>2. Primary(n) \in Stores BY <1>2, <2>1, LeafOf
  <2>3. Asks(r, Primary(n), n).todo = r.todo BY <1>2, <1>3, <2>1, <2>2, AsksFine
  <2> QED BY <1>1, <1>4, <2>3 DEF Heard
<1>8. Reading(p, Joined(IF v = NoValue THEN q ELSE Found(q, n, v)))
  BY <1>5, <1>7 DEF FetchOne, Found
<1> DEFINE e == Found(q, n, v)
<1>9. /\ v = NoValue => Fine(profile, q, held) /\ q.pc = "fetch"
      /\ v # NoValue => Fine(profile, e, held) /\ e.pc = "fetch"
  BY <1>2, <1>3, <1>4, <1>5, <1>6, FetchedFine
<1>10. ~Shut(profile, down, Primary(n), n) BY DEF FetchOne, Unreadable, Shut
<1>11. /\ v = NoValue => Sure(profile, down, held, q)
       /\ v # NoValue => Sure(profile, down, held, e)
  BY <1>2, <1>3, <1>4, <1>5, <1>10, FetchedSure
<1> HIDE DEF e
<1>12. CASE v = NoValue
  <2>1. Fine(profile, Joined(q), held) BY <1>2, <1>9, <1>12, JoinedFine
  <2>2. Sure(profile, down, held, Joined(q)) BY <1>2, <1>9, <1>12, <1>11, JoinedSure DEF Fine
  <2> QED BY <1>8, <1>12, <2>1, <2>2, GoesOn
<1>13. CASE v # NoValue
  <2>1. Fine(profile, Joined(e), held) BY <1>2, <1>9, <1>13, JoinedFine
  <2>2. Reading(p, Joined(e)) BY <1>8, <1>13 DEF e
  <2>3. Sure(profile, down, held, Joined(e)) BY <1>2, <1>9, <1>13, <1>11, JoinedSure DEF Fine
  <2> QED BY <2>1, <2>2, <2>3, GoesOn
<1> QED BY <1>12, <1>13

LEMMA FetchFailsInv == ASSUME IInv, NEW p \in Procs, NEW n \in Name, FetchFails(p, n) PROVE IInv'
<1>1. PICK r : r = proc[p] OBVIOUS
<1>2. profile \in Profiles /\ Fine(profile, r, held) /\ Sure(profile, down, held, r)
  BY <1>1 DEF IInv
<1>3. r.pc = "fetch" /\ n \in r.todo BY <1>1 DEF FetchFails, Is
<1>4. PICK Group : Group = GroupOf(r, n) OBVIOUS
<1>5. r \in ProcType BY <1>2 DEF Fine
<1> DEFINE d == [[r EXCEPT !.todo = @ \ Group, !.failed = @ \cup {Primary(n)}] EXCEPT
                   !.status = [m \in Name |-> IF m \in Group THEN "none" ELSE @[m]],
                   !.source = [m \in Name |-> IF m \in Group THEN "none" ELSE @[m]],
                   !.value = [m \in Name |-> IF m \in Group THEN NoValue ELSE @[m]]]
<1>6. PICK q : q = Lost(r, n, Group) OBVIOUS
<1>7. d = q BY <1>5, <1>6 DEF ProcType, Lost
<1>8. Reading(p, Joined(d)) BY <1>1, <1>4 DEF FetchFails, GroupOf
<1>9. Fine(profile, q, held) /\ q.pc = "fetch" BY <1>2, <1>3, <1>4, <1>6, LostFine
<1> HIDE DEF d
<1>10. Fine(profile, Joined(q), held) BY <1>2, <1>9, JoinedFine
<1>11. Shut(profile, down, Primary(n), n) BY DEF FetchFails, Unreadable, Shut
<1>12. Sure(profile, down, held, q) BY <1>2, <1>3, <1>4, <1>6, <1>11, LostSure
<1>13. Sure(profile, down, held, Joined(q)) BY <1>2, <1>9, <1>12, JoinedSure DEF Fine
<1> QED BY <1>7, <1>8, <1>10, <1>13, GoesOn
-----------------------------------------------------------------------------
(* A batch pass may end at any point: what a `get` of one secret promises   *)
(* is not its business.                                                     *)
LEMMA EndsOf ==
    ASSUME profile \in Profiles, NEW h, NEW r, Fine(profile, r, h),
           r.pc \in {"decide", "generate", "prompt"},
           NEW how \in {"ok", "missing", "error", "refused"}
    PROVE  Fine(profile, Ends(r, how), h)
<1>1. ~(r.op = "get" /\ r.target \in LeavesOf(profile)) BY DEF Fine, Good, Planned
<1> QED BY <1>1, EndsFine

LEMMA EndsOfSure ==
    ASSUME profile \in Profiles, NEW D, NEW h, NEW r, Fine(profile, r, h), Sure(profile, D, h, r),
           r.pc \in {"decide", "generate", "prompt"},
           NEW how \in {"ok", "missing", "error", "refused"}
    PROVE  Sure(profile, D, h, Ends(r, how))
<1>1. r \in ProcType /\ ~Walker(profile, r) BY DEF Fine, Good, Planned, Walker
<1> QED BY <1>1, EndsSure

(* A secret none of whose links has it is generated.                        *)
LEMMA GenerateFine ==
    ASSUME NEW f \in Profiles, NEW h, NEW r, Fine(f, r, h), r.pc = "decide",
           Undecided(f, r) # {}, Sought(f, r, Turn(f, r))
    PROVE  Fine(f, [r EXCEPT !.pc = "generate"], h)
<1> DEFINE d == [r EXCEPT !.pc = "generate"]
<1>1. r \in ProcType /\ r.todo \cup r.prompts \subseteq LeavesOf(f) /\ Good(f, r, h) BY DEF Fine
<1>2. d \in ProcType BY <1>1 DEF ProcType
<1>3. /\ d.pc = "generate" /\ d.link = r.link
      /\ d.status = r.status /\ d.source = r.source /\ d.value = r.value
      /\ d.op = r.op /\ d.target = r.target /\ d.plan = r.plan
      /\ d.visible = r.visible /\ d.scoped = r.scoped /\ d.round = r.round /\ d.todo = r.todo
      /\ d.failed = r.failed /\ d.prompts = r.prompts
      /\ d.result = r.result /\ d.alone = r.alone /\ d.asked = r.asked /\ d.absent = r.absent
  BY <1>1 DEF ProcType
<1> HIDE DEF d
<1>4. /\ Undecided(f, d) = Undecided(f, r) /\ Turn(f, d) = Turn(f, r)
      /\ \A m : Sought(f, r, m) => Sought(f, d, m)
  BY <1>3, SaidMore DEF Undecided, Turn
<1>5. Planned(f, d) BY <1>1, <1>3 DEF Good, Planned
<1>6. Looked(f, d) BY <1>1, <1>3, <1>4 DEF Good, Looked
<1>7. Absent(f, d) BY <1>1, <1>3, <1>4 DEF Good, Absent, TakenForAbsent
<1>8. Walks(f, d) BY <1>3 DEF Walks
<1>9. Gaps(f, d, h) BY <1>1, <1>3 DEF Good, Gaps
<1> QED BY <1>1, <1>2, <1>3, <1>5, <1>6, <1>7, <1>8, <1>9 DEF Fine, Good, d

(* Another process' write, or an outage: a running process is no longer     *)
(* alone, or no longer steady.                                              *)
LEMMA DisturbedFine ==
    ASSUME NEW f \in Profiles, NEW h, NEW h2, NEW r, Fine(f, r, h),
           NEW b \in BOOLEAN, NEW c \in BOOLEAN,
           (h2 = h /\ (b => r.alone)) \/ (b => r.pc \in {"idle", "done"})
    PROVE  Fine(f, [r EXCEPT !.alone = b, !.steady = c], h2)
<1> DEFINE d == [r EXCEPT !.alone = b, !.steady = c]
<1>1. r \in ProcType /\ r.todo \cup r.prompts \subseteq LeavesOf(f) /\ Good(f, r, h) BY DEF Fine
<1>2. d \in ProcType BY <1>1 DEF ProcType
<1>3. /\ d.pc = r.pc /\ d.link = r.link /\ d.healthy = r.healthy
      /\ d.status = r.status /\ d.source = r.source /\ d.value = r.value
      /\ d.op = r.op /\ d.target = r.target /\ d.plan = r.plan
      /\ d.visible = r.visible /\ d.scoped = r.scoped /\ d.round = r.round /\ d.todo = r.todo
      /\ d.failed = r.failed /\ d.prompts = r.prompts
      /\ d.result = r.result /\ d.alone = b /\ d.asked = r.asked /\ d.absent = r.absent
  BY <1>1 DEF ProcType
<1> HIDE DEF d
<1>4. /\ Undecided(f, d) = Undecided(f, r) /\ Turn(f, d) = Turn(f, r)
      /\ \A m : Sought(f, r, m) => Sought(f, d, m)
      /\ \A m, I : Said(f, r, m, I) => Said(f, d, m, I)
  BY <1>3, SaidMore DEF Undecided, Turn
<1>5. Planned(f, d) BY <1>1, <1>3 DEF Good, Planned
<1>6. Looked(f, d) BY <1>1, <1>3, <1>4 DEF Good, Looked
<1>7. Absent(f, d) BY <1>1, <1>3, <1>4 DEF Good, Absent, TakenForAbsent
<1>8. Walks(f, d) BY <1>1, <1>3, <1>4 DEF Good, Walks
<1>9. Gaps(f, d, h2) BY <1>1, <1>3 DEF Good, Gaps
<1> QED BY <1>1, <1>2, <1>3, <1>5, <1>6, <1>7, <1>8, <1>9 DEF Fine, Good, d

(* One process writes and goes on.                                          *)
LEMMA WritesOn ==
    ASSUME IInv, NEW p \in Procs, NEW s \in Stores, NEW n \in Name, NEW v \in Maybe, v # Default,
           NEW h2, h2 = [held EXCEPT ![s][n] = v], NEW r, Fine(profile, r, h2),
           Sure(profile, down, h2, r), Writes(p, s, n, v, r)
    PROVE  IInv'
<1>1. /\ profile' = profile /\ down' = down /\ held' = h2
      /\ proc' = [q \in Procs |-> IF q = p THEN r ELSE Disturbed(q)]
  BY DEF Writes
<1>2. h2 \in [Stores -> [Name -> Maybe]] /\ \A z \in Stores, m \in Name : h2[z][m] # Default
  BY DEF IInv
<1>3. \A q \in Procs : Fine(profile, proc'[q], h2) /\ Sure(profile, down, h2, proc'[q])
  <2> SUFFICES ASSUME NEW q \in Procs
               PROVE  Fine(profile, proc'[q], h2) /\ Sure(profile, down, h2, proc'[q])
    OBVIOUS
  <2>1. PICK d : d = proc[q] OBVIOUS
  <2>2. PICK b \in BOOLEAN : b <=> d.pc \in {"idle", "done"}
    <3>1. (d.pc \in {"idle", "done"}) \in BOOLEAN OBVIOUS
    <3> QED BY <3>1, Zenon
  <2>3. PICK c \in BOOLEAN : c = (d.pc = "idle") OBVIOUS
  <2>4. profile \in Profiles /\ Fine(profile, d, held) BY <2>1 DEF IInv
  <2>5. Fine(profile, [d EXCEPT !.alone = b, !.steady = c], h2) BY <2>2, <2>4, DisturbedFine
  <2>6. Disturbed(q) = [d EXCEPT !.alone = b, !.steady = c]
    BY <2>1, <2>2, <2>3, Zenon DEF Disturbed, Running, Is
  <2>7. CASE q = p BY <1>1, <2>7
  <2>8. CASE q # p
    <3>1. Sure(profile, down, h2, [d EXCEPT !.alone = b, !.steady = c])
      BY <2>3, <2>4 DEF Sure, Fine, ProcType
    <3> QED BY <1>1, <2>5, <2>6, <2>8, <3>1
  <2> QED BY <2>7, <2>8
<1>4. proc' \in [Procs -> ProcType] BY <1>1, <1>3 DEF Fine
<1> QED BY <1>1, <1>2, <1>3, <1>4 DEF IInv
-----------------------------------------------------------------------------
(* The actions that decide a secret.                                        *)
LEMMA WalkFallbackInv == ASSUME IInv, NEW p \in Procs, WalkFallback(p) PROVE IInv'
<1>1. PICK r : r = proc[p] OBVIOUS
<1>2. profile \in Profiles /\ Fine(profile, r, held) /\ Sure(profile, down, held, r)
  BY <1>1 DEF IInv
<1>3. r.pc = "decide" /\ Open(r) # {} BY <1>1 DEF WalkFallback, Deciding, Is
<1>4. PICK n : n = Current(r) OBVIOUS
<1>5. n \in LeavesOf(profile) /\ n \in r.plan /\ n = Turn(profile, r) /\ r \in ProcType
      /\ Undecided(profile, r) # {}
  BY <1>2, <1>3, <1>4, Facts
<1>6. r.link \in DOMAIN Chain(n) BY <1>1, <1>4 DEF WalkFallback
<1>7. PICK s : s = Chain(n)[r.link] OBVIOUS
<1>8. /\ s \in Stores /\ n \in Name /\ Chain(n) = profile.route[n]
      /\ DOMAIN Chain(n) = 1..Len(Chain(n))
  BY <1>2, <1>5, <1>6, <1>7, LeafOf
<1>9. Reading(p, LinkRead(r, s, n)) BY <1>1, <1>4, <1>7 DEF WalkFallback
<1>10. r.link \in Nat /\ r.link >= 2 /\ r.link \in 2..Len(Chain(n))
  BY <1>2, <1>3, <1>5, <1>6, <1>8 DEF Fine, Good, Looked, ProcType
<1>11. CASE Unreadable(s, n)
  <2>1. r.healthy \in BOOLEAN BY <1>5 DEF ProcType
  <2>2. r.healthy => Said(profile, r, Turn(profile, r), 2..Len(profile.route[Turn(profile, r)]))
    BY <1>2, <1>3 DEF Fine, Good, Looked
  <2>3. Fine(profile, [r EXCEPT !.link = r.link + 1, !.healthy = r.healthy], held)
    BY <1>2, <1>3, <1>5, <2>1, <2>2, LinkFine
  <2>4. [r EXCEPT !.link = r.link + 1, !.healthy = r.healthy] = [r EXCEPT !.link = @ + 1]
    BY <1>5 DEF ProcType
  <2>5. LinkRead(r, s, n) = [r EXCEPT !.link = @ + 1] BY <1>11 DEF LinkRead
  <2>6. Shut(profile, down, profile.route[n][r.link], n)
    BY <1>7, <1>8, <1>11 DEF Unreadable, Shut
  <2>7. Sure(profile, down, held, [r EXCEPT !.link = r.link + 1, !.healthy = r.healthy])
    BY <1>2, <1>3, <1>5, <1>6, <1>8, <2>1, <2>6, LinkSure
  <2> QED BY <1>9, <2>3, <2>4, <2>5, <2>7, GoesOn
<1> DEFINE a == Asks(r, s, n)
<1>12. /\ Fine(profile, a, held) /\ a.pc = "decide" /\ a.link = r.link /\ a.plan = r.plan
       /\ a.status = r.status /\ (held[s][n] = NoValue => <<s, n>> \in a.absent)
  BY <1>2, <1>3, <1>5, <1>8, AsksFine
<1>13. Sure(profile, down, held, a) BY <1>2, <1>5, AsksSure
<1>14. /\ LinkRead(r, s, n) = IF Unreadable(s, n) THEN [r EXCEPT !.link = @ + 1]
                              ELSE IF held[s][n] = NoValue
                              THEN [a EXCEPT !.link = @ + 1, !.healthy = TRUE]
                              ELSE Decided(a, n, "resolved", "provider", held[s][n])
  BY DEF LinkRead
<1> HIDE DEF a
<1>15. Undecided(profile, a) = Undecided(profile, r) /\ Turn(profile, a) = n
  BY <1>5, <1>12 DEF Undecided, Turn
<1>16. CASE ~Unreadable(s, n) /\ held[s][n] = NoValue
  <2>1. Said(profile, a, Turn(profile, a), 2..Len(profile.route[Turn(profile, a)]))
    BY <1>6, <1>7, <1>8, <1>10, <1>12, <1>15, <1>16 DEF Said
  <2>2. Fine(profile, [a EXCEPT !.link = a.link + 1, !.healthy = TRUE], held)
    BY <1>2, <1>5, <1>12, <1>15, <2>1, LinkFine
  <2>3. Sure(profile, down, held, [a EXCEPT !.link = a.link + 1, !.healthy = TRUE])
    BY <1>2, <1>5, <1>6, <1>7, <1>8, <1>12, <1>15, <1>16, <1>13, LinkSure
  <2> QED BY <1>9, <1>14, <1>16, <2>2, <2>3, GoesOn
<1>17. CASE ~Unreadable(s, n) /\ held[s][n] # NoValue
  <2>1. held[s][n] \in Maybe BY <1>8 DEF IInv
  <2>2. "resolved" \in Status \ {"none"} /\ "provider" \in Source BY DEF Status, Source
  <2>3. Fine(profile, Decided(a, n, "resolved", "provider", held[s][n]), held)
    BY <1>2, <1>5, <1>12, <1>15, <2>1, <2>2, DecidedFine
  <2>4. Right(profile, down, held, a) =>
           Outcome(profile, down, held, Decided(a, n, "resolved", "provider", held[s][n]), n)
    <3>1. ~Shut(profile, down, profile.route[n][a.link], n)
      BY <1>7, <1>8, <1>12, <1>17 DEF Unreadable, Shut
    <3>2. a.link \in DOMAIN profile.route[n] /\ held[s][n] = held[profile.route[n][a.link]][n]
      BY <1>6, <1>7, <1>8, <1>12
    <3> QED BY <1>2, <1>5, <1>12, <1>15, <1>17, <2>2, <3>1, <3>2, GivesAt
  <2>5. Sure(profile, down, held, Decided(a, n, "resolved", "provider", held[s][n]))
    BY <1>2, <1>5, <1>12, <1>15, <1>13, <2>1, <2>2, <2>4, DecidedSure
  <2> QED BY <1>9, <1>14, <1>17, <2>3, <2>5, GoesOn
<1> QED BY <1>11, <1>16, <1>17

LEMMA ChainEndsInv == ASSUME IInv, NEW p \in Procs, ChainEnds(p) PROVE IInv'
<1>1. PICK r : r = proc[p] OBVIOUS
<1>2. profile \in Profiles /\ Fine(profile, r, held) /\ Sure(profile, down, held, r)
  BY <1>1 DEF IInv
<1>3. r.pc = "decide" /\ Open(r) # {} BY <1>1 DEF ChainEnds, Deciding, Is
<1>4. PICK n : n = Current(r) OBVIOUS
<1>5. n \in LeavesOf(profile) /\ n \in r.plan /\ n = Turn(profile, r) /\ r \in ProcType
      /\ Undecided(profile, r) # {} /\ n \in Undecided(profile, r)
  BY <1>2, <1>3, <1>4, Facts DEF Undecided
<1>6. Reading(p, IF ChainFailed(r, n) THEN Ends(r, "error") ELSE Missing(r, n))
  BY <1>1, <1>4 DEF ChainEnds
<1>7. CASE ChainFailed(r, n)
  <2>1. Fine(profile, Ends(r, "error"), held) /\ Sure(profile, down, held, Ends(r, "error"))
    BY <1>2, <1>3, EndsOf, EndsOfSure
  <2> QED BY <1>6, <1>7, <2>1, GoesOn
<1>8. CASE ~ChainFailed(r, n)
  <2>1. n \in Name /\ Chain(n) = profile.route[n] /\ Primary(n) = Link1(profile, n)
        /\ 1 \in DOMAIN profile.route[n]
    BY <1>2, <1>5, LeafOf
  <2>2. r.todo = {} BY <1>2, <1>3 DEF Fine, Good, Looked
  <2>3. <<Link1(profile, n), n>> \in r.absent
    BY <1>2, <1>3, <1>5, <1>8, <2>1, <2>2 DEF Fine, Good, Looked, ChainFailed
  <2>4. Said(profile, r, n, {1}) BY <2>1, <2>3 DEF Said, Link1
  <2>5. Len(profile.route[n]) > 1 => Said(profile, r, n, 2..Len(profile.route[n]))
    BY <1>2, <1>3, <1>5, <1>8, <2>1 DEF Fine, Good, Looked, ChainFailed
  <2>6. Sought(profile, r, n) BY <2>4, <2>5 DEF Sought
  <2>7. Fine(profile, [r EXCEPT !.pc = "generate"], held)
    BY <1>2, <1>3, <1>5, <2>6, GenerateFine
  <2>8. ASSUME NEW status \in Status \ {"none"}, NEW source \in Source, NEW v \in Maybe
        PROVE  Fine(profile, Decided(r, n, status, source, v), held)
    BY <1>2, <1>3, <1>5, <2>6, DecidedFine
  <2>9. /\ "resolved" \in Status \ {"none"} /\ "missing" \in Status \ {"none"}
        /\ "optional" \in Status \ {"none"}
        /\ "generated" \in Source /\ "default" \in Source /\ "none" \in Source
        /\ NoValue \in Maybe /\ Default \in Maybe
    BY DEF Status, Source, Maybe, Value
  <2>10. profile.missing[n] \in {"generate", "default", "error", "omit"}
    BY <1>2, <2>1, Fields
  <2>11. Fine(profile, Missing(r, n), held) BY <2>7, <2>8, <2>9, <2>10 DEF Missing
  <2>12. Right(profile, down, held, r) => Lacks(profile, down, held, r, n)
    <3>1. r.link \notin DOMAIN profile.route[n] /\ Link1(profile, n) \notin r.failed
      BY <1>1, <1>4, <1>8, <2>1 DEF ChainEnds, ChainFailed
    <3> QED BY <1>2, <1>3, <1>5, <3>1, LacksAt
  <2>13. ASSUME NEW status \in Status \ {"none"}, NEW source \in Source, NEW v \in Maybe,
                \/ profile.missing[n] = "default" /\ status = "resolved" /\ v = Default
                \/ profile.missing[n] = "generate" /\ status = "resolved" /\ v = NoValue
                   /\ source = "generated"
                \/ profile.missing[n] = "error" /\ status = "missing" /\ v = NoValue
                \/ profile.missing[n] = "omit" /\ status = "optional" /\ v = NoValue
         PROVE  Sure(profile, down, held, Decided(r, n, status, source, v))
    <3>1. Right(profile, down, held, r) =>
             Outcome(profile, down, held, Decided(r, n, status, source, v), n)
      BY <1>2, <1>5, <2>1, <2>12, <2>13, PolicyAt
    <3> QED BY <1>2, <1>3, <1>5, <3>1, DecidedSure
  <2>14. CASE profile.missing[n] = "generate" /\ r.op # "report"
    <3>1. Sure(profile, down, held, [r EXCEPT !.pc = "generate"])
      BY <1>2, <1>3, <1>5, <2>12, <2>14, GenerateSure
    <3> QED BY <1>6, <1>8, <2>11, <2>14, <3>1, GoesOn DEF Missing
  <2>15. CASE ~(profile.missing[n] = "generate" /\ r.op # "report")
    <3>1. Sure(profile, down, held, Missing(r, n))
      BY <2>9, <2>10, <2>13, <2>15 DEF Missing
    <3> QED BY <1>6, <1>8, <2>11, <3>1, GoesOn
  <2> QED BY <2>14, <2>15
<1> QED BY <1>7, <1>8

LEMMA GenerateInv == ASSUME IInv, NEW p \in Procs, Generate(p) PROVE IInv'
<1>1. PICK r : r = proc[p] OBVIOUS
<1>2. profile \in Profiles /\ Fine(profile, r, held) /\ Sure(profile, down, held, r)
  BY <1>1 DEF IInv
<1>3. r.pc = "generate" BY <1>1 DEF Generate, Is
<1>4. PICK n : n = Current(r) OBVIOUS
<1>5. Undecided(profile, r) # {} /\ Sought(profile, r, Turn(profile, r))
  BY <1>2, <1>3 DEF Fine, Good, Looked
<1>6. n \in LeavesOf(profile) /\ n = Turn(profile, r) BY <1>2, <1>4, <1>5, Facts
<1>7. n \in Name /\ Primary(n) \in Stores /\ Primary(n) = Link1(profile, n)
  BY <1>2, <1>6, LeafOf
<1>8. CASE Writes(p, Primary(n), n, p, Decided(r, n, "resolved", "generated", p))
  <2>1. PICK h2 : h2 = [held EXCEPT ![Primary(n)][n] = p] OBVIOUS
  <2>2. p \in Maybe /\ p # Default
    BY ResolutionAssumption DEF Maybe, Value
  <2>3. \A s \in Stores, m \in Name :
           h2[s][m] = held[s][m] \/ (s = Link1(profile, n) /\ m = n)
    BY <1>7, <2>1 DEF IInv
  <2>4. "resolved" \in Status \ {"none"} /\ "generated" \in Source BY DEF Status, Source
  <2>5. Fine(profile, Decided(r, n, "resolved", "generated", p), h2)
    BY <1>2, <1>3, <1>5, <1>6, <2>2, <2>3, <2>4, DecidedFine
  <2>6. Right(profile, down, held, r) =>
           Outcome(profile, down, h2, Decided(r, n, "resolved", "generated", p), n)
    <3> SUFFICES ASSUME Right(profile, down, held, r)
                 PROVE  Outcome(profile, down, h2, Decided(r, n, "resolved", "generated", p), n)
      OBVIOUS
    <3>1. PICK d : d = Decided(r, n, "resolved", "generated", p) OBVIOUS
    <3>2. r \in ProcType BY <1>2 DEF Fine
    <3>3. d.status = [r.status EXCEPT ![n] = "resolved"] /\ d.value = [r.value EXCEPT ![n] = p]
          /\ d.failed = r.failed
      BY <3>1, <3>2 DEF ProcType, Decided
    <3>4. d.status[n] = "resolved" /\ d.value[n] = p BY <1>7, <3>2, <3>3 DEF ProcType
    <3>5. Link1(profile, n) \notin r.failed BY <1>3, <1>6 DEF Right, Turns, Lacks
    <3>6. p # NoValue BY ResolutionAssumption DEF Value
    <3>7. h2[Link1(profile, n)][n] = p BY <1>7, <2>1 DEF IInv
    <3> QED BY <3>1, <3>3, <3>4, <3>5, <3>6, <3>7 DEF Outcome, ByFirst
  <2>7. \A s \in Stores, m \in Name \ {n} : h2[s][m] = held[s][m] BY <2>3
  <2>8. Sure(profile, down, h2, Decided(r, n, "resolved", "generated", p))
    BY <1>2, <1>3, <1>5, <1>6, <2>2, <2>4, <2>6, <2>7, DecidedSure
  <2> QED BY <1>7, <1>8, <2>1, <2>2, <2>5, <2>8, WritesOn
<1>9. CASE Refused(p, Primary(n), n)
  <2>1. Fine(profile, Ends(r, "refused"), held) /\ Sure(profile, down, held, Ends(r, "refused"))
    BY <1>2, <1>3, EndsOf, EndsOfSure
  <2> QED BY <1>1, <1>9, <2>1, GoesOn DEF Refused
<1> QED BY <1>1, <1>4, <1>8, <1>9 DEF Generate
-----------------------------------------------------------------------------
(* The pass is rendered: every leaf is as it was.                           *)
LEMMA RenderedFine ==
    ASSUME profile \in Profiles, NEW r, Fine(profile, r, held), r.pc = "decide",
           Undecided(profile, r) = {}
    PROVE  /\ Fine(profile, Rendered(r), held) /\ Rendered(r).pc = "decide"
           /\ Undecided(profile, Rendered(r)) = {} /\ Rendered(r) \in ProcType
<1>1. r \in ProcType /\ r.todo \cup r.prompts \subseteq LeavesOf(profile) /\ Good(profile, r, held)
  BY DEF Fine
<1>2. PICK st \in [Name -> Status], so \in [Name -> Source] :
          /\ Rendered(r) = [r EXCEPT !.status = st, !.source = so]
          /\ \A n \in LeavesOf(profile) : st[n] = r.status[n] /\ so[n] = r.source[n]
          /\ Composes(profile, r.plan, r.status) => Composes(profile, r.plan, st)
  BY <1>1, RenderedIs
<1>3. PICK d : d = [r EXCEPT !.status = st, !.source = so] OBVIOUS
<1>4. d \in ProcType BY <1>1, <1>3 DEF ProcType
<1>5. /\ d.pc = "decide" /\ d.link = r.link /\ d.healthy = r.healthy
      /\ d.status = st /\ d.source = so /\ d.value = r.value
      /\ d.op = r.op /\ d.target = r.target /\ d.plan = r.plan
      /\ d.visible = r.visible /\ d.scoped = r.scoped /\ d.round = r.round /\ d.todo = r.todo
      /\ d.failed = r.failed /\ d.prompts = r.prompts
      /\ d.result = r.result /\ d.alone = r.alone /\ d.asked = r.asked /\ d.absent = r.absent
  BY <1>1, <1>3 DEF ProcType
<1>6. Undecided(profile, d) = {} BY <1>2, <1>5 DEF Undecided
<1>7. \A m : Sought(profile, r, m) => Sought(profile, d, m) BY <1>5, SaidMore
<1>8. Planned(profile, d) BY <1>1, <1>5 DEF Good, Planned
<1>9. Looked(profile, d) BY <1>1, <1>5, <1>6 DEF Good, Looked
<1>10. Absent(profile, d) BY <1>1, <1>2, <1>5, <1>7 DEF Good, Absent, TakenForAbsent
<1>11. Walks(profile, d) BY <1>5 DEF Walks
<1>12. Gaps(profile, d, held) BY <1>1, <1>2, <1>5 DEF Good, Gaps
<1>13. Fine(profile, d, held)
  BY <1>1, <1>4, <1>5, <1>8, <1>9, <1>10, <1>11, <1>12 DEF Fine, Good
<1> QED BY <1>2, <1>3, <1>4, <1>5, <1>6, <1>13

(* What lacks a value is prompted for, within the scope.                    *)
LEMMA PromptFine ==
    ASSUME profile \in Profiles, NEW r, Fine(profile, r, held), r.pc = "decide",
           Undecided(profile, r) = {}, r.op = "check", r.round = 2
    PROVE  Fine(profile, [r EXCEPT !.pc = "prompt", !.prompts = Promptable(r)], held)
<1>1. r \in ProcType /\ r.todo \cup r.prompts \subseteq LeavesOf(profile) /\ Good(profile, r, held)
  BY DEF Fine
<1>2. PICK P : P = Promptable(r) OBVIOUS
<1>3. /\ P \subseteq {n \in LeavesOf(profile) : n \notin OutputOf(r)}
      /\ r.scoped => P \subseteq r.visible
  BY <1>1, <1>2, PromptableIs DEF Promptable
<1>4. P \subseteq Name /\ P \in SUBSET Name BY <1>3 DEF LeavesOf
<1>5. P \subseteq {n \in LeavesOf(profile) : r.status[n] \in {"missing", "optional"}}
  <2> SUFFICES ASSUME NEW n \in P PROVE r.status[n] \in {"missing", "optional"} BY <1>3
  <2>1. n \in LeavesOf(profile) /\ n \in Name /\ n \notin OutputOf(r) BY <1>3, <1>4
  <2>2. r.plan = Reach(profile, r.visible) /\ (~r.scoped => r.visible = Name)
    BY <1>1 DEF Good, Planned
  <2>3. r.visible \in SUBSET Name BY <1>1 DEF ProcType
  <2>4. r.visible \subseteq r.plan BY <2>2, <2>3, Reached
  <2>5. n \in r.visible
    <3>1. r.scoped \in BOOLEAN BY <1>1 DEF ProcType
    <3> QED BY <1>3, <2>1, <2>2, <3>1
  <2>6. r.status[n] # "resolved" BY <2>1, <2>4, <2>5 DEF OutputOf
  <2>7. r.status[n] # "none" BY <2>1, <2>4, <2>5 DEF Undecided
  <2>8. r.status[n] \in Status BY <1>1, <2>1 DEF ProcType
  <2> QED BY <2>6, <2>7, <2>8 DEF Status
<1>6. PICK d : d = [r EXCEPT !.pc = "prompt", !.prompts = P] OBVIOUS
<1>7. d \in ProcType BY <1>1, <1>4, <1>6 DEF ProcType
<1>8. /\ d.pc = "prompt" /\ d.status = r.status /\ d.source = r.source
      /\ d.op = r.op /\ d.target = r.target /\ d.plan = r.plan
      /\ d.visible = r.visible /\ d.scoped = r.scoped /\ d.round = r.round /\ d.todo = r.todo
      /\ d.prompts = P /\ d.alone = r.alone /\ d.asked = r.asked /\ d.absent = r.absent
  BY <1>1, <1>6 DEF ProcType
<1>9. Planned(profile, d) BY <1>1, <1>3, <1>8 DEF Good, Planned
<1>10. Looked(profile, d) /\ Walks(profile, d) BY <1>8 DEF Looked, Walks
<1>11. Absent(profile, d) BY <1>1, <1>8, SaidMore DEF Good, Absent, TakenForAbsent
<1>12. Gaps(profile, d, held) BY <1>1, <1>5, <1>8 DEF Good, Gaps
<1>13. d.todo \cup d.prompts \subseteq LeavesOf(profile) BY <1>1, <1>3, <1>8
<1>14. Fine(profile, d, held) BY <1>7, <1>9, <1>10, <1>11, <1>12, <1>13 DEF Fine, Good
<1> QED BY <1>2, <1>6, <1>14

(* A pass ends, is repeated or prompts.                                     *)
LEMMA FinishInv == ASSUME IInv, NEW p \in Procs, Finish(p) PROVE IInv'
<1>1. PICK q : q = proc[p] OBVIOUS
<1>2. profile \in Profiles /\ Fine(profile, q, held) /\ Sure(profile, down, held, q)
  BY <1>1 DEF IInv
<1>3. q.pc = "decide" /\ Open(q) = {} BY <1>1 DEF Finish, Is
<1>4. Undecided(profile, q) = {} BY <1>2, <1>3, Facts
<1>5. PICK r : r = Rendered(q) OBVIOUS
<1>6. /\ Fine(profile, r, held) /\ r.pc = "decide" /\ Undecided(profile, r) = {} /\ r \in ProcType
  BY <1>2, <1>3, <1>4, <1>5, RenderedFine
<1>7. Sure(profile, down, held, r) BY <1>2, <1>3, <1>4, <1>5, RenderedSure DEF Fine
<1>8. PICK how \in {"ok", "missing"} :
         Reading(p, IF TooLarge(r) THEN Ends(r, "error")
                    ELSE IF MissingOf(r) # {} \/ Violated(r) THEN AfterFailure(r)
                    ELSE Ends(r, how))
  BY <1>1, <1>5 DEF Finish
<1>9. \A e \in {"ok", "missing", "error"} :
         Fine(profile, Ends(r, e), held) /\ Sure(profile, down, held, Ends(r, e))
  BY <1>2, <1>6, <1>7, EndsOf, EndsOfSure
<1>10. Fine(profile, AfterFailure(r), held) /\ Sure(profile, down, held, AfterFailure(r))
  <2>1. CASE r.op # "check" \/ r.round = 3 BY <1>9, <2>1 DEF AfterFailure
  <2>2. CASE r.op = "check" /\ r.round = 1
    <3>1. Planned(profile, r) BY <1>6 DEF Fine, Good
    <3>2. Fine(profile, Again(r), held) /\ Sure(profile, down, held, Again(r))
      BY <1>2, <1>6, <2>2, <3>1, AgainFine, AgainSure
    <3> QED BY <2>2, <3>2 DEF AfterFailure
  <2>3. CASE r.op = "check" /\ r.round \notin {1, 3}
    <3>1. r.round = 2 BY <1>6, <2>3 DEF ProcType
    <3>2. Fine(profile, [r EXCEPT !.pc = "prompt", !.prompts = Promptable(r)], held)
      BY <1>2, <1>6, <2>3, <3>1, PromptFine
    <3>3. Sure(profile, down, held, [r EXCEPT !.pc = "prompt", !.prompts = Promptable(r)])
      BY <1>2, <1>6, <1>7, PromptSure
    <3> QED BY <1>9, <2>3, <3>2, <3>3 DEF AfterFailure
  <2> QED BY <2>1, <2>2, <2>3
<1> QED BY <1>8, <1>9, <1>10, GoesOn

(* A prompted value fills the first store of its route.                     *)
TypedIn(r, n) == [r EXCEPT !.prompts = r.prompts \ {n}, !.steady = FALSE]

LEMMA TypedFine ==
    ASSUME NEW f \in Profiles, NEW h, NEW h2, NEW r, Fine(f, r, h), r.pc = "prompt",
           NEW n \in r.prompts,
           \A s \in Stores, m \in Name : h2[s][m] = h[s][m] \/ (s = Link1(f, n) /\ m = n)
    PROVE  Fine(f, TypedIn(r, n), h2)
<1>1. r \in ProcType /\ r.todo \cup r.prompts \subseteq LeavesOf(f) /\ Good(f, r, h) BY DEF Fine
<1>2. PICK d : d = TypedIn(r, n) OBVIOUS
<1>3. r.prompts \ {n} \in SUBSET Name BY <1>1 DEF ProcType
<1>4. d \in ProcType BY <1>1, <1>2, <1>3 DEF ProcType, TypedIn
<1>5. /\ d.pc = "prompt" /\ d.status = r.status /\ d.source = r.source
      /\ d.op = r.op /\ d.target = r.target /\ d.plan = r.plan
      /\ d.visible = r.visible /\ d.scoped = r.scoped /\ d.round = r.round /\ d.todo = r.todo
      /\ d.prompts = r.prompts \ {n} /\ d.alone = r.alone /\ d.asked = r.asked
      /\ d.absent = r.absent
  BY <1>1, <1>2 DEF ProcType, TypedIn
<1>6. Planned(f, d) BY <1>1, <1>5 DEF Good, Planned
<1>7. Looked(f, d) /\ Walks(f, d) BY <1>5 DEF Looked, Walks
<1>8. Absent(f, d) BY <1>1, <1>5, SaidMore DEF Good, Absent, TakenForAbsent
<1>9. Gaps(f, d, h2)
  <2>1. d.prompts \subseteq {m \in LeavesOf(f) : d.status[m] \in {"missing", "optional"}}
    BY <1>1, <1>5 DEF Good, Gaps
  <2>2. ASSUME d.alone, NEW s \in Stores, NEW m \in LeavesOf(f), <<s, m>> \in d.absent
        PROVE  h2[s][m] = NoValue \/ (s = Link1(f, m)
                                      /\ (d.status[m] = "resolved" \/ m \notin d.prompts))
    <3>1. m \in Name BY DEF LeavesOf
    <3>2. h[s][m] = NoValue \/ (s = Link1(f, m) /\ (r.status[m] = "resolved" \/ m \notin r.prompts))
      BY <1>1, <1>5, <2>2 DEF Good, Gaps
    <3>3. CASE h2[s][m] = h[s][m] BY <1>5, <3>2, <3>3
    <3>4. CASE s = Link1(f, n) /\ m = n BY <1>5, <3>4
    <3> QED BY <3>1, <3>3, <3>4
  <2> QED BY <1>5, <2>1, <2>2 DEF Gaps
<1>10. d.todo \cup d.prompts \subseteq LeavesOf(f) BY <1>1, <1>5
<1> QED BY <1>2, <1>4, <1>6, <1>7, <1>8, <1>9, <1>10 DEF Fine, Good

LEMMA PromptInv == ASSUME IInv, NEW p \in Procs, NEW n \in Name, Prompt(p, n) PROVE IInv'
<1>1. PICK r : r = proc[p] OBVIOUS
<1>2. profile \in Profiles /\ Fine(profile, r, held) /\ Sure(profile, down, held, r)
  BY <1>1 DEF IInv
<1>3. r.pc = "prompt" /\ r.prompts # {} /\ n = First(r.prompts) BY <1>1 DEF Prompt, Is
<1>4. r \in ProcType /\ r.prompts \subseteq LeavesOf(profile) /\ Planned(profile, r)
  BY <1>2 DEF Fine, Good
<1>5. n \in r.prompts
  <2>1. r.prompts \subseteq Name BY <1>4 DEF ProcType
  <2> QED BY <1>3, <2>1, FirstOf
<1>6. n \in LeavesOf(profile) /\ Primary(n) \in Stores /\ Primary(n) = Link1(profile, n)
  BY <1>2, <1>4, <1>5, LeafOf
<1>7. PICK rest : rest = r.prompts \ {n} OBVIOUS
<1>8. CASE Writes(p, Primary(n), n, Typed,
                  IF rest # {} THEN [r EXCEPT !.prompts = rest, !.steady = FALSE]
                  ELSE Again(r))
  <2>1. PICK h2 : h2 = [held EXCEPT ![Primary(n)][n] = Typed] OBVIOUS
  <2>2. Typed \in Maybe /\ Typed # Default BY DEF Maybe, Value, Typed, Default
  <2>3. \A s \in Stores, m \in Name :
           h2[s][m] = held[s][m] \/ (s = Link1(profile, n) /\ m = n)
    BY <1>6, <2>1 DEF IInv
  <2>4. Fine(profile, TypedIn(r, n), h2)
    BY <1>2, <1>3, <1>5, <2>3, TypedFine
  <2>5. r.op = "check" /\ r.round = 2 BY <1>3, <1>4 DEF Planned
  <2>6. Fine(profile, Again(r), h2) /\ Sure(profile, down, h2, Again(r))
    BY <1>2, <1>3, <1>4, <2>5, AgainFine, AgainSure
  <2>7. PICK d : d = IF rest # {} THEN [r EXCEPT !.prompts = rest, !.steady = FALSE] ELSE Again(r)
    OBVIOUS
  <2>8. Fine(profile, d, h2) BY <1>7, <2>4, <2>6, <2>7 DEF TypedIn
  <2>9. Sure(profile, down, h2, [r EXCEPT !.prompts = rest, !.steady = FALSE])
    BY <1>4 DEF Sure, ProcType
  <2>10. Sure(profile, down, h2, d) BY <2>6, <2>7, <2>9
  <2> QED BY <1>6, <1>8, <2>1, <2>2, <2>7, <2>8, <2>10, WritesOn
<1>9. CASE Refused(p, Primary(n), n)
  <2>1. Fine(profile, Ends(r, "refused"), held) /\ Sure(profile, down, held, Ends(r, "refused"))
    BY <1>2, <1>3, EndsOf, EndsOfSure
  <2> QED BY <1>1, <1>9, <2>1, GoesOn DEF Refused
<1> QED BY <1>1, <1>7, <1>8, <1>9 DEF Prompt

LEMMA GiveUpInv == ASSUME IInv, NEW p \in Procs, GiveUp(p) PROVE IInv'
<1>1. PICK r : r = proc[p] OBVIOUS
<1>2. profile \in Profiles /\ Fine(profile, r, held) /\ Sure(profile, down, held, r)
  BY <1>1 DEF IInv
<1>3. r.pc = "prompt" BY <1>1 DEF GiveUp, Is
<1>4. Fine(profile, Ends(r, "refused"), held) /\ Sure(profile, down, held, Ends(r, "refused"))
  BY <1>2, <1>3, EndsOf, EndsOfSure
<1> QED BY <1>1, <1>4, GoesOn DEF GiveUp
-----------------------------------------------------------------------------
(* A `get` ends with a value.                                               *)
LEMMA GotFine ==
    ASSUME NEW f \in Profiles, NEW h, NEW r, Fine(f, r, h), r.pc = "walk", NEW v \in Maybe,
           v = Default => Said(f, r, r.target, DOMAIN f.route[r.target])
    PROVE  Fine(f, [Ends(r, "ok") EXCEPT !.value[r.target] = v], h)
<1>1. r \in ProcType /\ r.todo \cup r.prompts \subseteq LeavesOf(f) /\ Good(f, r, h) BY DEF Fine
<1>2. r.op = "get" /\ r.target \in Name BY <1>1 DEF Good, Planned
<1>3. PICK d : d = [Ends(r, "ok") EXCEPT !.value[r.target] = v] OBVIOUS
<1>4. d \in ProcType BY <1>1, <1>2, <1>3 DEF ProcType, Ends
<1>5. /\ d.pc = "done" /\ d.result = "ok" /\ d.value = [r.value EXCEPT ![r.target] = v]
      /\ d.status = r.status /\ d.source = r.source
      /\ d.op = r.op /\ d.target = r.target /\ d.plan = r.plan
      /\ d.visible = r.visible /\ d.scoped = r.scoped /\ d.round = r.round /\ d.todo = r.todo
      /\ d.prompts = r.prompts /\ d.asked = r.asked /\ d.absent = r.absent
  BY <1>1, <1>3 DEF ProcType, Ends
<1>6. d.value[d.target] = v BY <1>1, <1>2, <1>5 DEF ProcType
<1>7. Planned(f, d) BY <1>1, <1>5 DEF Good, Planned
<1>8. Looked(f, d) /\ Gaps(f, d, h) BY <1>5 DEF Looked, Gaps
<1>9. Absent(f, d) BY <1>1, <1>5, SaidMore DEF Good, Absent, TakenForAbsent
<1>10. Walks(f, d) BY <1>5, <1>6, SaidMore DEF Walks
<1>11. d.todo \cup d.prompts \subseteq LeavesOf(f) BY <1>1, <1>5
<1> QED BY <1>3, <1>4, <1>7, <1>8, <1>9, <1>10, <1>11 DEF Fine, Good

LEMMA WalkLinkInv == ASSUME IInv, NEW p \in Procs, WalkLink(p) PROVE IInv'
<1>1. PICK r : r = proc[p] OBVIOUS
<1>2. profile \in Profiles /\ Fine(profile, r, held) /\ Sure(profile, down, held, r)
  BY <1>1 DEF IInv
<1>3. r.pc = "walk" BY <1>1 DEF WalkLink, Is
<1>4. PICK n : n = r.target OBVIOUS
<1>5. r \in ProcType /\ n \in LeavesOf(profile) /\ r.op = "get" /\ r.plan = Reach(profile, {n})
  BY <1>2, <1>3, <1>4 DEF Fine, Good, Planned
<1>6. n \in r.plan
  <2>1. {n} \in SUBSET Name BY <1>5 DEF LeavesOf
  <2> QED BY <1>2, <1>5, <2>1, Reached
<1>7. r.link \in DOMAIN Chain(n) BY <1>1, <1>4 DEF WalkLink
<1>8. PICK s : s = Chain(n)[r.link] OBVIOUS
<1>9. s \in Stores /\ n \in Name /\ Chain(n) = profile.route[n]
  BY <1>2, <1>5, <1>7, <1>8, LeafOf
<1> DEFINE a == Asks(r, s, n)
<1>10. Reading(p, IF Unreadable(s, n) THEN [r EXCEPT !.link = @ + 1]
                  ELSE IF held[s][n] = NoValue
                  THEN [a EXCEPT !.link = @ + 1, !.healthy = TRUE]
                  ELSE [Ends(a, "ok") EXCEPT !.value[n] = held[s][n]])
  BY <1>1, <1>4, <1>8 DEF WalkLink
<1>11. /\ Fine(profile, a, held) /\ a.pc = "walk" /\ a.link = r.link /\ a.target = n
       /\ (held[s][n] = NoValue => <<s, n>> \in a.absent)
  BY <1>2, <1>3, <1>4, <1>5, <1>6, <1>9, AsksFine
<1>12. Sure(profile, down, held, a) BY <1>2, <1>5, AsksSure
<1> HIDE DEF a
<1>13. CASE Unreadable(s, n)
  <2>1. r.healthy \in BOOLEAN BY <1>5 DEF ProcType
  <2>2. r.healthy => Said(profile, r, r.target, DOMAIN profile.route[r.target])
    BY <1>2, <1>3 DEF Fine, Good, Walks
  <2>3. Fine(profile, [r EXCEPT !.link = r.link + 1, !.healthy = r.healthy], held)
    BY <1>2, <1>3, <2>1, <2>2, LinkFine
  <2>4. [r EXCEPT !.link = r.link + 1, !.healthy = r.healthy] = [r EXCEPT !.link = @ + 1]
    BY <1>5 DEF ProcType
  <2>5. Shut(profile, down, profile.route[n][r.link], n)
    BY <1>8, <1>9, <1>13 DEF Unreadable, Shut
  <2>6. Sure(profile, down, held, [r EXCEPT !.link = r.link + 1, !.healthy = r.healthy])
    BY <1>2, <1>3, <1>4, <1>7, <1>9, <2>1, <2>5, LinkSure
  <2> QED BY <1>10, <1>13, <2>3, <2>4, <2>6, GoesOn
<1>14. CASE ~Unreadable(s, n) /\ held[s][n] = NoValue
  <2>1. Said(profile, a, a.target, DOMAIN profile.route[a.target])
    BY <1>7, <1>8, <1>9, <1>11, <1>14 DEF Said
  <2>2. Fine(profile, [a EXCEPT !.link = a.link + 1, !.healthy = TRUE], held)
    BY <1>2, <1>11, <2>1, LinkFine
  <2>3. Sure(profile, down, held, [a EXCEPT !.link = a.link + 1, !.healthy = TRUE])
    BY <1>2, <1>7, <1>8, <1>9, <1>11, <1>14, <1>12, LinkSure
  <2> QED BY <1>10, <1>14, <2>2, <2>3, GoesOn
<1>15. CASE ~Unreadable(s, n) /\ held[s][n] # NoValue
  <2>1. held[s][n] \in Maybe /\ held[s][n] # Default BY <1>9 DEF IInv
  <2>2. Fine(profile, [Ends(a, "ok") EXCEPT !.value[n] = held[s][n]], held)
    BY <1>2, <1>11, <2>1, GotFine
  <2>3. ~Shut(profile, down, profile.route[n][a.link], n) /\ a.link \in DOMAIN profile.route[n]
        /\ held[s][n] = held[profile.route[n][a.link]][n]
    BY <1>7, <1>8, <1>9, <1>11, <1>15 DEF Unreadable, Shut
  <2>4. Right(profile, down, held, a) => Arrives(profile, down, held, n, "ok", held[s][n])
    BY <1>11, <1>15, <2>3, WalkedTo
  <2>5. Sure(profile, down, held, [Ends(a, "ok") EXCEPT !.value[n] = held[s][n]])
    BY <1>2, <1>11, <1>12, <2>4, GotSure
  <2> QED BY <1>10, <1>15, <2>2, <2>5, GoesOn
<1> QED BY <1>13, <1>14, <1>15

LEMMA WalkEndsInv == ASSUME IInv, NEW p \in Procs, WalkEnds(p) PROVE IInv'
<1>1. PICK r : r = proc[p] OBVIOUS
<1>2. profile \in Profiles /\ Fine(profile, r, held) /\ Sure(profile, down, held, r)
  BY <1>1 DEF IInv
<1>3. r.pc = "walk" BY <1>1 DEF WalkEnds, Is
<1>4. PICK n : n = r.target OBVIOUS
<1>5. Reading(p, IF ~r.healthy THEN Ends(r, "error")
                 ELSE IF profile.missing[n] = "default"
                 THEN [Ends(r, "ok") EXCEPT !.value[n] = Default]
                 ELSE Ends(r, "missing"))
  BY <1>1, <1>4 DEF WalkEnds
<1>6. r.value[n] = NoValue /\ (r.healthy => Said(profile, r, n, DOMAIN profile.route[n]))
  BY <1>2, <1>3, <1>4 DEF Fine, Good, Walks
<1>7. NoValue # Default /\ Default \in Maybe BY DEF NoValue, Default, Maybe, Value
<1>8. r \in ProcType /\ r.link \notin DOMAIN profile.route[n]
  BY <1>1, <1>2, <1>4 DEF WalkEnds, Fine, Chain
<1>9. Right(profile, down, held, r) =>
          /\ Bare(profile, down, held, n, DOMAIN profile.route[n])
          /\ ~r.healthy => Closed(profile, down, n, DOMAIN profile.route[n])
  BY <1>2, <1>3, <1>4, <1>8, WalkedAll
<1>10. CASE ~r.healthy
  <2>1. Fine(profile, Ends(r, "error"), held) BY <1>2, <1>3, <1>4, <1>6, <1>7, EndsFine
  <2>2. Right(profile, down, held, r) => Arrives(profile, down, held, n, "error", r.value[n])
    BY <1>10, <1>9 DEF Arrives
  <2>3. Sure(profile, down, held, Ends(r, "error"))
    BY <1>2, <1>3, <1>4, <1>8, <2>2, EndsSure
  <2> QED BY <1>5, <1>10, <2>1, <2>3, GoesOn
<1>11. CASE r.healthy /\ profile.missing[n] = "default"
  <2>1. Fine(profile, [Ends(r, "ok") EXCEPT !.value[n] = Default], held)
    BY <1>2, <1>3, <1>4, <1>6, <1>7, <1>11, GotFine
  <2>2. Right(profile, down, held, r) => Arrives(profile, down, held, n, "ok", Default)
    BY <1>11, <1>9 DEF Arrives
  <2>3. Sure(profile, down, held, [Ends(r, "ok") EXCEPT !.value[n] = Default])
    BY <1>2, <1>3, <1>4, <2>2, GotSure
  <2> QED BY <1>5, <1>11, <2>1, <2>3, GoesOn
<1>12. CASE r.healthy /\ profile.missing[n] # "default"
  <2>1. Fine(profile, Ends(r, "missing"), held) BY <1>2, <1>3, <1>4, <1>6, <1>12, EndsFine
  <2>2. Right(profile, down, held, r) => Arrives(profile, down, held, n, "missing", r.value[n])
    BY <1>12, <1>9 DEF Arrives
  <2>3. Sure(profile, down, held, Ends(r, "missing"))
    BY <1>2, <1>3, <1>4, <1>8, <2>2, EndsSure
  <2> QED BY <1>5, <1>12, <2>1, <2>3, GoesOn
<1> QED BY <1>10, <1>11, <1>12

LEMMA ReturnInv == ASSUME IInv, NEW p \in Procs, Return(p) PROVE IInv'
<1>1. Fine(profile, Blank, held) /\ Sure(profile, down, held, Blank)
  BY BlankFine DEF IInv, Sure
<1> QED BY <1>1, GoesOn DEF Return

LEMMA FlapInv == ASSUME IInv, NEW s \in Stores, Flap(s) PROVE IInv'
<1>1. /\ profile' = profile /\ held' = held /\ down' \in SUBSET Unreliable
      /\ proc' = [p \in Procs |-> [proc[p] EXCEPT !.steady = Is(p, "idle")]]
  BY DEF Flap, IInv
<1>2. \A p \in Procs : Fine(profile, proc'[p], held)
  <2> SUFFICES ASSUME NEW p \in Procs
               PROVE  Fine(profile, [proc[p] EXCEPT !.steady = Is(p, "idle")], held)
    BY <1>1
  <2>1. PICK d : d = proc[p] OBVIOUS
  <2>2. PICK c \in BOOLEAN : c = (d.pc = "idle") OBVIOUS
  <2>3. profile \in Profiles /\ Fine(profile, d, held) BY <2>1 DEF IInv
  <2>4. d \in ProcType /\ d.alone \in BOOLEAN BY <2>3 DEF Fine, ProcType
  <2>5. Fine(profile, [d EXCEPT !.alone = d.alone, !.steady = c], held)
    BY <2>3, <2>4, DisturbedFine
  <2>6. [d EXCEPT !.alone = d.alone, !.steady = c] = [d EXCEPT !.steady = c]
    BY <2>4 DEF ProcType
  <2>7. [proc[p] EXCEPT !.steady = Is(p, "idle")] = [d EXCEPT !.steady = c]
    BY <2>1, <2>2, Zenon DEF Is
  <2> QED BY <2>5, <2>6, <2>7
<1>3. proc' \in [Procs -> ProcType] BY <1>1, <1>2 DEF Fine
<1>4. \A p \in Procs : Sure(profile, down', held, proc'[p])
  <2> SUFFICES ASSUME NEW p \in Procs PROVE Sure(profile, down', held, proc'[p]) OBVIOUS
  <2>1. PICK d : d = proc[p] OBVIOUS
  <2>2. PICK c : c = Is(p, "idle") OBVIOUS
  <2>3. d \in ProcType /\ (c => d.pc = "idle") BY <2>1, <2>2 DEF IInv, Is
  <2>4. Sure(profile, down', held, [d EXCEPT !.steady = c]) BY <2>3 DEF Sure, ProcType
  <2> QED BY <1>1, <2>1, <2>2, <2>4
<1> QED BY <1>1, <1>2, <1>3, <1>4 DEF IInv

(* Every step keeps the invariant.                                          *)
LEMMA NextInv == ASSUME IInv, [Next]_vars PROVE IInv'
<1>1. CASE UNCHANGED vars BY <1>1 DEF vars, IInv
<1>2. CASE Next
  <2>1. ASSUME NEW p \in Procs, NEW op \in Ops[p], NEW V \in profile.scopes \cup {Name},
               Resolve(p, op, V)
        PROVE  IInv'
    BY <2>1, ResolveInv
  <2>2. ASSUME NEW p \in Procs, NEW n \in Name,
               Get(p, n) \/ FetchOne(p, n) \/ FetchFails(p, n) \/ Prompt(p, n)
        PROVE  IInv'
    BY <2>2, GetInv, FetchOneInv, FetchFailsInv, PromptInv
  <2>3. ASSUME NEW p \in Procs,
               \/ WalkFallback(p) \/ ChainEnds(p) \/ Generate(p) \/ Finish(p) \/ GiveUp(p)
               \/ WalkLink(p) \/ WalkEnds(p) \/ Return(p)
        PROVE  IInv'
    BY <2>3, WalkFallbackInv, ChainEndsInv, GenerateInv, FinishInv, GiveUpInv, WalkLinkInv,
       WalkEndsInv, ReturnInv
  <2>4. ASSUME NEW s \in Stores, Flap(s) PROVE IInv' BY <2>4, FlapInv
  <2> QED BY <1>2, <2>1, <2>2, <2>3, <2>4 DEF Next
<1> QED BY <1>1, <1>2

LEMMA SpecInv == Spec => []IInv
<1> QED BY InitInv, NextInv, PTL DEF Spec
-----------------------------------------------------------------------------
(* Every variable stays in its type.                                        *)
THEOREM TypeCorrect == Spec => []TypeOK
<1>1. IInv => TypeOK
  <2> SUFFICES ASSUME IInv PROVE TypeOK OBVIOUS
  <2>1. Leaves = LeavesOf(profile) BY DEF Leaves, LeavesOf, Composed
  <2>2. \A p \in Procs : proc[p].todo \cup proc[p].prompts \subseteq Leaves
    BY <2>1 DEF IInv, Fine
  <2> QED BY <2>2 DEF IInv, TypeOK
<1> QED BY <1>1, SpecInv, PTL

(* An outage is never taken for an unprovisioned secret: a default, a       *)
(* generated value, a missing or an omitted secret rests on a "not found"   *)
(* of the route's first store and, if it has fallbacks, of one of them      *)
(* (`execute_plan`, `resolve_secret`), and what `get` takes for absent on   *)
(* one such answer.                                                         *)
THEOREM OutagesAreNoAbsence == Spec => []FailureIsNotAbsence
<1>1. IInv => FailureIsNotAbsence
  <2> SUFFICES ASSUME IInv, NEW p \in Procs
               PROVE  LET r == proc[p]
                      IN /\ \A n \in Leaves :
                              TakenForAbsent(r, n) \/ (r.pc = "generate" /\ n = Current(r)) =>
                                  /\ SaidAbsent(r, n, {1})
                                  /\ Len(Chain(n)) > 1 => SaidAbsent(r, n, 2..Len(Chain(n)))
                         /\ r.op = "get" /\ ~Composed(r.target) /\ r.pc = "done"
                            /\ (r.result = "missing" \/ r.value[r.target] = Default) =>
                                  SaidAbsent(r, r.target, DOMAIN Chain(r.target))
    BY DEF FailureIsNotAbsence
  <2>1. PICK r : r = proc[p] OBVIOUS
  <2>2. profile \in Profiles /\ Fine(profile, r, held) /\ Good(profile, r, held)
    BY <2>1 DEF IInv, Fine
  <2>3. \A n, I : SaidAbsent(r, n, I) <=> Said(profile, r, n, I) BY DEF SaidAbsent, Said, Chain
  <2>4. ASSUME NEW n \in Leaves,
               TakenForAbsent(r, n) \/ (r.pc = "generate" /\ n = Current(r))
        PROVE  /\ SaidAbsent(r, n, {1})
               /\ Len(Chain(n)) > 1 => SaidAbsent(r, n, 2..Len(Chain(n)))
    <3>1. n \in LeavesOf(profile) BY DEF Leaves, LeavesOf, Composed
    <3>2. TakenForAbsent(r, n) => Sought(profile, r, n) BY <2>2, <3>1 DEF Good, Absent
    <3>3. r.pc = "generate" /\ n = Current(r) => Sought(profile, r, n)
      BY <2>2, Facts DEF Good, Looked
    <3> QED BY <2>3, <2>4, <3>2, <3>3 DEF Sought, Chain
  <2>5. ASSUME r.op = "get", ~Composed(r.target), r.pc = "done",
               r.result = "missing" \/ r.value[r.target] = Default
        PROVE  SaidAbsent(r, r.target, DOMAIN Chain(r.target))
    <3>1. r.target \in LeavesOf(profile)
      BY <2>2, <2>5 DEF Good, Planned, LeavesOf, Composed
    <3> QED BY <2>2, <2>3, <2>5, <3>1 DEF Good, Walks, Chain
  <2> QED BY <2>1, <2>4, <2>5
<1> QED BY <1>1, SpecInv, PTL

(* A scope bounds what is asked of a store, prompted for and left in the    *)
(* environment of the child (`accessed_names`, `scoped_promptable_missing`, *)
(* `scope_excluded_names`).                                                 *)
THEOREM ScopesHold == Spec => []ScopeHolds
<1>1. IInv => ScopeHolds
  <2> SUFFICES ASSUME IInv, NEW p \in Procs
               PROVE  LET r == proc[p]
                      IN /\ r.asked \subseteq Closure(IF r.op = "get" THEN {r.target} ELSE r.visible)
                         /\ r.scoped => r.prompts \subseteq r.visible
                         /\ r.scoped /\ r.op = "run" /\ r.result = "ok" => ChildEnv(r) \subseteq r.visible
    BY DEF ScopeHolds
  <2>1. PICK r : r = proc[p] OBVIOUS
  <2>2. profile \in Profiles /\ Planned(profile, r) BY <2>1 DEF IInv, Fine, Good
  <2>3. r.asked \subseteq Closure(IF r.op = "get" THEN {r.target} ELSE r.visible)
    <3>1. CASE r.pc = "idle" BY <2>2, <3>1 DEF Planned
    <3>2. CASE r.pc # "idle" BY <2>2, <3>2, ReachIs DEF Planned
    <3> QED BY <3>1, <3>2
  <2>4. r.scoped => r.prompts \subseteq r.visible BY <2>2 DEF Planned
  <2>5. r.scoped => ChildEnv(r) \subseteq r.visible BY DEF ChildEnv, OutputOf
  <2> QED BY <2>1, <2>3, <2>4, <2>5
<1> QED BY <1>1, SpecInv, PTL

(* A generated or prompted value is written where the pass found nothing    *)
(* and nothing came since, unless another process wrote                     *)
(* (`try_generate_secret`, `ensure_secrets`).                               *)
LEMMA GapOf ==
    ASSUME IInv, NEW p \in Procs, proc[p].alone, proc[p].pc \in {"generate", "prompt"},
           NEW n \in LeavesOf(profile), Sought(profile, proc[p], n),
           proc[p].status[n] # "resolved", proc[p].pc = "prompt" => n \in proc[p].prompts
    PROVE  held[Primary(n)][n] = NoValue
<1>1. PICK r : r = proc[p] OBVIOUS
<1>2. profile \in Profiles /\ Gaps(profile, r, held) BY <1>1 DEF IInv, Fine, Good
<1>3. Primary(n) \in Stores /\ Primary(n) = profile.route[n][1] BY <1>2, LeafOf DEF Link1
<1>4. <<Primary(n), n>> \in r.absent BY <1>1, <1>3 DEF Sought, Said
<1> QED BY <1>1, <1>2, <1>3, <1>4 DEF Gaps

LEMMA OneWrite ==
    ASSUME IInv, NEW q \in Procs, NEW z \in Stores, NEW m \in Name, NEW v, NEW r,
           Writes(q, z, m, v, r),
           NEW p \in Procs, NEW s \in Stores, NEW n \in Name,
           proc[p].pc \in {"generate", "prompt"}, proc'[p].alone, held'[s][n] # held[s][n]
    PROVE  p = q /\ s = z /\ n = m
<1>1. held' = [held EXCEPT ![z][m] = v]
      /\ proc' = [x \in Procs |-> IF x = q THEN r ELSE Disturbed(x)]
  BY DEF Writes
<1>2. s = z /\ n = m BY <1>1 DEF IInv
<1>3. ASSUME p # q PROVE FALSE
  <2>1. proc'[p] = Disturbed(p) BY <1>1, <1>3
  <2>2. PICK d : d = proc[p] OBVIOUS
  <2>3. d \in ProcType BY <2>2 DEF IInv
  <2>4. PICK b, c : b = Running(p) /\ c = Is(p, "idle") OBVIOUS
  <2>5. b = TRUE BY <2>4, Zenon DEF Running
  <2>6. Disturbed(p) = [d EXCEPT !.alone = ~b, !.steady = c] BY <2>2, <2>4 DEF Disturbed
  <2>7. [d EXCEPT !.alone = ~b, !.steady = c].alone = ~b BY <2>3 DEF ProcType
  <2> QED BY <2>1, <2>5, <2>6, <2>7
<1> QED BY <1>2, <1>3

THEOREM GapsAreFilled == Spec => WritesFillGaps
<1>1. ASSUME IInv, [Next]_vars, NEW p \in Procs, NEW s \in Stores, NEW n \in Name,
             proc[p].pc \in {"generate", "prompt"}, proc[p].alone, proc'[p].alone,
             held'[s][n] # held[s][n]
      PROVE  held[s][n] = NoValue
  <2>1. PICK r : r = proc[p] OBVIOUS
  <2>2. profile \in Profiles /\ Fine(profile, r, held) /\ Good(profile, r, held)
    BY <1>1, <2>1 DEF IInv, Fine
  <2>3. \/ \E q \in Procs : Generate(q) /\ held' # held
        \/ \E q \in Procs, m \in Name : Prompt(q, m) /\ held' # held
    <3>1. held' # held /\ Next BY <1>1 DEF vars
    <3>2. \A q \in Procs : \A d : ~Reading(q, d) BY <3>1 DEF Reading
    <3>3. ASSUME NEW q \in Procs
          PROVE  /\ \A op \in Ops[q], V \in profile.scopes \cup {Name} : ~Resolve(q, op, V)
                 /\ \A m \in Name : ~Get(q, m) /\ ~FetchOne(q, m) /\ ~FetchFails(q, m)
                 /\ ~WalkFallback(q) /\ ~ChainEnds(q) /\ ~Finish(q) /\ ~GiveUp(q)
                 /\ ~WalkLink(q) /\ ~WalkEnds(q) /\ ~Return(q)
      BY <3>2, Zenon DEF Resolve, Get, FetchOne, FetchFails, WalkFallback, ChainEnds, Finish,
         GiveUp, WalkLink, WalkEnds, Return
    <3>4. \A z \in Stores : ~Flap(z) BY <3>1 DEF Flap
    <3> QED BY <3>1, <3>3, <3>4 DEF Next
  <2>4. ASSUME NEW q \in Procs, Generate(q), held' # held PROVE held[s][n] = NoValue
    <3>1. PICK m : m = Current(proc[q]) OBVIOUS
    <3>2. PICK d : Writes(q, Primary(m), m, q, d)
      BY <2>4, <3>1 DEF Generate, Refused, Reading
    <3>3. proc[q].pc = "generate" BY <2>4 DEF Generate, Is
    <3>4. Fine(profile, proc[q], held) BY <1>1 DEF IInv
    <3>5. Undecided(profile, proc[q]) # {} /\ Sought(profile, proc[q], Turn(profile, proc[q]))
      BY <3>3, <3>4 DEF Fine, Good, Looked
    <3>6. m = Turn(profile, proc[q]) /\ m \in LeavesOf(profile) /\ proc[q].status[m] = "none"
      BY <2>2, <3>1, <3>4, <3>5, Facts
    <3>7. m \in Name /\ Primary(m) \in Stores BY <2>2, <3>6, LeafOf
    <3>8. p = q /\ s = Primary(m) /\ n = m BY <1>1, <3>2, <3>7, OneWrite
    <3> QED BY <1>1, <3>3, <3>5, <3>6, <3>8, GapOf
  <2>5. ASSUME NEW q \in Procs, NEW m \in Name, Prompt(q, m), held' # held
        PROVE  held[s][n] = NoValue
    <3>1. PICK d : Writes(q, Primary(m), m, Typed, d)
      BY <2>5 DEF Prompt, Refused, Reading
    <3>2. proc[q].pc = "prompt" /\ proc[q].prompts # {} /\ m = First(proc[q].prompts)
      BY <2>5 DEF Prompt, Is
    <3>3. Fine(profile, proc[q], held) BY <1>1 DEF IInv
    <3>4. proc[q].prompts \subseteq Name BY <3>3 DEF Fine, ProcType
    <3>5. m \in proc[q].prompts BY <3>2, <3>4, FirstOf
    <3>6. m \in LeavesOf(profile) /\ proc[q].status[m] \in {"missing", "optional"}
      BY <3>2, <3>3, <3>5 DEF Fine, Good, Gaps
    <3>7. Sought(profile, proc[q], m) BY <3>3, <3>6 DEF Fine, Good, Absent, TakenForAbsent
    <3>8. Primary(m) \in Stores BY <2>2, <3>6, LeafOf
    <3>9. p = q /\ s = Primary(m) /\ n = m BY <1>1, <3>1, <3>8, OneWrite
    <3> QED BY <1>1, <3>2, <3>5, <3>6, <3>7, <3>9, GapOf
  <2> QED BY <2>3, <2>4, <2>5
<1>2. IInv /\ [Next]_vars =>
        [\A p \in Procs, s \in Stores, n \in Name :
           proc[p].pc \in {"generate", "prompt"} /\ proc[p].alone /\ proc'[p].alone
           /\ held'[s][n] # held[s][n]
              => held[s][n] = NoValue]_vars
  BY <1>1
<1> QED BY <1>2, SpecInv, PTL DEF Spec, WritesFillGaps
-----------------------------------------------------------------------------
(* What a chain yields is one thing, and nothing if it is bare.             *)
LEMMA GivesOne ==
    ASSUME NEW f \in Profiles, NEW D, NEW h, NEW n \in LeavesOf(f), NEW k \in Nat, NEW v
    PROVE  /\ \A w : Gives(f, D, h, n, k, v) /\ Gives(f, D, h, n, k, w) => v = w
           /\ Bare(f, D, h, n, k..Len(f.route[n])) => ~Gives(f, D, h, n, k, v)
<1>1. DOMAIN f.route[n] = 1..Len(f.route[n]) /\ Len(f.route[n]) \in Nat
  BY Fields DEF LeavesOf
<1>2. ASSUME NEW w, Gives(f, D, h, n, k, v), Gives(f, D, h, n, k, w) PROVE v = w
  <2>1. PICK i \in DOMAIN f.route[n] :
          /\ i >= k /\ ~Shut(f, D, f.route[n][i], n) /\ v # NoValue
          /\ h[f.route[n][i]][n] = v /\ Bare(f, D, h, n, k..(i - 1))
    BY <1>2 DEF Gives
  <2>2. PICK j \in DOMAIN f.route[n] :
          /\ j >= k /\ ~Shut(f, D, f.route[n][j], n) /\ w # NoValue
          /\ h[f.route[n][j]][n] = w /\ Bare(f, D, h, n, k..(j - 1))
    BY <1>2 DEF Gives
  <2>3. i \in Nat /\ j \in Nat BY <1>1
  <2>4. CASE i < j
    <3>1. i \in k..(j - 1) BY <2>1, <2>3, <2>4
    <3> QED BY <2>1, <2>2, <3>1 DEF Bare
  <2>5. CASE j < i
    <3>1. j \in k..(i - 1) BY <2>2, <2>3, <2>5
    <3> QED BY <2>1, <2>2, <3>1 DEF Bare
  <2>6. CASE i = j BY <2>1, <2>2, <2>6
  <2> QED BY <2>3, <2>4, <2>5, <2>6
<1>3. ASSUME Bare(f, D, h, n, k..Len(f.route[n])), Gives(f, D, h, n, k, v) PROVE FALSE
  <2>1. PICK i \in DOMAIN f.route[n] :
          /\ i >= k /\ ~Shut(f, D, f.route[n][i], n) /\ v # NoValue /\ h[f.route[n][i]][n] = v
    BY <1>3 DEF Gives
  <2>2. i \in k..Len(f.route[n]) BY <1>1, <2>1
  <2> QED BY <1>3, <2>1, <2>2 DEF Bare
<1> QED BY <1>2, <1>3

(* Which groups of a pass failed is a matter of the stores and the plan.    *)
LEMMA FailedIs ==
    ASSUME NEW f, NEW D, NEW r, Groups(f, D, r), Begun(r), r.pc # "fetch",
           NEW n \in r.plan \cap LeavesOf(f)
    PROVE  Link1(f, n) \in r.failed <=> Spoils(f, D, r.plan, Link1(f, n))
<1>1. \A m \in r.plan \cap LeavesOf(f) : Link1(f, m) \in r.failed \/ ~Shut(f, D, Link1(f, m), m)
  BY DEF Groups
<1>2. ASSUME Spoils(f, D, r.plan, Link1(f, n)) PROVE Link1(f, n) \in r.failed
  BY <1>1, <1>2 DEF Spoils, Shut
<1> QED BY <1>2 DEF Groups

(* Two passes decide a stored secret alike.                                 *)
LEMMA LeafAgrees ==
    ASSUME NEW f \in Profiles, NEW D, NEW h, NEW q, NEW r, NEW n \in LeavesOf(f),
           Outcome(f, D, h, q, n), Outcome(f, D, h, r, n),
           Link1(f, n) \in q.failed <=> Link1(f, n) \in r.failed
    PROVE  /\ q.status[n] = r.status[n]
           /\ q.value[n] # NoValue /\ r.value[n] # NoValue => q.value[n] = r.value[n]
<1>1. f.missing[n] \in {"generate", "default", "error", "omit"} BY Fields DEF LeavesOf
<1>2. /\ Gives(f, D, h, n, 2, q.value[n]) /\ Gives(f, D, h, n, 2, r.value[n])
           => q.value[n] = r.value[n]
      /\ Bare(f, D, h, n, 2..Len(f.route[n])) =>
           ~Gives(f, D, h, n, 2, q.value[n]) /\ ~Gives(f, D, h, n, 2, r.value[n])
  BY GivesOne
<1>3. CASE ByFirst(f, h, q, n)
  BY <1>3 DEF Outcome, ByFirst, ByOther, Lacks
<1>4. CASE ByOther(f, D, h, q, n)
  BY <1>2, <1>4 DEF Outcome, ByFirst, ByOther, Lacks
<1>5. CASE Lacks(f, D, h, q, n) /\ ByPolicy(f, q, n)
  <2>1. ~ByFirst(f, h, r, n) /\ ~ByOther(f, D, h, r, n)
    BY <1>2, <1>5 DEF ByFirst, ByOther, Lacks
  <2>2. ByPolicy(f, r, n) BY <2>1 DEF Outcome
  <2> QED BY <1>1, <1>5, <2>2 DEF ByPolicy
<1> QED BY <1>3, <1>4, <1>5 DEF Outcome

(* What is being generated is what another pass reports as generated.       *)
LEMMA GeneratedAgrees ==
    ASSUME NEW f \in Profiles, NEW D, NEW h, NEW q, NEW r, NEW n \in LeavesOf(f),
           Lacks(f, D, h, q, n), f.missing[n] = "generate", Outcome(f, D, h, r, n),
           Link1(f, n) \in q.failed <=> Link1(f, n) \in r.failed
    PROVE  r.status[n] = "resolved"
<1>1. Bare(f, D, h, n, 2..Len(f.route[n])) => ~Gives(f, D, h, n, 2, r.value[n]) BY GivesOne
<1> QED BY <1>1 DEF Outcome, ByFirst, ByOther, ByPolicy, Lacks

(* Two batch passes over the same stores agree.                             *)
LEMMA BatchesDo ==
    ASSUME profile \in Profiles, NEW D, NEW h, NEW q, NEW r,
           Fine(profile, q, h), Right(profile, D, h, q), Fine(profile, r, h), Right(profile, D, h, r),
           q.pc # "idle", r.pc # "idle", ~Walker(profile, q), ~Walker(profile, r)
    PROVE  BatchesAgree(q, r)
<1> SUFFICES ASSUME q.pc # "fetch", r.pc # "fetch", Alike(q, r)
             PROVE  /\ SameValues(q, r)
                    /\ \A n \in q.plan \cap r.plan :
                         Predicted(q, n) # "none" /\ Predicted(r, n) # "none"
                            => Predicted(q, n) = Predicted(r, n)
  BY DEF BatchesAgree, Fetched
<1>1. q \in ProcType /\ r \in ProcType /\ q.plan \subseteq Name /\ r.plan \subseteq Name
  BY Facts
<1>2. Leaves = LeavesOf(profile) BY DEF Leaves, LeavesOf, Composed
<1> DEFINE Says(x, n) == x.status[n] # "none" \/ (x.pc = "generate" /\ n = Current(x))
<1>3. ASSUME NEW n \in q.plan \cap r.plan, n \in LeavesOf(profile), Begun(q), Begun(r)
      PROVE  Link1(profile, n) \in q.failed <=> Link1(profile, n) \in r.failed
  <2>1. Primary(n) = Link1(profile, n) BY <1>3, LeafOf
  <2>2. Spoilt(q, Primary(n)) <=> Spoilt(r, Primary(n)) BY <1>2, <1>3 DEF Alike
  <2>3. ASSUME NEW x, x.plan \subseteq Name
        PROVE  Spoils(profile, D, x.plan, Primary(n)) <=> Primary(n) \in D \/ Spoilt(x, Primary(n))
    <3>1. \A m \in LeavesOf(profile) : Primary(m) = Link1(profile, m) BY LeafOf
    <3> QED BY <1>2, <3>1 DEF Spoils, Spoilt
  <2>4. /\ Link1(profile, n) \in q.failed <=> Spoils(profile, D, q.plan, Link1(profile, n))
        /\ Link1(profile, n) \in r.failed <=> Spoils(profile, D, r.plan, Link1(profile, n))
    BY <1>3, FailedIs DEF Right
  <2> QED BY <1>1, <2>1, <2>2, <2>3, <2>4
<1>4. ASSUME NEW x, x = q \/ x = r, NEW n \in LeavesOf(profile), Says(x, n)
      PROVE  /\ Begun(x)
             /\ \/ Outcome(profile, D, h, x, n) /\ Predicted(x, n) = x.status[n]
                   /\ x.status[n] # "none"
                \/ /\ Lacks(profile, D, h, x, n) /\ profile.missing[n] = "generate"
                   /\ Predicted(x, n) = "resolved" /\ x.value[n] = NoValue
  <2>0. n \in Name BY DEF LeavesOf
  <2>1. Fine(profile, x, h) /\ Right(profile, D, h, x) /\ ~Walker(profile, x) BY <1>4
  <2>2. CASE x.pc = "generate" /\ n = Current(x)
    <3>1. n = Turn(profile, x) /\ n \in Undecided(profile, x)
      <4>1. Undecided(profile, x) # {} BY <2>1, <2>2 DEF Fine, Good, Looked
      <4>2. x.plan \subseteq Name BY <1>1, <1>4
      <4> QED BY <2>1, <2>2, <4>1, <4>2, Facts, TurnOf
    <3>2. x.status[n] = "none" BY <3>1 DEF Undecided
    <3> QED BY <2>0, <2>1, <2>2, <3>1, <3>2 DEF Right, Turns, Outcomes, Predicted, Begun
  <2>3. CASE ~(x.pc = "generate" /\ n = Current(x))
    BY <1>4, <2>0, <2>1, <2>3 DEF Right, Outcomes, Predicted, Begun
  <2> QED BY <2>2, <2>3
<1> HIDE DEF Says
<1>5. ASSUME NEW n \in q.plan \cap r.plan, n \in LeavesOf(profile), Says(q, n), Says(r, n)
      PROVE  /\ Predicted(q, n) = Predicted(r, n)
             /\ q.value[n] # NoValue /\ r.value[n] # NoValue => q.value[n] = r.value[n]
  <2>1. Begun(q) /\ Begun(r) BY <1>4, <1>5
  <2>2. Link1(profile, n) \in q.failed <=> Link1(profile, n) \in r.failed BY <1>3, <1>5, <2>1
  <2>3. /\ \/ Outcome(profile, D, h, q, n) /\ Predicted(q, n) = q.status[n]
           \/ /\ Lacks(profile, D, h, q, n) /\ profile.missing[n] = "generate"
              /\ Predicted(q, n) = "resolved" /\ q.value[n] = NoValue
        /\ \/ Outcome(profile, D, h, r, n) /\ Predicted(r, n) = r.status[n]
           \/ /\ Lacks(profile, D, h, r, n) /\ profile.missing[n] = "generate"
              /\ Predicted(r, n) = "resolved" /\ r.value[n] = NoValue
    BY <1>4, <1>5
  <2>4. CASE Outcome(profile, D, h, q, n) /\ Outcome(profile, D, h, r, n)
             /\ Predicted(q, n) = q.status[n] /\ Predicted(r, n) = r.status[n]
    BY <1>5, <2>2, <2>4, LeafAgrees
  <2>5. CASE Lacks(profile, D, h, q, n) /\ profile.missing[n] = "generate"
             /\ Predicted(q, n) = "resolved" /\ q.value[n] = NoValue
    BY <1>5, <2>2, <2>3, <2>5, GeneratedAgrees
  <2>6. CASE Lacks(profile, D, h, r, n) /\ profile.missing[n] = "generate"
             /\ Predicted(r, n) = "resolved" /\ r.value[n] = NoValue
    BY <1>5, <2>2, <2>3, <2>6, GeneratedAgrees
  <2> QED BY <2>3, <2>4, <2>5, <2>6
<1>6. \A n \in Name : Predicted(q, n) # "none" => Says(q, n)
  BY DEF Predicted, Says
<1>7. \A n \in Name : Predicted(r, n) # "none" => Says(r, n)
  BY DEF Predicted, Says
<1>8. SameValues(q, r)
  <2> SUFFICES ASSUME NEW n \in q.plan \cap r.plan, q.value[n] # NoValue, r.value[n] # NoValue
               PROVE  q.value[n] = r.value[n]
    BY DEF SameValues
  <2>1. n \in Name BY <1>1
  <2>2. n \in LeavesOf(profile) /\ q.status[n] # "none" /\ r.status[n] # "none"
    BY <2>1 DEF Right, Outcomes
  <2> QED BY <1>5, <2>2 DEF Says
<1>9. PICK rank \in [Name -> 0..Len(Names)] :
         \A n \in Name : \A d \in profile.parts[n] : rank[d] < rank[n]
  BY ResolutionAssumption
<1> DEFINE S == {k \in Nat : \A n \in q.plan \cap r.plan :
                    rank[n] < k /\ Predicted(q, n) # "none" /\ Predicted(r, n) # "none"
                       => Predicted(q, n) = Predicted(r, n)}
<1>10. ASSUME NEW k \in Nat, k \in S PROVE k + 1 \in S
  <2> SUFFICES ASSUME NEW n \in q.plan \cap r.plan, rank[n] < k + 1,
                      Predicted(q, n) # "none", Predicted(r, n) # "none"
               PROVE  Predicted(q, n) = Predicted(r, n)
    OBVIOUS
  <2>1. n \in Name BY <1>1
  <2>2. CASE n \in LeavesOf(profile) BY <1>5, <1>6, <1>7, <2>1, <2>2
  <2>3. CASE n \notin LeavesOf(profile)
    <3>1. ASSUME NEW x, x = q \/ x = r, NEW m \in Name, x.status[m] # "none" \/ m \notin LeavesOf(profile)
          PROVE  Predicted(x, m) = x.status[m]
      <4>1. Fine(profile, x, h) BY <3>1
      <4>2. CASE x.pc = "generate" /\ m = Current(x)
        <5>1. Open(x) # {} BY <4>1, <4>2, Facts DEF Fine, Good, Looked
        <5> QED BY <3>1, <4>1, <4>2, <5>1, Facts
      <4>3. CASE ~(x.pc = "generate" /\ m = Current(x)) BY <4>3 DEF Predicted
      <4> QED BY <4>2, <4>3
    <3>2. /\ Predicted(q, n) = q.status[n] /\ Predicted(r, n) = r.status[n]
      BY <2>1, <2>3, <3>1
    <3>3. /\ \A d \in profile.parts[n] : q.status[d] # "none" /\ r.status[d] # "none"
          /\ q.status[n] = OutcomeOf(profile, n, q.status)
          /\ r.status[n] = OutcomeOf(profile, n, r.status)
      BY <2>1, <2>3, <3>2 DEF Right, Composes
    <3>4. ASSUME NEW d \in profile.parts[n] PROVE q.status[d] = r.status[d]
      <4>1. profile.parts \in [Name -> SUBSET Name] BY Fields
      <4>2. d \in Name BY <2>1, <4>1
      <4>3. d \in q.plan \cap r.plan BY <3>3, <4>2 DEF Right, Composes
      <4>4. rank[d] < k BY <1>9, <2>1, <4>2
      <4>5. Predicted(q, d) = q.status[d] /\ Predicted(r, d) = r.status[d] BY <3>1, <3>3, <4>2
      <4> QED BY <1>10, <3>3, <4>3, <4>4, <4>5
    <3> QED BY <3>2, <3>3, <3>4 DEF OutcomeOf
  <2> QED BY <2>2, <2>3
<1>11. 0 \in S
  <2>1. \A n \in q.plan \cap r.plan : ~(rank[n] < 0) BY <1>1, <1>9
  <2> QED BY <2>1
<1>12. Len(Names) + 1 \in S
  <2>1. Len(Names) + 1 \in Nat BY ResolutionAssumption
  <2> HIDE DEF S
  <2> QED BY <1>10, <1>11, <2>1, Induction
<1>13. \A n \in q.plan \cap r.plan : rank[n] < Len(Names) + 1
  <2>1. Len(Names) \in Nat BY ResolutionAssumption
  <2> QED BY <1>1, <1>9, <2>1
<1> QED BY <1>8, <1>12, <1>13

(* A chain is its first link, then the others.                              *)
LEMMA ChainIs ==
    ASSUME profile \in Profiles, NEW D, NEW h, NEW n \in LeavesOf(profile), NEW v
    PROVE  /\ Gives(profile, D, h, n, 1, v) =>
                \/ ~Shut(profile, D, Link1(profile, n), n) /\ h[Link1(profile, n)][n] = v /\ v # NoValue
                \/ /\ Shut(profile, D, Link1(profile, n), n) \/ h[Link1(profile, n)][n] = NoValue
                   /\ Gives(profile, D, h, n, 2, v)
           /\ Bare(profile, D, h, n, DOMAIN profile.route[n]) =>
                /\ Shut(profile, D, Link1(profile, n), n) \/ h[Link1(profile, n)][n] = NoValue
                /\ Bare(profile, D, h, n, 2..Len(profile.route[n]))
           /\ Closed(profile, D, n, DOMAIN profile.route[n]) =>
                /\ Shut(profile, D, Link1(profile, n), n) /\ ~Gives(profile, D, h, n, 2, v)
<1>1. /\ 1 \in DOMAIN profile.route[n] /\ Len(profile.route[n]) \in Nat
      /\ DOMAIN profile.route[n] = 1..Len(profile.route[n])
  BY LeafOf
<1>2. ASSUME Gives(profile, D, h, n, 1, v)
      PROVE  \/ ~Shut(profile, D, Link1(profile, n), n) /\ h[Link1(profile, n)][n] = v /\ v # NoValue
             \/ /\ Shut(profile, D, Link1(profile, n), n) \/ h[Link1(profile, n)][n] = NoValue
                /\ Gives(profile, D, h, n, 2, v)
  <2>1. PICK i \in DOMAIN profile.route[n] :
          /\ i >= 1 /\ ~Shut(profile, D, profile.route[n][i], n) /\ v # NoValue
          /\ h[profile.route[n][i]][n] = v /\ Bare(profile, D, h, n, 1..(i - 1))
    BY <1>2 DEF Gives
  <2>2. CASE i = 1 BY <2>1, <2>2 DEF Link1
  <2>3. CASE i # 1
    <3>1. i \in Nat /\ i >= 2 /\ 1 \in 1..(i - 1) /\ 2..(i - 1) \subseteq 1..(i - 1)
      BY <1>1, <2>1, <2>3
    <3>2. Bare(profile, D, h, n, 2..(i - 1)) BY <2>1, <3>1 DEF Bare
    <3>3. Gives(profile, D, h, n, 2, v) BY <2>1, <3>1, <3>2 DEF Gives
    <3> QED BY <1>1, <2>1, <3>1, <3>3 DEF Bare, Link1
  <2> QED BY <2>2, <2>3
<1>3. Bare(profile, D, h, n, DOMAIN profile.route[n]) =>
        /\ Shut(profile, D, Link1(profile, n), n) \/ h[Link1(profile, n)][n] = NoValue
        /\ Bare(profile, D, h, n, 2..Len(profile.route[n]))
  BY <1>1 DEF Bare, Link1
<1>4. Closed(profile, D, n, DOMAIN profile.route[n]) =>
        /\ Shut(profile, D, Link1(profile, n), n) /\ ~Gives(profile, D, h, n, 2, v)
  BY <1>1 DEF Closed, Gives, Link1
<1> QED BY <1>2, <1>3, <1>4

(* A `get` agrees with a batch.                                             *)
LEMMA GetDoes ==
    ASSUME profile \in Profiles, NEW D, NEW h, NEW g, NEW r,
           Fine(profile, g, h), Right(profile, D, h, g), Fine(profile, r, h), Right(profile, D, h, r),
           g.pc = "done", Walker(profile, g), g.target \in r.plan
    PROVE  GetAgrees(g, r)
<1>1. PICK n : n = g.target OBVIOUS
<1>2. n \in LeavesOf(profile) /\ n \in Name /\ n \in r.plan BY <1>1 DEF Walker, LeavesOf
<1>3. Arrives(profile, D, h, n, g.result, g.value[n]) BY <1>1 DEF Right, Walked
<1>4. Primary(n) = Link1(profile, n) BY <1>2, LeafOf
<1>5. CASE r.status[n] = "none" BY <1>1, <1>5 DEF GetAgrees
<1>6. CASE r.status[n] # "none"
  <2>1. Outcome(profile, D, h, r, n) /\ n \notin r.todo BY <1>2, <1>6 DEF Right, Outcomes
  <2>2. Link1(profile, n) \in r.failed \/ ~Shut(profile, D, Link1(profile, n), n)
    BY <1>2, <1>6, <2>1 DEF Right, Groups, Begun
  <2>3. profile.missing[n] \in {"generate", "default", "error", "omit"} BY <1>2, Fields
  <2>4. PICK first : first <=> (Shut(profile, D, Link1(profile, n), n) \/ h[Link1(profile, n)][n] = NoValue)
    OBVIOUS
  <2>5. Gives(profile, D, h, n, 1, g.value[n]) =>
          \/ ~first /\ h[Link1(profile, n)][n] = g.value[n] /\ g.value[n] # NoValue
          \/ first /\ Gives(profile, D, h, n, 2, g.value[n])
    BY <1>2, <2>4, ChainIs
  <2>6. Bare(profile, D, h, n, DOMAIN profile.route[n]) =>
          first /\ Bare(profile, D, h, n, 2..Len(profile.route[n]))
    BY <1>2, <2>4, ChainIs
  <2>7. Closed(profile, D, n, DOMAIN profile.route[n]) =>
          /\ Shut(profile, D, Link1(profile, n), n) /\ ~Gives(profile, D, h, n, 2, r.value[n])
    BY <1>2, ChainIs
  <2>8. /\ Gives(profile, D, h, n, 2, g.value[n]) /\ Gives(profile, D, h, n, 2, r.value[n])
             => g.value[n] = r.value[n]
        /\ Bare(profile, D, h, n, 2..Len(profile.route[n])) =>
             ~Gives(profile, D, h, n, 2, g.value[n]) /\ ~Gives(profile, D, h, n, 2, r.value[n])
    BY <1>2, GivesOne
  <2>9. ASSUME g.result = "ok", r.status[n] = "resolved", r.value[n] # NoValue,
               Link1(profile, n) \notin r.failed
        PROVE  g.value[n] = r.value[n]
    <3>1. CASE ByFirst(profile, h, r, n)
      BY <1>3, <2>2, <2>4, <2>5, <2>6, <2>9, <3>1 DEF Arrives, ByFirst
    <3>2. CASE ByOther(profile, D, h, r, n)
      BY <1>3, <2>2, <2>4, <2>5, <2>6, <2>8, <2>9, <3>2 DEF Arrives, ByOther
    <3>3. CASE Lacks(profile, D, h, r, n) /\ ByPolicy(profile, r, n)
      BY <1>3, <2>2, <2>3, <2>4, <2>5, <2>6, <2>8, <2>9, <3>3 DEF Arrives, Lacks, ByPolicy
    <3> QED BY <2>1, <3>1, <3>2, <3>3 DEF Outcome
  <2>10. ASSUME g.result = "missing" PROVE r.status[n] # "resolved" \/ r.source[n] = "generated"
    BY <1>3, <2>1, <2>2, <2>3, <2>4, <2>6, <2>8, <2>10
    DEF Arrives, Outcome, ByFirst, ByOther, Lacks, ByPolicy
  <2>11. ASSUME g.result = "error" PROVE FALSE
    BY <1>3, <2>1, <2>2, <2>7, <2>11 DEF Arrives, Outcome, ByFirst, ByOther, Lacks
  <2> QED BY <1>1, <1>4, <2>9, <2>10, <2>11 DEF GetAgrees
<1> QED BY <1>5, <1>6

(* Passes over stores that did not change since they began agree: what the  *)
(* value-free report predicts of a secret is what `run`, `check` or another *)
(* scope makes of it, and a `get` of a single secret agrees with them       *)
(* (`execute_plan`, `get_materializing`).                                   *)
THEOREM SteadyPassesAgree == Spec => []PassesAgree
<1>1. IInv => PassesAgree
  <2> SUFFICES ASSUME IInv, NEW p \in Procs, NEW z \in Procs, proc[p].steady, proc[z].steady
               PROVE  /\ ~Single(proc[p]) /\ ~Single(proc[z]) => BatchesAgree(proc[p], proc[z])
                      /\ Single(proc[p]) /\ proc[p].pc = "done" /\ ~Single(proc[z])
                         /\ proc[p].target \in proc[z].plan => GetAgrees(proc[p], proc[z])
    BY DEF PassesAgree
  <2>1. PICK q, r : q = proc[p] /\ r = proc[z] OBVIOUS
  <2>2. /\ profile \in Profiles /\ q.steady /\ r.steady
        /\ Fine(profile, q, held) /\ Sure(profile, down, held, q)
        /\ Fine(profile, r, held) /\ Sure(profile, down, held, r)
    BY <2>1 DEF IInv
  <2>3. ASSUME NEW x, Fine(profile, x, held) PROVE Single(x) <=> Walker(profile, x)
    <3>1. x.op = "get" => x.target \in Name BY <2>3 DEF Fine, Good, Planned
    <3>2. NoValue \notin Name BY ResolutionAssumption
    <3> QED BY <3>1, <3>2 DEF Single, Walker, Composed, LeavesOf
  <2>4. ASSUME ~Single(q), ~Single(r) PROVE BatchesAgree(q, r)
    <3>1. CASE q.pc = "idle" \/ r.pc = "idle"
      <4>1. q.plan \cap r.plan = {} BY <2>2, <3>1 DEF Fine, Good, Planned
      <4> QED BY <4>1 DEF BatchesAgree, SameValues
    <3>2. CASE q.pc # "idle" /\ r.pc # "idle"
      <4>1. Right(profile, down, held, q) /\ Right(profile, down, held, r) BY <2>2, <3>2 DEF Sure
      <4>2. ~Walker(profile, q) /\ ~Walker(profile, r) BY <2>2, <2>3, <2>4
      <4> QED BY <2>2, <3>2, <4>1, <4>2, BatchesDo
    <3> QED BY <3>1, <3>2
  <2>5. ASSUME Single(q), q.pc = "done", q.target \in r.plan PROVE GetAgrees(q, r)
    <3>1. r.pc # "idle" BY <2>2, <2>5 DEF Fine, Good, Planned
    <3>2. Right(profile, down, held, q) /\ Right(profile, down, held, r)
      BY <2>2, <2>5, <3>1 DEF Sure
    <3> QED BY <2>2, <2>3, <2>5, <3>2, GetDoes
  <2> QED BY <2>1, <2>4, <2>5
<1> QED BY <1>1, SpecInv, PTL
=============================================================================
