----------------------------- MODULE Resolution -----------------------------
(***************************************************************************)
(* Resolving the secrets of one profile (`execute_plan` of secrets.rs) as  *)
(* `check`, `run`, `export`, `report`, the SDK's `resolve` and `get` do    *)
(* it: provider groups fetched concurrently, then each secret's fallback   *)
(* chain, generation, default, composition, scope and constraints; `check` *)
(* also prompts and resolves again.                                        *)
(*                                                                         *)
(* One step is one provider call with the code up to the next one.  The    *)
(* caches in front of the routes are CachedRoute's subject.                *)
(*                                                                         *)
(* A profile is a record: the `route` of each provider-backed secret (its  *)
(* stores in order), the `parts` of each composed one, the policy for a    *)
(* `missing` one, the presence groups `atLeastOne` and `exactlyOne`, the   *)
(* `scopes`, the composed secrets whose value is `tooLarge`, and `unfit`,  *)
(* the <<store, secret>> pairs whose `ref` that store cannot express.      *)
(***************************************************************************)
EXTENDS Integers, Sequences, FiniteSets, Functions, FiniteSetsExt

CONSTANTS
    Procs,     \* processes that resolve
    Stores,    \* provider stores
    Names,     \* declared names, in sorted order
    Profiles,  \* the profiles to choose from
    Ops,       \* what each process does, a subset of AllOps
    ReadOnly,  \* stores that reject a write
    Unreliable \* stores that come and go

(* `run` stands for `export` and `resolve` too.                             *)
AllOps  == {"report", "check", "run", "get"}
Name    == Range(Names)
NoValue == "none"
Default == "default"
Typed   == "typed"
(* A stored value is named for who stored it: a store that held it from the *)
(* start, the process that generated it, or the user who typed it.          *)
Value   == Stores \cup Procs \cup {Typed, Default}
Maybe   == Value \cup {NoValue}

Routes == [Name -> Seq(Stores)]

ASSUME ResolutionAssumption ==
    /\ Names \in Seq(Name)
    /\ NoValue \notin Value \cup Name
    /\ Default \notin Stores \cup Procs
    /\ Ops \in [Procs -> SUBSET AllOps]
    /\ \A f \in Profiles :
         /\ f.route \in Routes
         /\ f.parts \in [Name -> SUBSET Name]
         /\ \A n \in Name : f.parts[n] = {} => f.route[n] # <<>>
         /\ \E rank \in [Name -> 0..Len(Names)] :
              \A n \in Name : \A d \in f.parts[n] : rank[d] < rank[n]
         /\ f.missing \in [Name -> {"generate", "default", "error", "omit"}]
         /\ f.scopes \subseteq SUBSET Name
         /\ f.unfit \subseteq Stores \X Name
    /\ Unreliable \subseteq Stores

VARIABLES
    profile,  \* the compiled profile
    down,     \* the stores that cannot be built, read or written
    held,     \* what each store holds
    proc      \* each process: its command and where it is

vars == <<profile, down, held, proc>>
-----------------------------------------------------------------------------
Composed(n) == profile.parts[n] # {}
Leaves      == {n \in Name : ~Composed(n)}
Chain(n)    == profile.route[n]
Primary(n)  == Chain(n)[1]
Unreadable(s, n) == s \in down \/ <<s, n>> \in profile.unfit

(* `accessed_names`, `composed_dependency_names`: the names and everything  *)
(* their compositions refer to.                                             *)
Closure(V) ==
    LET reach[i \in Nat] ==
          IF i = 0 THEN V ELSE reach[i - 1] \cup UNION {profile.parts[n] : n \in reach[i - 1]}
    IN reach[Len(Names)]

Blank ==
    [pc |-> "idle", op |-> "report", target |-> NoValue, plan |-> {}, visible |-> {},
     scoped |-> FALSE, round |-> 1, todo |-> {}, failed |-> {},
     status |-> [n \in Name |-> "none"], source |-> [n \in Name |-> "none"],
     value |-> [n \in Name |-> NoValue], link |-> 1, healthy |-> FALSE, prompts |-> {},
     result |-> "none", asked |-> {}, absent |-> {}, alone |-> TRUE, steady |-> TRUE]

Init ==
    /\ profile \in Profiles
    /\ down \in SUBSET Unreliable
    /\ \E full \in SUBSET {e \in Stores \X Name : e[1] \in Range(Chain(e[2]))} :
         held = [s \in Stores |-> [n \in Name |-> IF <<s, n>> \in full THEN s ELSE NoValue]]
    /\ proc = [p \in Procs |-> Blank]

Is(p, pc) == proc[p].pc = pc
Values(p) == proc[p].op # "report"      \* Materialize::Values
Goes(p, r) == proc' = [proc EXCEPT ![p] = r]
Ends(r, how) == [r EXCEPT !.pc = "done", !.result = how, !.alone = TRUE]
Reading(p, r) == Goes(p, r) /\ UNCHANGED <<profile, down, held>>
-----------------------------------------------------------------------------
(* A pass over the plan starts with the group fetches.                      *)
Pass(r) == [r EXCEPT !.pc = "fetch", !.todo = r.plan \cap Leaves]

(* `validate_audited`: under a scope the plan is the closure of what is     *)
(* visible; otherwise it is the whole profile.  A `ref` that its only store *)
(* cannot express, and an empty plan, end the pass at once.                 *)
Rejected(plan) ==
    \E n \in plan \cap Leaves : Len(Chain(n)) = 1 /\ <<Primary(n), n>> \in profile.unfit

Started(r) ==
    IF r.plan = {} THEN Ends(r, "ok")
    ELSE IF Rejected(r.plan) THEN Ends(r, "error") ELSE Pass(r)

Resolve(p, op, scope) ==
    /\ Is(p, "idle")
    /\ op \in Ops[p] \ {"get"}
    /\ scope \in profile.scopes \cup {Name}
    /\ Reading(p, Started([Blank EXCEPT !.op = op, !.visible = scope, !.scoped = scope # Name,
                                        !.plan = Closure(scope)]))

(* `get` walks the whole chain of a provider-backed secret by itself, and   *)
(* resolves the closure of a composed one.                                  *)
Get(p, n) ==
    /\ Is(p, "idle")
    /\ "get" \in Ops[p]
    /\ LET r == [Blank EXCEPT !.op = "get", !.target = n, !.visible = {n}, !.plan = Closure({n})]
       IN Reading(p, IF Composed(n) THEN Started([r EXCEPT !.visible = Name])
                     ELSE [r EXCEPT !.pc = "walk"])

Asks(r, s, n) ==
    [r EXCEPT !.asked = @ \cup {n},
              !.absent = IF held[s][n] = NoValue THEN @ \cup {<<s, n>>} ELSE @]

Decided(r, n, status, source, v) ==
    [r EXCEPT !.pc = "decide", !.link = 2, !.healthy = FALSE,
              !.status[n] = status, !.source[n] = source, !.value[n] = v]

(* The groups are fetched concurrently, and the secrets of one group too    *)
(* (`get_many`); the pass goes on when all are in.                          *)
Joined(r) ==
    IF r.todo # {} THEN r ELSE [r EXCEPT !.pc = "decide", !.link = 2, !.healthy = FALSE]

FetchOne(p, n) ==
    /\ Is(p, "fetch")
    /\ n \in proc[p].todo
    /\ ~Unreadable(Primary(n), n)
    /\ LET r == [Asks(proc[p], Primary(n), n) EXCEPT !.todo = @ \ {n}]
           v == held[Primary(n)][n]
       IN Reading(p, Joined(IF v = NoValue THEN r
                            ELSE [Decided(r, n, "resolved", "provider", v) EXCEPT !.pc = "fetch"]))

(* One failure fails the whole group: `get_many` returns no value at all.   *)
FetchFails(p, n) ==
    /\ Is(p, "fetch")
    /\ n \in proc[p].todo
    /\ Unreadable(Primary(n), n)
    /\ LET Group == {m \in proc[p].plan \cap Leaves : Primary(m) = Primary(n)}
           r == [proc[p] EXCEPT !.todo = @ \ Group, !.failed = @ \cup {Primary(n)}]
       IN Reading(p, Joined([r EXCEPT
                        !.status = [m \in Name |-> IF m \in Group THEN "none" ELSE @[m]],
                        !.source = [m \in Name |-> IF m \in Group THEN "none" ELSE @[m]],
                        !.value = [m \in Name |-> IF m \in Group THEN NoValue ELSE @[m]]]))
-----------------------------------------------------------------------------
(* The planned secrets are decided in sorted order.  The fallback chain of  *)
(* one that was not fetched is walked first, skipping the links that fail.  *)
Before(n, m) == \E i, j \in DOMAIN Names : i < j /\ Names[i] = n /\ Names[j] = m
First(N)     == CHOOSE n \in N : \A m \in N \ {n} : Before(n, m)
Open(r)      == {n \in r.plan \cap Leaves : r.status[n] = "none"}
Current(r)   == First(Open(r))
Deciding(p)  == Is(p, "decide") /\ Open(proc[p]) # {}

LinkRead(r, s, n) ==
    IF Unreadable(s, n) THEN [r EXCEPT !.link = @ + 1]
    ELSE IF held[s][n] = NoValue THEN [Asks(r, s, n) EXCEPT !.link = @ + 1, !.healthy = TRUE]
    ELSE Decided(Asks(r, s, n), n, "resolved", "provider", held[s][n])

WalkFallback(p) ==
    /\ Deciding(p)
    /\ LET n == Current(proc[p])
       IN /\ proc[p].link \in DOMAIN Chain(n)
          /\ Reading(p, LinkRead(proc[p], Chain(n)[proc[p].link], n))

(* The chain is exhausted: a failed primary, or a chain that only failed,   *)
(* is an error of the whole pass; otherwise the secret is missing.          *)
ChainFailedIfAllDid(r, n) ==
    Primary(n) \in r.failed /\ ~r.healthy

ChainFailed(r, n) ==
    \/ Primary(n) \in r.failed
    \/ Len(Chain(n)) > 1 /\ ~r.healthy

MissingReported(r, n) ==
    CASE profile.missing[n] = "generate" /\ r.op # "report" -> [r EXCEPT !.pc = "generate"]
      [] profile.missing[n] = "default" -> Decided(r, n, "resolved", "default", Default)
      [] profile.missing[n] \in {"error", "generate"} -> Decided(r, n, "missing", "none", NoValue)
      [] profile.missing[n] = "omit"    -> Decided(r, n, "optional", "none", NoValue)

(* What becomes of a missing secret.  A full pass generates and stores; a   *)
(* value-free one only reports that it would.                               *)
Missing(r, n) ==
    CASE profile.missing[n] = "generate" ->
           IF r.op = "report" THEN Decided(r, n, "resolved", "generated", NoValue)
           ELSE [r EXCEPT !.pc = "generate"]
      [] profile.missing[n] = "default" -> Decided(r, n, "resolved", "default", Default)
      [] profile.missing[n] = "error"   -> Decided(r, n, "missing", "none", NoValue)
      [] profile.missing[n] = "omit"    -> Decided(r, n, "optional", "none", NoValue)

ChainEnds(p) ==
    /\ Deciding(p)
    /\ LET n == Current(proc[p])
       IN /\ proc[p].link \notin DOMAIN Chain(n)
          /\ Reading(p, IF ChainFailed(proc[p], n) THEN Ends(proc[p], "error")
                        ELSE Missing(proc[p], n))

(* A write changes the store, or is refused and ends the command.  A        *)
(* running process is `alone` until another writes; a process is `steady`   *)
(* until anything its pass has read changes, unless its pass did that.      *)
Running(q)   == proc[q].pc \notin {"idle", "done"}
Disturbed(q) == [proc[q] EXCEPT !.alone = ~Running(q), !.steady = Is(q, "idle")]

Unwritable(s, n) == s \in ReadOnly \/ Unreadable(s, n)

Writes(p, s, n, v, r) ==
    /\ ~Unwritable(s, n)
    /\ held' = [held EXCEPT ![s][n] = v]
    /\ proc' = [q \in Procs |-> IF q = p THEN r ELSE Disturbed(q)]
    /\ UNCHANGED <<profile, down>>

Refused(p, s, n) == Unwritable(s, n) /\ Reading(p, Ends(proc[p], "refused"))

(* `try_generate_secret`: the value goes to the route's first store.        *)
Generate(p) ==
    /\ Is(p, "generate")
    /\ LET n == Current(proc[p])
       IN \/ Writes(p, Primary(n), n, p, Decided(proc[p], n, "resolved", "generated", p))
          \/ Refused(p, Primary(n), n)
-----------------------------------------------------------------------------
(* Composed secrets follow the leaves, dependencies first: resolved when    *)
(* all their parts are, otherwise missing.  A value that renders too large  *)
(* fails a full pass; it is not kept here, being a function of its parts.   *)
Rendered(r) ==
    LET Of(n, st) == IF \A d \in profile.parts[n] : st[d] = "resolved" THEN "resolved"
                     ELSE IF profile.missing[n] = "error" THEN "missing" ELSE "optional"
        Ready(n, st) == n \in r.plan /\ Composed(n) /\ \A d \in profile.parts[n] : st[d] # "none"
        pass[i \in Nat] ==
          IF i = 0 THEN r.status
          ELSE LET st == pass[i - 1]
               IN [n \in Name |-> IF Ready(n, st) THEN Of(n, st) ELSE st[n]]
    IN [r EXCEPT !.status = pass[Len(Names)],
                 !.source = [n \in Name |-> IF Composed(n) /\ pass[Len(Names)][n] = "resolved"
                                            THEN "composed" ELSE @[n]]]

TooLarge(r) ==
    r.op # "report" /\ \E n \in profile.tooLarge : r.source[n] = "composed"

(* Only the visible names leave the pass, and the presence groups are       *)
(* judged over them; a partial plan without a scope is judged by none.      *)
OutputOf(r) == {n \in r.plan \cap r.visible : r.status[n] = "resolved"}

Present(r, g) == g \cap OutputOf(r)

Violated(r) ==
    /\ r.scoped \/ r.plan = Name
    /\ \/ \E g \in profile.atLeastOne : g \cap r.visible # {} /\ Present(r, g) = {}
       \/ \E g \in profile.exactlyOne : g \cap r.visible # {} /\ Cardinality(Present(r, g)) # 1

MissingOf(r) == {n \in r.plan \cap r.visible : r.status[n] = "missing"}

(* `promptable_missing_names`: a missing composition stands for its parts   *)
(* that the visible report does not show as resolved.                       *)
PromptableUnscoped(r) ==
    LET Lacking(n) == {d \in profile.parts[n] : d \notin OutputOf(r)}
        reach[i \in Nat] ==
          IF i = 0 THEN MissingOf(r) ELSE reach[i - 1] \cup UNION {Lacking(n) : n \in reach[i - 1]}
    IN reach[Len(Names)] \cap Leaves

(* `scoped_promptable_missing`: under a scope, only what it shows.          *)
Promptable(r) == PromptableUnscoped(r) \cap (IF r.scoped THEN r.visible ELSE Name)

(* `run_command`: the child inherits an environment that may hold every     *)
(* declared name, gets the output over it and loses what the scope, if one  *)
(* is active, does not admit (`scope_excluded_names`).                      *)
ChildEnvOverlaid(r) == Name \cup OutputOf(r)

ChildEnv(r) == (Name \cup OutputOf(r)) \ (IF r.scoped THEN Name \ r.visible ELSE {})

(* `check` first validates; when that fails `ensure_secrets` validates      *)
(* again, prompts for what is missing and validates a third time.           *)
Again(r) ==
    Pass([Blank EXCEPT !.op = r.op, !.plan = r.plan, !.visible = r.visible,
                       !.scoped = r.scoped, !.round = r.round + 1])

AfterFailure(r) ==
    IF r.op # "check" \/ r.round = 3 THEN Ends(r, "missing")
    ELSE IF r.round = 1 THEN Again(r)
    ELSE IF MissingOf(r) # {} /\ Promptable(r) # {}
    THEN [r EXCEPT !.pc = "prompt", !.prompts = Promptable(r)]
    ELSE Ends(r, "missing")

Finish(p) ==
    /\ Is(p, "decide")
    /\ Open(proc[p]) = {}
    /\ LET r == Rendered(proc[p])
           lacking == r.op = "get" /\ r.status[r.target] # "resolved"
       IN Reading(p, IF TooLarge(r) THEN Ends(r, "error")
                     ELSE IF MissingOf(r) # {} \/ Violated(r) THEN AfterFailure(r)
                     ELSE Ends(r, IF lacking THEN "missing" ELSE "ok"))

(* Each prompted value is written through its route, in sorted order, and   *)
(* the user may give up.                                                    *)
Prompt(p, n) ==
    /\ Is(p, "prompt")
    /\ proc[p].prompts # {} /\ n = First(proc[p].prompts)
    /\ LET rest == proc[p].prompts \ {n}
       IN \/ Writes(p, Primary(n), n, Typed,
                    IF rest # {} THEN [proc[p] EXCEPT !.prompts = rest, !.steady = FALSE]
                    ELSE Again(proc[p]))
          \/ Refused(p, Primary(n), n)

GiveUp(p) == Is(p, "prompt") /\ Reading(p, Ends(proc[p], "refused"))
-----------------------------------------------------------------------------
(* `get` of a provider-backed secret: the chain from its first link (a      *)
(* failing link is skipped), then the default; nothing is generated.        *)
WalkLink(p) ==
    /\ Is(p, "walk")
    /\ LET r == proc[p]
           n == r.target
       IN /\ r.link \in DOMAIN Chain(n)
          /\ LET s == Chain(n)[r.link]
             IN Reading(p,
                  IF Unreadable(s, n) THEN [r EXCEPT !.link = @ + 1]
                  ELSE IF held[s][n] = NoValue
                  THEN [Asks(r, s, n) EXCEPT !.link = @ + 1, !.healthy = TRUE]
                  ELSE [Ends(Asks(r, s, n), "ok") EXCEPT !.value[n] = held[s][n]])

WalkEnds(p) ==
    /\ Is(p, "walk")
    /\ LET r == proc[p]
           n == r.target
       IN /\ r.link \notin DOMAIN Chain(n)
          /\ Reading(p, IF ~r.healthy THEN Ends(r, "error")
                        ELSE IF profile.missing[n] = "default"
                        THEN [Ends(r, "ok") EXCEPT !.value[n] = Default]
                        ELSE Ends(r, "missing"))

Return(p) == Is(p, "done") /\ Reading(p, Blank)

(* A store goes down, or comes back, between any two calls.                 *)
Flap(s) ==
    /\ s \in Unreliable
    /\ down' = IF s \in down THEN down \ {s} ELSE down \cup {s}
    /\ proc' = [p \in Procs |-> [proc[p] EXCEPT !.steady = Is(p, "idle")]]
    /\ UNCHANGED <<profile, held>>

Next ==
    \/ \E p \in Procs :
         \/ \E op \in Ops[p], V \in profile.scopes \cup {Name} : Resolve(p, op, V)
         \/ \E n \in Name : Get(p, n) \/ FetchOne(p, n) \/ FetchFails(p, n) \/ Prompt(p, n)
         \/ WalkFallback(p) \/ ChainEnds(p)
         \/ Generate(p) \/ Finish(p) \/ GiveUp(p)
         \/ WalkLink(p) \/ WalkEnds(p) \/ Return(p)
    \/ \E s \in Stores : Flap(s)

Spec == Init /\ [][Next]_vars
-----------------------------------------------------------------------------
Status == {"none", "resolved", "missing", "optional"}
Source == {"none", "provider", "generated", "default", "composed"}

ProcType ==
    [pc : {"idle", "walk", "fetch", "decide", "generate", "prompt", "done"}, op : AllOps,
     target : Name \cup {NoValue}, plan : SUBSET Name, visible : SUBSET Name, scoped : BOOLEAN,
     round : 1..3, todo : SUBSET Name, failed : SUBSET Stores, status : [Name -> Status],
     source : [Name -> Source], value : [Name -> Maybe], link : Nat, healthy : BOOLEAN,
     prompts : SUBSET Name, result : {"none", "ok", "missing", "error", "refused"},
     asked : SUBSET Name, absent : SUBSET (Stores \X Name), alone : BOOLEAN, steady : BOOLEAN]

(* Every variable stays in its type.                                        *)
TypeOK ==
    /\ profile \in Profiles
    /\ down \in SUBSET Unreliable
    /\ held \in [Stores -> [Name -> Maybe]]
    /\ proc \in [Procs -> ProcType]
    /\ \A p \in Procs : proc[p].todo \cup proc[p].prompts \subseteq Leaves

(* What a pass takes for absent - a default, a generated value, a missing   *)
(* or an omitted secret - the route's first store has answered "not found"  *)
(* in that pass, and so has one of its fallbacks if there are any: an       *)
(* outage is never mistaken for an unprovisioned secret.  A `get` is        *)
(* content with one such answer.                                            *)
TakenForAbsent(r, n) ==
    \/ r.status[n] \in {"missing", "optional"}
    \/ r.source[n] \in {"default", "generated"}

SaidAbsent(r, n, I) == \E i \in I \cap DOMAIN Chain(n) : <<Chain(n)[i], n>> \in r.absent

FailureIsNotAbsence ==
    \A p \in Procs :
        LET r == proc[p]
        IN /\ \A n \in Leaves :
                TakenForAbsent(r, n) \/ (r.pc = "generate" /\ n = Current(r)) =>
                    /\ SaidAbsent(r, n, {1})
                    /\ Len(Chain(n)) > 1 => SaidAbsent(r, n, 2..Len(Chain(n)))
           /\ r.op = "get" /\ ~Composed(r.target) /\ r.pc = "done"
              /\ (r.result = "missing" \/ r.value[r.target] = Default) =>
                    SaidAbsent(r, r.target, DOMAIN Chain(r.target))

(* Two passes over an undisturbed world agree on every secret both have     *)
(* decided, whatever asked for it: the value-free report predicts what      *)
(* `run` does, generation included, and a scope changes no secret it shows, *)
(* unless it hides a secret whose `ref` fails the group of one it shows.    *)
(* A `get` of a single secret agrees with a batch whose group did not fail. *)
Predicted(r, n) == IF r.pc = "generate" /\ n = Current(r) THEN "resolved" ELSE r.status[n]

Spoilt(r, s) == \E m \in r.plan \cap Leaves : Primary(m) = s /\ <<s, m>> \in profile.unfit
Alike(q, r)  == \A n \in q.plan \cap r.plan \cap Leaves : Spoilt(q, Primary(n)) <=> Spoilt(r, Primary(n))
Fetched(r)   == r.pc # "fetch"

SameValues(q, r) ==
    \A n \in q.plan \cap r.plan :
        q.value[n] # NoValue /\ r.value[n] # NoValue => q.value[n] = r.value[n]

BatchesAgree(q, r) ==
    Fetched(q) /\ Fetched(r) /\ Alike(q, r) =>
        /\ SameValues(q, r)
        /\ \A n \in q.plan \cap r.plan :
             Predicted(q, n) # "none" /\ Predicted(r, n) # "none" => Predicted(q, n) = Predicted(r, n)

GetAgrees(g, r) ==
    LET n == g.target
    IN /\ g.result = "ok" /\ r.status[n] = "resolved" /\ r.value[n] # NoValue
          /\ Primary(n) \notin r.failed => g.value[n] = r.value[n]
       /\ g.result = "missing" => r.status[n] # "resolved" \/ r.source[n] = "generated"
       /\ g.result = "error" => r.status[n] = "none"

Single(r) == r.op = "get" /\ r.target # NoValue /\ ~Composed(r.target)

PassesAgree ==
    \A p, q \in Procs :
        proc[p].steady /\ proc[q].steady =>
            /\ ~Single(proc[p]) /\ ~Single(proc[q]) => BatchesAgree(proc[p], proc[q])
            /\ Single(proc[p]) /\ proc[p].pc = "done" /\ ~Single(proc[q])
               /\ proc[p].target \in proc[q].plan => GetAgrees(proc[p], proc[q])

(* A scope bounds what leaves the process: only what it shows is returned,  *)
(* reported missing, prompted for or left in the environment of the child,  *)
(* and only that and its parts are asked of a store.                        *)
ScopeHolds ==
    \A p \in Procs :
        LET r == proc[p]
        IN /\ r.asked \subseteq Closure(IF r.op = "get" THEN {r.target} ELSE r.visible)
           /\ r.scoped => r.prompts \subseteq r.visible
           /\ r.scoped /\ r.op = "run" /\ r.result = "ok" => ChildEnv(r) \subseteq r.visible

(* A generated or prompted value never replaces a stored one unless another *)
(* process stored it since the pass began: a store that was unreachable     *)
(* when the secret was looked for is not taken for an empty one.            *)
WritesFillGaps ==
    [][\A p \in Procs, s \in Stores, n \in Name :
          proc[p].pc \in {"generate", "prompt"} /\ proc[p].alone /\ proc'[p].alone
          /\ held'[s][n] # held[s][n]
             => held[s][n] = NoValue]_vars

(* What concepts/providers/fallback.md says of a chain: a provider that     *)
(* cannot be built or read is warned about and the walk continues, and only *)
(* if every reached provider fails is there an error.  So a pass that ends  *)
(* in an error because of a chain was told "not found" by none of its links.*)
OnlyAllFailingIsError ==
    \A p \in Procs :
        LET r == proc[p]
        IN Open(r) # {} /\ r.result = "error" /\ r.link > Len(Chain(Current(r)))
              => ~SaidAbsent(r, Current(r), DOMAIN Chain(Current(r)))

(* What concepts/scopes.md says: a scoped and an unscoped read of the same  *)
(* secret address the same provider value.                                  *)
ScopesReadTheSame ==
    \A p, q \in Procs :
        /\ proc[p].steady /\ proc[q].steady
        /\ ~Single(proc[p]) /\ ~Single(proc[q]) /\ Fetched(proc[p]) /\ Fetched(proc[q])
        => SameValues(proc[p], proc[q])
=============================================================================
