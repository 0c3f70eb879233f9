----------------------------- MODULE ItemVault -----------------------------
(***************************************************************************)
(* The providers that keep secrets in the items of a password manager and  *)
(* reach it by one CLI invocation after another: Bitwarden (`bw`) and      *)
(* 1Password (`op`).  An address names an item, and a write first looks    *)
(* for it: what it finds decides whether it edits or creates, and the      *)
(* vault may change between the two.  A user edits the same vault.         *)
(*                                                                         *)
(* Two ghosts: `call[p].fresh` says that p knows the items of its name:    *)
(* none has changed since p began, and p took no listing that it could not *)
(* read for an empty one.  `settled` is the value an address must read     *)
(* back as, when the last change of its name is a write that knew them.    *)
(***************************************************************************)
EXTENDS Integers, FiniteSets, FiniteSetsExt, Sequences

CONSTANTS
    Procs,       \* processes that use the vault
    Kinds,       \* the providers to choose from
    Addrs,       \* addresses: kind, item, type, field, org, coll, native
    Vaults,      \* the vaults to start from
    Ids,         \* item ids, in the order the CLI lists them
    Values,
    Written,     \* those the processes write; the user writes the others
    Collections, \* id, name and organization of each collection
    Contains,    \* <<g, f>>: field name g contains f
    Resembles,   \* <<n, term>>: a search for term also finds items named n
    Hidden,      \* names an older CLI's search does not find
    Unset, Placeholder,
    NoItem, Gone, \* what an id not given yet, and one of a removed item, stand for
    MaxOps,      \* operations started
    MaxMeddling  \* changes the user makes

(* Each built-in field is a member of the items of a type; every other      *)
(* field is a custom one.                                                   *)
Members(type) ==
    CASE type = "login"    -> {"password", "username"}
      [] type = "note"     -> {"notes"}
      [] type = "card"     -> {"number", "code"}
      [] type = "identity" -> {"email", "username"}
      [] type = "ssh"      -> {"private_key", "public_key"}
      [] type = "op"       -> {"value", "password"}

(* The field written when the address names none ...                        *)
DefaultField(type) ==
    CASE type = "login"    -> "password"
      [] type = "note"     -> "value"
      [] type = "card"     -> "number"
      [] type = "identity" -> "email"
      [] type = "ssh"      -> "private_key"
      [] type = "op"       -> "value"

(* ... and the fields read then: the first of them that is there.           *)
ReadOrder(type) ==
    CASE type = "login"    -> <<"password", "username", "value">>
      [] type = "note"     -> <<"value", "notes">>
      [] type = "card"     -> <<"number", "value">>
      [] type = "identity" -> <<"email", "username", "value">>
      [] type = "ssh"      -> <<"private_key", "value">>
      [] type = "op"       -> <<"value", "password">>

Types  == {"login", "note", "card", "identity", "ssh", "op"}
Fields == (UNION {Members(t) : t \in Types}) \cup {"value", "key", "api_key"}
Held   == Values \cup {Unset, Placeholder}
Blanks == [f \in Fields |-> Unset]

Item == [name : {a.item : a \in Addrs}, type : Types,
         org : {Unset} \cup {c.org : c \in Collections},
         coll : {Unset} \cup {c.id : c \in Collections}, fields : [Fields -> Held]]

(* A collection belongs to one organization, and so do the items in it; an  *)
(* id is not also a name.  A 1Password address gives no item type.          *)
Filed(x) == x.coll # Unset => \E c \in Collections : c.id = x.coll /\ c.org = x.org

ASSUME ItemVaultAssumption ==
    /\ Kinds \subseteq {"bw", "op"}
    /\ IsFiniteSet(Ids) /\ Ids = 1..Cardinality(Ids)
    /\ NoItem \notin Item /\ Gone \notin Item /\ NoItem # Gone
    /\ \A v \in Vaults : /\ v \in [Ids -> Item \cup {NoItem}]
                         /\ \A i \in Ids : v[i] # NoItem => Filed(v[i])
    /\ Written \subseteq Values /\ MaxOps \in Nat /\ MaxMeddling \in Nat
    /\ {Unset, Placeholder} \cap Values = {} /\ Unset # Placeholder
    /\ IsFiniteSet(Collections)
    /\ \A c, d \in Collections : c.id \notin {Unset, d.name} /\ (c.id = d.id => c = d)
    /\ Addrs # {} /\ Unset \notin Addrs
    /\ \A a \in Addrs : /\ a.type \in (Types \ {"op"}) \cup {Unset}
                        /\ a.field \in Fields \cup {Unset}
                        /\ a.kind = "op" => a.type = Unset

VARIABLES
    kind,     \* the provider
    vault,    \* the items by id
    call,     \* each process's operation
    begun,    \* operations started
    meddled,  \* changes the user has made
    settled   \* see above

vars == <<kind, vault, call, begun, meddled, settled>>

Idle ==
    [pc |-> "idle", op |-> "get", addr |-> CHOOSE a \in Addrs : TRUE, value |-> Unset,
     id |-> 0, tmpl |-> NoItem, ans |-> Unset, expect |-> Unset, fresh |-> TRUE]

Init ==
    /\ kind \in Kinds
    /\ vault \in {v \in Vaults : \A i \in Ids : v[i] # NoItem => (v[i].type = "op" <=> kind = "op")}
    /\ call = [p \in Procs |-> Idle]
    /\ begun = 0 /\ meddled = 0
    /\ settled = [a \in Addrs |-> Unset]

At(p, pc)      == call[p].pc = pc
Ends(c, ans)   == [c EXCEPT !.pc = "done", !.ans = ans]
Fails(c)       == [c EXCEPT !.pc = "failed"]
Quietly(p, c)  == call' = [call EXCEPT ![p] = c] /\ UNCHANGED <<kind, vault, begun, meddled, settled>>
Items          == {i \in Ids : vault[i] \notin {NoItem, Gone}}
-----------------------------------------------------------------------------
(* The organization and collection an address names are resolved to ids     *)
(* before the CLI is asked: a collection's id anywhere in the vault, or its *)
(* name within the organization, if that is named.  An address that names   *)
(* nothing, several, or a collection of another organization is refused.    *)
(* 1Password's scope is the vault, which the CLI resolves.                  *)
Named(a) ==
    IF \E c \in Collections : c.id = a.coll THEN {c \in Collections : c.id = a.coll}
    ELSE {c \in Collections : c.name = a.coll /\ a.org \in {Unset, c.org}}

Unresolved(a) ==
    \/ a.org # Unset /\ \A c \in Collections : c.org # a.org
    \/ /\ a.coll # Unset
       /\ \/ Cardinality(Named(a)) # 1
          \/ \E c \in Named(a) : a.org \notin {Unset, c.org}

Scope(a) ==
    IF a.coll = Unset THEN [org |-> a.org, coll |-> Unset]
    ELSE LET c == CHOOSE c \in Named(a) : TRUE IN [org |-> c.org, coll |-> c.id]

(* A search passes one filter, because bw unites the filters it is given.   *)
FiltersBoth(s) == {<<"org", s.org>>, <<"coll", s.coll>>}
Filters(s) ==
    IF s.coll # Unset THEN {<<"coll", s.coll>>}
    ELSE IF s.org # Unset THEN {<<"org", s.org>>} ELSE {}

Listed(a) ==
    LET F == Filters(Scope(a))
    IN {i \in Items : F = {} \/ <<"org", vault[i].org>> \in F \/ <<"coll", vault[i].coll>> \in F}

(* bw's own search is fuzzy: it finds items whose name contains the term,   *)
(* and before CLI 2026.7.0 missed names with diacritics.                    *)
Found(a) ==
    {i \in Listed(a) : \/ vault[i].name = a.item /\ a.item \notin Hidden
                       \/ <<vault[i].name, a.item>> \in Resembles}

(* The items an address means: the full name, case folded, and the type if  *)
(* the address gives one.                                                   *)
Addressed(a, S) == {i \in S : vault[i].name = a.item /\ a.type \in {Unset, vault[i].type}}
-----------------------------------------------------------------------------
(* What an item answers.  A field that is no member of the item's type is a *)
(* custom one, matched in full or, failing that, in part: which of several  *)
(* partial matches answers depends on their order in the item.              *)
Custom(item, f) ==
    LET names == {g \in Fields \ Members(item.type) : item.fields[g] # Unset}
        part  == {g \in names : <<g, f>> \in Contains}
    IN IF f \in names THEN {item.fields[f]}
       ELSE IF part = {} THEN {Unset} ELSE {item.fields[g] : g \in part}

FieldOf(item, f) ==
    IF f \in Members(item.type) \/ item.type = "op" THEN {item.fields[f]} ELSE Custom(item, f)

Extracted(item, f) ==
    LET order == ReadOrder(item.type)
        there == {k \in DOMAIN order : FieldOf(item, order[k]) # {Unset}}
    IN IF f # Unset THEN FieldOf(item, f)
       ELSE IF there = {} THEN {Unset} ELSE FieldOf(item, order[Min(there)])

Target(a, type) == IF a.field = Unset THEN DefaultField(type) ELSE a.field
NewType(a) == IF kind = "op" THEN "op" ELSE IF a.type = Unset THEN "login" ELSE a.type

(* A new item carries the value in its target field; a note's body and the  *)
(* members of an SSH key must hold something, and get a text that says so.  *)
Template(a, v) ==
    LET t      == NewType(a)
        filled == IF t \in {"note", "ssh"} THEN Members(t) ELSE {}
        s      == Scope(a)
    IN [name |-> a.item, type |-> t, org |-> s.org, coll |-> s.coll,
        fields |-> [f \in Fields |-> IF f = Target(a, t) THEN v
                                     ELSE IF f \in filled THEN Placeholder ELSE Unset]]

EditedAlone(item, a, v) == [item EXCEPT !.fields = [Blanks EXCEPT ![Target(a, item.type)] = v]]
Edited(item, a, v) == [item EXCEPT !.fields[Target(a, item.type)] = v]
-----------------------------------------------------------------------------
(* The vault changes: what is in flight on that name is no longer fresh,    *)
(* and the name's addresses are settled no more, but for the one written.   *)
Changes(i, item, name, calls, addr, v) ==
    /\ vault' = [vault EXCEPT ![i] = item]
    /\ call' = [p \in Procs |-> IF calls[p] = call[p] /\ call[p].addr.item = name
                                THEN [call[p] EXCEPT !.fresh = FALSE] ELSE calls[p]]
    /\ settled' = [a \in Addrs |-> IF a = addr THEN v
                                   ELSE IF a.item = name THEN Unset ELSE settled[a]]

(* A write by p: the CLI may report a failure although it wrote.  The last  *)
(* write of an address settles it, if it was fresh.                         *)
Write(p, i, item) ==
    LET c == call[p]
    IN /\ \E ok \in BOOLEAN :
            Changes(i, item, c.addr.item, [call EXCEPT ![p] = IF ok THEN Ends(c, Unset) ELSE Fails(c)],
                    c.addr, IF ok /\ c.fresh THEN c.value ELSE Unset)
       /\ UNCHANGED <<kind, begun, meddled>>

(* Every bw operation asks `bw status` first; op's probe is the preflight's.*)
(* 1Password reads and writes an address with a field, and writes a whole   *)
(* item that a `ref` names, in one invocation.                              *)
FirstStep(op, a) ==
    CASE kind = "bw" /\ op = "get"                         -> "search"
      [] kind = "bw" /\ op = "set"                         -> "list"
      [] kind = "op" /\ op = "get"                         -> "title"
      [] kind = "op" /\ op = "batch"                       -> IF a.field = Unset THEN "list" ELSE "title"
      [] kind = "op" /\ op = "set"                         -> IF a.native THEN "assign" ELSE "list"

Begin(p, op, a, v) ==
    /\ At(p, "idle")
    /\ begun < MaxOps
    /\ a.kind = kind
    /\ op = "batch" => kind = "op"
    /\ LET c == [Idle EXCEPT !.op = op, !.addr = a, !.value = v, !.expect = settled[a]]
       IN call' = [call EXCEPT ![p] = IF Unresolved(a) THEN Fails(c)
                                      ELSE [c EXCEPT !.pc = FirstStep(op, a)]]
    /\ begun' = begun + 1
    /\ UNCHANGED <<kind, vault, meddled, settled>>

(* Any invocation may fail: the CLI is missing, logged out or locked, or    *)
(* the service refuses.                                                     *)
Fail(p) ==
    /\ call[p].pc \notin {"idle", "done", "failed"}
    /\ Quietly(p, Fails(call[p]))

(* A bw read answers from what it lists; an empty search lists again.       *)
Answer(p, S) ==
    LET c == call[p]
        M == Addressed(c.addr, S)
    IN \/ M = {} /\ Quietly(p, Ends(c, Unset))
       \/ /\ Cardinality(M) = 1
          /\ \E i \in M, v \in UNION {Extracted(vault[j], c.addr.field) : j \in M} :
                Quietly(p, [Ends(c, v) EXCEPT !.id = i, !.tmpl = vault[i]])
       \/ Cardinality(M) > 1 /\ Quietly(p, Fails(c))

RefoundNever(a) == FALSE
Refound(a) == Found(a) = {}

Search(p) ==
    /\ At(p, "search")
    /\ IF Refound(call[p].addr) THEN Quietly(p, [call[p] EXCEPT !.pc = "again"])
       ELSE Answer(p, Found(call[p].addr))

SearchAgain(p) == At(p, "again") /\ Answer(p, Listed(call[p].addr))

(* A bw write sees every item in scope, and refuses an ambiguous name.      *)
TargetsFound(a) == Addressed(a, Found(a))
Targets(a) == Addressed(a, Listed(a))

Lookup(p) ==
    /\ kind = "bw" /\ At(p, "list")
    /\ LET c == call[p]
           M == Targets(c.addr)
       IN \/ M = {} /\ Quietly(p, [c EXCEPT !.pc = "create"])
          \/ /\ Cardinality(M) = 1
             /\ \E i \in M : Quietly(p, [c EXCEPT !.pc = "template", !.id = i])
          \/ Cardinality(M) > 1 /\ Quietly(p, Fails(c))

(* An update reads the item again, changes one field and writes it whole.   *)
GetTemplate(p) ==
    /\ At(p, "template")
    /\ LET c == call[p]
       IN Quietly(p, IF c.id \notin Items THEN Fails(c)
                     ELSE [c EXCEPT !.pc = "edit", !.tmpl = vault[c.id]])

Edit(p) ==
    /\ At(p, "edit")
    /\ LET c == call[p]
       IN IF c.id \notin Items THEN Quietly(p, Fails(c))
          ELSE Write(p, c.id, Edited(c.tmpl, c.addr, c.value))

Create(p) ==
    /\ At(p, "create")
    /\ \E i \in Ids : /\ vault[i] = NoItem
                      /\ \A j \in Ids : vault[j] = NoItem => i <= j
                      /\ Write(p, i, Template(call[p].addr, call[p].value))
-----------------------------------------------------------------------------
(* op finds an item by its title, and of several it takes one: a single     *)
(* read and a write the first of a listing, a batch the last, because it    *)
(* collects the listing into a map from titles to ids.                      *)
Pick(op, M) == IF op = "batch" THEN Max(M) ELSE Min(M)
Titled(a)   == {i \in Listed(a) : vault[i].name = a.item}

OpGet(p) ==
    /\ At(p, "title")
    /\ LET c == call[p]
           M == Titled(c.addr)
       IN \/ M = {} /\ Quietly(p, Ends(c, Unset))
          \/ /\ Cardinality(M) = 1
             /\ \E i \in M, v \in UNION {Extracted(vault[j], c.addr.field) : j \in M} :
                    Quietly(p, [Ends(c, v) EXCEPT !.id = i, !.tmpl = vault[i]])
          \/ /\ Cardinality(M) > 1
             /\ Quietly(p, IF c.addr.field = Unset THEN [c EXCEPT !.pc = "list"] ELSE Fails(c))

(* A write creates the item that is not listed; a read has its answer.      *)
NotListed(c) == IF c.op = "set" THEN [c EXCEPT !.pc = "create"] ELSE Ends(c, Unset)

(* A listing that `op` delivers but that does not parse counts as empty,    *)
(* for writes and for reads alike: the items that are there go unseen.      *)
OpList(p) ==
    /\ kind = "op" /\ At(p, "list")
    /\ LET c == call[p]
           M == Titled(c.addr)
       IN \/ M = {} /\ Quietly(p, NotListed(c))
          \/ M # {} /\ Quietly(p, [c EXCEPT !.id = Pick(c.op, M),
                                            !.pc = IF c.op = "set" THEN "assign_id" ELSE "by_id"])
          \/ M # {} /\ Quietly(p, [NotListed(c) EXCEPT !.fresh = FALSE])

(* The item may be gone by then: a batch takes that for a missing secret.   *)
OpGetById(p) ==
    /\ At(p, "by_id")
    /\ LET c == call[p]
       IN \/ /\ c.id \notin Items
             /\ Quietly(p, IF c.op = "batch" THEN Ends(c, Unset) ELSE Fails(c))
          \/ /\ c.id \in Items
             /\ \E v \in Extracted(vault[c.id], Unset) :
                    Quietly(p, [Ends(c, v) EXCEPT !.tmpl = vault[c.id]])

(* op edits one field of an item in place; it names the item by title when  *)
(* the address is a `ref`, and never creates the item of one.               *)
OpEdit(p) ==
    LET c == call[p]
        M == IF At(p, "assign_id") THEN {c.id} \cap Items ELSE Titled(c.addr)
    IN /\ call[p].pc \in {"assign", "assign_id"}
       /\ IF Cardinality(M) # 1 THEN Quietly(p, Fails(c))
          ELSE \E i \in M : Write(p, i, Edited(vault[i], c.addr, c.value))

Return(p) == call[p].pc \in {"done", "failed"} /\ Quietly(p, Idle)

(* The user edits, copies or removes an item.                               *)
Meddle(i, item, name) ==
    /\ meddled < MaxMeddling
    /\ Changes(i, item, name, call, Unset, Unset)
    /\ meddled' = meddled + 1
    /\ UNCHANGED <<kind, begun>>

UserEdits(i, f, v) ==
    i \in Items /\ vault[i].fields[f] # v /\ Meddle(i, [vault[i] EXCEPT !.fields[f] = v], vault[i].name)
UserRemoves(i)   == i \in Items /\ Meddle(i, Gone, vault[i].name)
UserCopies(i, j) == i \in Items /\ vault[j] = NoItem /\ Meddle(j, vault[i], vault[i].name)

Next ==
    \/ \E p \in Procs :
        \/ \E a \in Addrs : \/ \E op \in {"get", "batch"} : Begin(p, op, a, Unset)
                            \/ \E v \in Written : Begin(p, "set", a, v)
        \/ Fail(p) \/ Search(p) \/ SearchAgain(p) \/ Lookup(p) \/ GetTemplate(p) \/ Edit(p)
        \/ Create(p) \/ OpGet(p) \/ OpList(p) \/ OpGetById(p) \/ OpEdit(p) \/ Return(p)
    \/ \E i \in Ids : \/ \E f \in {"value", "api_key"}, v \in Values \ Written : UserEdits(i, f, v)
                      \/ UserRemoves(i)
                      \/ \E j \in Ids : UserCopies(i, j)

Spec == Init /\ [][Next]_vars
-----------------------------------------------------------------------------
PCs == {"idle", "search", "again", "list", "template", "edit", "create", "title", "by_id",
        "assign", "assign_id", "done", "failed"}

(* An operation that has an id at hand was given it by the vault.           *)
TypeOK ==
    /\ kind \in Kinds
    /\ vault \in [Ids -> Item \cup {NoItem, Gone}]
    /\ call \in [Procs -> [pc : PCs, op : {"get", "batch", "set"}, addr : Addrs,
                           value : Values \cup {Unset}, id : Ids \cup {0},
                           tmpl : Item \cup {NoItem}, ans : Held, expect : Values \cup {Unset},
                           fresh : BOOLEAN]]
    /\ \A p \in Procs : call[p].pc \in {"template", "edit", "by_id", "assign_id"}
                        => call[p].id # 0 /\ vault[call[p].id] # NoItem
    /\ begun \in 0..MaxOps /\ meddled \in 0..MaxMeddling
    /\ settled \in [Addrs -> Values \cup {Unset}]

(* The item is where the address says, told from the address alone.         *)
Within(item, a) ==
    /\ item.name = a.item
    /\ a.type \in {Unset, item.type}
    /\ a.org \in {Unset, item.org}
    /\ a.coll # Unset => \E c \in Collections : c.id = item.coll /\ a.coll \in {c.id, c.name}

(* A plain `set` followed by a plain `get` round-trips (bw.rs, default_field *)
(* and search fallback): once a write of an address has succeeded, a read    *)
(* that succeeds while nobody touches an item of that name answers with the  *)
(* value written, whatever type the item has, wherever it was filed, and     *)
(* although the CLI's search finds nothing.  A search that finds only other  *)
(* items is not made again, and answers that there is none.  A 1Password     *)
(* batch is held to it only where the title is unique: BatchReadsTheSame.    *)
(* Nor are a 1Password read and write that could not read their listing held *)
(* to it, because they take it for an empty one: UnreadIsNotAbsent.          *)
ReadYourWrite ==
    \A p \in Procs :
        LET c == call[p]
        IN /\ At(p, "done") /\ c.op # "set" /\ c.fresh /\ c.expect # Unset
           /\ c.op = "batch" => Cardinality(Titled(c.addr)) = 1
           => c.ans = c.expect

(* A wrong secret is never answered with: the value comes from an item whose *)
(* full name, type, organization and collection are the address's.           *)
AnswersBelong ==
    \A p \in Procs : At(p, "done") /\ call[p].op # "set" /\ call[p].ans # Unset
                     => Within(call[p].tmpl, call[p].addr)

(* A read answers with what is in the vault under its address: the last     *)
(* value written there, and nothing of another item's.                      *)
AnswersAreRight == ReadYourWrite /\ AnswersBelong

Writes(p, i) ==
    /\ vault'[i] # vault[i]
    /\ call[p].pc \in {"edit", "create", "assign", "assign_id"} /\ call'[p].pc # call[p].pc

(* A write lands in the addressed item and scope: `set` never updates a      *)
(* same-named item of a sibling collection, and a created item is filed      *)
(* where the address looks.                                                  *)
WritesStayInScope ==
    [][\A p \in Procs, i \in Ids : Writes(p, i) => Within(vault'[i], call[p].addr)]_vars

(* A second item of the same address has a cause: a race, or a 1Password     *)
(* listing that could not be read.  A write that nobody disturbed since it   *)
(* began, and whose lookup was read, creates an item only where there is     *)
(* none, also when it repeats a write that was reported as failed.           *)
CopiesHaveACause ==
    [][\A p \in Procs, i \in Ids :
        Writes(p, i) /\ At(p, "create") /\ call[p].fresh
        => \A j \in Items : ~Within(vault[j], call[p].addr)]_vars

(* A write changes one field of an existing item, although bw's writes back  *)
(* all of them; only a change of the item since the write began is lost.     *)
OneFieldChanges ==
    [][\A p \in Procs, i \in Ids :
        Writes(p, i) /\ i \in Items /\ (call[p].fresh \/ kind = "op")
        => vault'[i] = [vault[i] EXCEPT
              !.fields[Target(call[p].addr, vault[i].type)] = call[p].value]]_vars

(* onepassword.rs:905 says that of several items with a title the first is   *)
(* read, and `set` writes that one; check and run read in batches.           *)
BatchReadsTheSame ==
    \A p \in Procs :
        LET c == call[p]
        IN At(p, "done") /\ c.op = "batch" /\ c.fresh /\ c.expect # Unset => c.ans = c.expect

(* onepassword.rs:669-671 promises of the lookup "`Ok(None)` - Item not       *)
(* found" and "`Err(_)` - Search failed", and 974 that it "prevents creating  *)
(* duplicates": of an item that is there, neither a write nor a read          *)
(* concludes that there is none, at least while nobody else uses the vault.  *)
UnreadIsNotAbsent ==
    \A p \in Procs :
        LET c == call[p]
        IN /\ kind = "op" /\ begun = 1 /\ meddled = 0
           /\ At(p, "create") \/ (At(p, "done") /\ c.op # "set" /\ c.id = 0)
           => Titled(c.addr) = {}

(* bw.rs:1674: "An explicit selector resolves to that field or to nothing".  *)
SelectorIsExact ==
    \A p \in Procs :
        LET c == call[p]
        IN At(p, "done") /\ kind = "bw" /\ c.op = "get" /\ c.ans # Unset /\ c.addr.field # Unset
           => c.ans = c.tmpl.fields[c.addr.field]
=============================================================================
