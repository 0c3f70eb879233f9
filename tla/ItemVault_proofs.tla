-------------------------- MODULE ItemVault_proofs --------------------------
(***************************************************************************)
(* Proofs about ItemVault for any number of processes, any addresses,      *)
(* items, collections and values, and any order in which the processes and *)
(* the user change the vault.                                              *)
(*                                                                         *)
(* The items an address means are those Within it: Meant.  The invariant   *)
(* says of each process what it knows of them (Finds), and of each settled *)
(* address that what it must read back as is what its item answers         *)
(* (Settles).  An operation loses most of what it knows when somebody else *)
(* changes an item of its name, or when it takes an unreadable listing for *)
(* an empty one; what remains is that ids are not given out again and that *)
(* items keep their name, type and place.                                  *)
(***************************************************************************)
EXTENDS ItemVault, FiniteSetTheorems, WellFoundedInduction, TLAPS

(* Smallest and largest of some ids. *)
LEMMA LeastOf ==
    ASSUME NEW S, S \subseteq Nat, S # {}
    PROVE  \E k \in S : \A j \in S : k <= j
<1> DEFINE R == OpToRel(<, Nat)
<1>1. IsWellFoundedOn(R, Nat) BY NatLessThanWellFounded
<1>2. PICK k \in S : \A j \in S : <<j, k>> \notin R
  <2> HIDE DEF R
  <2> QED BY <1>1, WFMin, Zenon
<1>3. \A j \in S : ~(j < k)
  BY <1>2 DEF OpToRel
<1> QED BY <1>3

LEMMA IdsAreNumbers == IsFiniteSet(Ids) /\ Ids \subseteq Nat /\ 0 \notin Ids
<1>1. Cardinality(Ids) \in Nat
  BY ItemVaultAssumption, FS_CardinalityType
<1> QED BY <1>1, ItemVaultAssumption

LEMMA MinIs ==
    ASSUME NEW S, S \subseteq Nat, S # {}
    PROVE  Min(S) \in S /\ \A j \in S : Min(S) <= j
<1>1. PICK k \in S : \A j \in S : k <= j
  BY LeastOf
<1> QED BY <1>1 DEF Min

LEMMA MaxIs ==
    ASSUME NEW S, S \subseteq Ids, S # {}
    PROVE  Max(S) \in S
<1> DEFINE n == Cardinality(Ids)
           U == {n - x : x \in S}
<1>1. n \in Nat /\ Ids = 1..n
  BY ItemVaultAssumption, FS_CardinalityType
<1> HIDE DEF n
<1>2. U \subseteq Nat /\ U # {}
  <2>1. ASSUME NEW x \in S PROVE n - x \in Nat
    <3>1. x \in 1..n
      BY <1>1
    <3> QED BY <1>1, <3>1
  <2> QED BY <2>1
<1>3. PICK u \in U : \A w \in U : u <= w
  BY <1>2, LeastOf
<1>4. PICK x \in S : u = n - x
  BY <1>3
<1>5. ASSUME NEW y \in S PROVE x >= y
  <2>1. n - x <= n - y
    BY <1>3, <1>4
  <2> QED BY <1>1, <2>1
<1> QED BY <1>5 DEF Max

(* A set of ids has one member, or the one it has. *)
LEMMA OneId ==
    ASSUME NEW S, S \subseteq Ids
    PROVE  /\ Cardinality(S) = 1 <=> \E i \in Ids : S = {i}
           /\ Cardinality(S) > 1 => S # {}
<1>1. IsFiniteSet(S)
  BY IdsAreNumbers, FS_Subset
<1>2. (Cardinality(S) = 1 <=> \E i : S = {i}) /\ (Cardinality(S) = 0 <=> S = {})
  BY <1>1, FS_Singleton, FS_EmptySet
<1> QED BY <1>2

-----------------------------------------------------------------------------
(* What an item answers. *)
LEMMA FieldNames ==
    ASSUME NEW t \in Types
    PROVE  /\ Members(t) \subseteq Fields /\ DefaultField(t) \in Fields
           /\ DOMAIN ReadOrder(t) \subseteq Nat /\ 1 \in DOMAIN ReadOrder(t)
           /\ \A k \in DOMAIN ReadOrder(t) : 1 <= k
           /\ \A k \in DOMAIN ReadOrder(t) : ReadOrder(t)[k] \in Fields
           /\ ReadOrder(t)[1] = DefaultField(t)
<1>1. \A u \in Types : Members(u) \subseteq Fields
  <2> DEFINE All == UNION {Members(u) : u \in Types}
  <2>1. All \subseteq Fields
    BY Zenon DEF Fields
  <2>2. ASSUME NEW u \in Types, NEW f \in Members(u) PROVE f \in All
    BY Zenon
  <2> HIDE DEF All
  <2> QED BY <2>1, <2>2
<1>2. "value" \in Fields
  <2>1. "value" \in {"value", "key", "api_key"}
    OBVIOUS
  <2> QED BY <2>1, Zenon DEF Fields
<1>3. {"login", "note", "card", "identity", "ssh", "op"} \subseteq Types
  BY DEF Types
<1>4. CASE t = "login"
  <2>1. {"password", "username"} \subseteq Fields
    BY <1>1, <1>4 DEF Members
  <2>2. ReadOrder(t) = <<"password", "username", "value">> /\ DefaultField(t) = "password"
    BY <1>4 DEF ReadOrder, DefaultField
  <2> QED BY <1>1, <1>2, <2>1, <2>2
<1>5. CASE t = "note"
  <2>1. {"notes"} \subseteq Fields
    BY <1>1, <1>5 DEF Members
  <2>2. ReadOrder(t) = <<"value", "notes">> /\ DefaultField(t) = "value"
    BY <1>5 DEF ReadOrder, DefaultField
  <2> QED BY <1>1, <1>2, <2>1, <2>2
<1>6. CASE t = "card"
  <2>1. {"number", "code"} \subseteq Fields
    BY <1>1, <1>6 DEF Members
  <2>2. ReadOrder(t) = <<"number", "value">> /\ DefaultField(t) = "number"
    BY <1>6 DEF ReadOrder, DefaultField
  <2> QED BY <1>1, <1>2, <2>1, <2>2
<1>7. CASE t = "identity"
  <2>1. {"email", "username"} \subseteq Fields
    BY <1>1, <1>7 DEF Members
  <2>2. ReadOrder(t) = <<"email", "username", "value">> /\ DefaultField(t) = "email"
    BY <1>7 DEF ReadOrder, DefaultField
  <2> QED BY <1>1, <1>2, <2>1, <2>2
<1>8. CASE t = "ssh"
  <2>1. {"private_key", "public_key"} \subseteq Fields
    BY <1>1, <1>8 DEF Members
  <2>2. ReadOrder(t) = <<"private_key", "value">> /\ DefaultField(t) = "private_key"
    BY <1>8 DEF ReadOrder, DefaultField
  <2> QED BY <1>1, <1>2, <2>1, <2>2
<1>9. CASE t = "op"
  <2>1. {"value", "password"} \subseteq Fields
    BY <1>1, <1>9 DEF Members
  <2>2. ReadOrder(t) = <<"value", "password">> /\ DefaultField(t) = "value"
    BY <1>9 DEF ReadOrder, DefaultField
  <2> QED BY <1>1, <1>2, <2>1, <2>2
<1> QED BY <1>4, <1>5, <1>6, <1>7, <1>8, <1>9 DEF Types

LEMMA FieldAnswers ==
    ASSUME NEW x \in Item, NEW f \in Fields
    PROVE  FieldOf(x, f) \subseteq Held
<1>1. \A g \in Fields : x.fields[g] \in Held
  BY DEF Item
<1>2. Unset \in Held
  BY DEF Held
<1> QED BY <1>1, <1>2 DEF FieldOf, Custom

LEMMA ItemAnswers ==
    ASSUME NEW x \in Item, NEW f \in Fields \cup {Unset}
    PROVE  Extracted(x, f) \subseteq Held
<1> DEFINE order == ReadOrder(x.type)
           there == {k \in DOMAIN order : FieldOf(x, order[k]) # {Unset}}
<1>1. x.type \in Types /\ Unset \in Held
  BY DEF Item, Held
<1>2. CASE f # Unset
  BY <1>2, FieldAnswers DEF Extracted
<1>3. CASE f = Unset /\ there = {}
  BY <1>1, <1>3 DEF Extracted
<1>4. CASE f = Unset /\ there # {}
  <2>1. Min(there) \in there
    BY <1>1, <1>4, FieldNames, MinIs
  <2>2. order[Min(there)] \in Fields
    BY <1>1, <2>1, FieldNames
  <2>3. Extracted(x, f) = FieldOf(x, order[Min(there)])
    BY <1>4 DEF Extracted
  <2> QED BY <2>2, <2>3, FieldAnswers
<1> QED BY <1>2, <1>3, <1>4

(* The field a write fills is the one a read of the address answers from.   *)
LEMMA ReadsBack ==
    ASSUME NEW x \in Item, NEW a \in Addrs, NEW v \in Values,
           x.fields[Target(a, x.type)] = v
    PROVE  Extracted(x, a.field) = {v}
<1> DEFINE order == ReadOrder(x.type)
           there == {k \in DOMAIN order : FieldOf(x, order[k]) # {Unset}}
<1>1. x.type \in Types /\ v # Unset /\ a.field \in Fields \cup {Unset}
  BY ItemVaultAssumption DEF Item
<1>2. ASSUME NEW f \in Fields, x.fields[f] = v PROVE FieldOf(x, f) = {v}
  BY <1>1, <1>2 DEF FieldOf, Custom
<1>3. CASE a.field # Unset
  BY <1>1, <1>2, <1>3 DEF Target, Extracted
<1>4. CASE a.field = Unset
  <2>1. DefaultField(x.type) \in Fields /\ x.fields[DefaultField(x.type)] = v
    BY <1>1, <1>4, FieldNames DEF Target
  <2>2. order[1] = DefaultField(x.type) /\ 1 \in DOMAIN order
    BY <1>1, FieldNames
  <2>3. FieldOf(x, order[1]) = {v}
    BY <1>2, <2>1, <2>2
  <2>4. 1 \in there
    BY <1>1, <2>2, <2>3
  <2>5. Min(there) = 1
    <3>1. there \subseteq Nat /\ \A k \in there : 1 <= k
      BY <1>1, FieldNames
    <3> HIDE DEF there
    <3>2. Min(there) \in Nat /\ Min(there) <= 1 /\ 1 <= Min(there)
      BY <2>4, <3>1, MinIs
    <3> QED BY <3>2
  <2> QED BY <1>4, <2>3, <2>4, <2>5 DEF Extracted
<1> QED BY <1>3, <1>4

-----------------------------------------------------------------------------
(* Where an address points.  A resolved address names one collection, or    *)
(* none, and the scope asked of the CLI is that one.                        *)
LEMMA CollectionsKnown ==
    /\ \A c \in Collections : c.id # Unset
    /\ \A c, d \in Collections : c.id # d.name /\ (c.id = d.id => c = d)
BY ItemVaultAssumption

LEMMA ScopeIs ==
    ASSUME NEW a \in Addrs, ~Unresolved(a)
    PROVE  \/ /\ a.coll = Unset
              /\ Scope(a) = [org |-> a.org, coll |-> Unset]
              /\ a.org # Unset => \E c \in Collections : c.org = a.org
           \/ /\ a.coll # Unset
              /\ \E c \in Collections : /\ Named(a) = {c} /\ a.coll \in {c.id, c.name}
                                        /\ a.org \in {Unset, c.org}
                                        /\ Scope(a) = [org |-> c.org, coll |-> c.id]
<1>1. CASE a.coll = Unset
  BY <1>1 DEF Scope, Unresolved
<1>2. CASE a.coll # Unset
  <2>1. Cardinality(Named(a)) = 1 /\ \A c \in Named(a) : a.org \in {Unset, c.org}
    BY <1>2 DEF Unresolved
  <2>2. Named(a) \subseteq Collections /\ IsFiniteSet(Named(a))
    BY ItemVaultAssumption, FS_Subset DEF Named
  <2>3. PICK c : Named(a) = {c}
    BY <2>1, <2>2, FS_Singleton
  <2>4. c \in Collections /\ a.coll \in {c.id, c.name} /\ a.org \in {Unset, c.org}
    BY <2>1, <2>2, <2>3 DEF Named
  <2>5. (CHOOSE d \in Named(a) : TRUE) = c
    BY <2>3
  <2>6. Scope(a) = [org |-> c.org, coll |-> c.id]
    BY <1>2, <2>5 DEF Scope
  <2> QED BY <1>2, <2>3, <2>4, <2>6
<1> QED BY <1>1, <1>2

(* The one filter passed to the search says neither less nor more than the  *)
(* address: here a collection's organization and its unique id count.       *)
LEMMA FiltersMean ==
    ASSUME NEW a \in Addrs, ~Unresolved(a), NEW x \in Item, Filed(x)
    PROVE  LET F == Filters(Scope(a))
           IN (F = {} \/ <<"org", x.org>> \in F \/ <<"coll", x.coll>> \in F)
              <=> /\ a.org \in {Unset, x.org}
                  /\ a.coll # Unset => \E c \in Collections : c.id = x.coll /\ a.coll \in {c.id, c.name}
<1>1. CASE a.coll = Unset
  <2>1. Scope(a) = [org |-> a.org, coll |-> Unset]
    BY <1>1, ScopeIs
  <2>2. Filters(Scope(a)) = IF a.org # Unset THEN {<<"org", a.org>>} ELSE {}
    BY <2>1 DEF Filters
  <2>3. CASE a.org = Unset
    BY <1>1, <2>2, <2>3
  <2>4. CASE a.org # Unset
    <3>1. <<"coll", x.coll>> # <<"org", a.org>>
      OBVIOUS
    <3>2. <<"org", x.org>> = <<"org", a.org>> <=> x.org = a.org
      OBVIOUS
    <3>3. Filters(Scope(a)) = {<<"org", a.org>>}
      BY <2>2, <2>4
    <3> QED BY <1>1, <2>4, <3>1, <3>2, <3>3
  <2> QED BY <2>3, <2>4
<1>2. CASE a.coll # Unset
  <2>1. PICK c \in Collections : /\ Named(a) = {c} /\ a.coll \in {c.id, c.name}
                                 /\ a.org \in {Unset, c.org}
                                 /\ Scope(a) = [org |-> c.org, coll |-> c.id]
    BY <1>2, ScopeIs
  <2>2. Filters(Scope(a)) = {<<"coll", c.id>>}
    BY <2>1, CollectionsKnown DEF Filters
  <2>3. ASSUME x.coll = c.id PROVE a.org \in {Unset, x.org}
    <3>1. PICK d \in Collections : d.id = x.coll /\ d.org = x.org
      BY <2>3, CollectionsKnown DEF Filed
    <3>2. d = c
      BY <2>3, <3>1, CollectionsKnown
    <3> QED BY <2>1, <3>1, <3>2
  <2>4. ASSUME NEW d \in Collections, d.id = x.coll, a.coll \in {d.id, d.name}, a.org \in {Unset, x.org}
        PROVE  x.coll = c.id
    <3>1. PICK e \in Collections : e.id = x.coll /\ e.org = x.org
      BY <2>4, CollectionsKnown DEF Filed
    <3>2. e = d
      BY <2>4, <3>1, CollectionsKnown
    <3>3. CASE a.coll = d.id
      <4>1. Named(a) = {k \in Collections : k.id = a.coll}
        BY <3>3 DEF Named
      <4> QED BY <2>1, <2>4, <3>3, <4>1
    <3>4. CASE a.coll = d.name
      <4>1. ~\E k \in Collections : k.id = a.coll
        BY <3>4, CollectionsKnown
      <4>2. Named(a) = {k \in Collections : k.name = a.coll /\ a.org \in {Unset, k.org}}
        BY <4>1 DEF Named
      <4>3. d \in Named(a)
        BY <2>4, <3>1, <3>2, <3>4, <4>2
      <4> QED BY <2>1, <2>4, <4>3
    <3> QED BY <2>4, <3>3, <3>4
  <2> QED BY <1>2, <2>1, <2>2, <2>3, <2>4
<1> QED BY <1>1, <1>2

-----------------------------------------------------------------------------
(* The items of vault v that an address means.                              *)
Meant(v, a) == {i \in Ids : v[i] \notin {NoItem, Gone} /\ Within(v[i], a)}

(* Nobody renames, retypes or moves an item.                                *)
SameHead(x, y) == x.name = y.name /\ x.type = y.type /\ x.org = y.org /\ x.coll = y.coll

Least(i, S) == i \in S /\ \A j \in S : i <= j

Slots  == Item \cup {NoItem, Gone}
Filing == \A i \in Items : Filed(vault[i]) /\ (vault[i].type = "op" <=> kind = "op")

LEMMA ItemsAre ==
    ASSUME vault \in [Ids -> Slots]
    PROVE  Items = {i \in Ids : vault[i] \in Item}
BY ItemVaultAssumption DEF Items, Slots

LEMMA MeantAre ==
    ASSUME NEW v \in [Ids -> Slots]
    PROVE  \A a : Meant(v, a) = {i \in Ids : v[i] \in Item /\ Within(v[i], a)}
BY ItemVaultAssumption DEF Meant, Slots

(* A listing in the address's scope, narrowed by name and type, is what the *)
(* address means, and so is a search that finds the full name.              *)
LEMMA TargetsAreMeant ==
    ASSUME vault \in [Ids -> Slots], Filing, NEW a \in Addrs, ~Unresolved(a)
    PROVE  /\ Targets(a) = Meant(vault, a)
           /\ a.type = Unset => Titled(a) = Meant(vault, a)
           /\ Addressed(a, Found(a)) \subseteq Meant(vault, a)
           /\ a.item \notin Hidden => Addressed(a, Found(a)) = Meant(vault, a)
<1> DEFINE In(i) == /\ a.org \in {Unset, vault[i].org}
                    /\ a.coll # Unset => \E c \in Collections : c.id = vault[i].coll
                                                                /\ a.coll \in {c.id, c.name}
<1>1. ASSUME NEW i \in Items PROVE i \in Listed(a) <=> In(i)
  <2>1. vault[i] \in Item /\ Filed(vault[i])
    BY ItemsAre DEF Filing
  <2> QED BY <2>1, FiltersMean DEF Listed
<1>2. Listed(a) \subseteq Items
  BY DEF Listed
<1>3. Meant(vault, a) = {i \in Items : /\ vault[i].name = a.item /\ a.type \in {Unset, vault[i].type}
                                       /\ In(i)}
  BY DEF Meant, Items, Within
<1> HIDE DEF In
<1>4. Targets(a) = Meant(vault, a)
  BY <1>1, <1>2, <1>3 DEF Targets, Addressed
<1>5. a.type = Unset => Titled(a) = Meant(vault, a)
  BY <1>1, <1>2, <1>3 DEF Titled
<1>6. Addressed(a, Found(a)) \subseteq Targets(a)
  BY DEF Addressed, Found, Targets
<1>7. a.item \notin Hidden => Targets(a) \subseteq Addressed(a, Found(a))
  BY DEF Addressed, Found, Targets
<1> QED BY <1>4, <1>5, <1>6, <1>7

(* A new item is filed where its address looks, and an edited one stays.    *)
LEMMA TemplateFits ==
    ASSUME NEW a \in Addrs, ~Unresolved(a), a.kind = kind, kind \in Kinds, NEW v \in Values
    PROVE  LET y == Template(a, v)
           IN /\ y \in Item /\ Filed(y) /\ (y.type = "op" <=> kind = "op") /\ y.name = a.item
              /\ Within(y, a) /\ y.fields[Target(a, y.type)] = v
<1> DEFINE t == NewType(a)
           y == Template(a, v)
<1>1. kind \in {"bw", "op"} /\ a.field \in Fields \cup {Unset}
  BY ItemVaultAssumption
<1>2. t \in Types /\ (t = "op" <=> kind = "op") /\ a.type \in {Unset, t}
  BY ItemVaultAssumption DEF NewType, Types
<1>3. Target(a, t) \in Fields
  BY <1>1, <1>2, FieldNames DEF Target
<1>4. /\ Scope(a).org \in {Unset} \cup {c.org : c \in Collections}
      /\ Scope(a).coll \in {Unset} \cup {c.id : c \in Collections}
      /\ Scope(a).coll # Unset => \E c \in Collections : c.id = Scope(a).coll /\ c.org = Scope(a).org
      /\ a.org \in {Unset, Scope(a).org}
      /\ a.coll # Unset => \E c \in Collections : c.id = Scope(a).coll /\ a.coll \in {c.id, c.name}
  <2>1. CASE a.coll = Unset
    BY <2>1, ScopeIs
  <2>2. CASE a.coll # Unset
    BY <2>2, ScopeIs
  <2> QED BY <2>1, <2>2
<1>5. /\ y.name = a.item /\ y.type = t /\ y.org = Scope(a).org /\ y.coll = Scope(a).coll
      /\ y.fields[Target(a, t)] = v
  BY <1>3 DEF Template
<1>6. y \in Item
  <2>1. v \in Held /\ Placeholder \in Held /\ Unset \in Held
    BY DEF Held
  <2> QED BY <1>2, <1>4, <2>1 DEF Template, Item
<1>7. Filed(y) /\ Within(y, a)
  <2> HIDE DEF y
  <2> QED BY <1>2, <1>4, <1>5 DEF Filed, Within
<1> QED BY <1>2, <1>5, <1>6, <1>7

LEMMA EditedFits ==
    ASSUME NEW x \in Item, NEW a \in Addrs, NEW v \in Values
    PROVE  LET y == Edited(x, a, v)
           IN y \in Item /\ SameHead(x, y) /\ y.fields[Target(a, y.type)] = v
<1>1. Target(a, x.type) \in Fields
  <2>1. x.type \in Types
    BY DEF Item
  <2> QED BY <2>1, ItemVaultAssumption, FieldNames DEF Target
<1>2. v \in Held
  BY DEF Held
<1> QED BY <1>1, <1>2 DEF Edited, Item, SameHead

LEMMA HeadsAgree ==
    ASSUME NEW x, NEW y, SameHead(x, y)
    PROVE  (Filed(x) <=> Filed(y)) /\ \A a : Within(x, a) <=> Within(y, a)
BY DEF SameHead, Filed, Within

-----------------------------------------------------------------------------
(* The inductive invariant.                                                 *)
Calls == [pc : PCs, op : {"get", "batch", "set"}, addr : Addrs, value : Values \cup {Unset},
          id : Ids \cup {0}, tmpl : Item \cup {NoItem}, ans : Held,
          expect : Values \cup {Unset}, fresh : BOOLEAN]

Over      == {"idle", "done", "failed"}
Active(c) == c.pc \notin Over

(* Where an operation is says what it does, to which provider, and that its *)
(* address is resolved.                                                     *)
Control(c) ==
    /\ Active(c) => ~Unresolved(c.addr)
    /\ c.pc \in {"search", "again"} => c.addr.kind = "bw" /\ c.op = "get"
    /\ c.pc \in {"template", "edit"} => c.addr.kind = "bw" /\ c.op = "set"
    /\ c.pc \in {"title", "by_id"} => c.addr.kind = "op" /\ c.op \in {"get", "batch"}
    /\ c.pc \in {"assign", "assign_id"} => c.addr.kind = "op" /\ c.op = "set"
    /\ c.pc = "create" => c.op = "set"
    /\ c.pc = "list" /\ c.addr.kind = "bw" => c.op = "set"
    /\ c.pc \in {"list", "by_id"} /\ c.op # "set" => c.addr.field = Unset
    /\ Active(c) /\ c.op = "set" => c.value \in Values
    /\ c.op = "batch" => c.addr.kind = "op"

(* What an operation knows of the items its address means: always, that the *)
(* item at hand is one of them or removed; and, while it is fresh, which of *)
(* them it is, that there is none, or that what it read is current.         *)
Finds(c, v) ==
    /\ c.pc \in {"template", "edit", "by_id", "assign_id"} =>
         c.id \in Ids /\ (v[c.id] = Gone \/ c.id \in Meant(v, c.addr))
    /\ c.pc = "edit" =>
         /\ c.tmpl \in Item /\ Within(c.tmpl, c.addr)
         /\ v[c.id] # Gone => SameHead(c.tmpl, v[c.id])
         /\ c.fresh => c.tmpl = v[c.id]
    /\ c.fresh /\ c.pc \in {"template", "edit"} => Meant(v, c.addr) = {c.id}
    /\ c.fresh /\ c.pc = "create" => Meant(v, c.addr) = {}
    /\ c.fresh /\ c.pc \in {"assign_id", "by_id"} /\ c.op # "batch" => Least(c.id, Meant(v, c.addr))
    /\ c.fresh /\ c.pc = "by_id" => c.id \in Meant(v, c.addr)
    /\ c.pc = "done" /\ c.op # "set" /\ c.ans # Unset => Within(c.tmpl, c.addr)

Knows(c, v, k) ==
    c \in Calls /\ (c.pc # "idle" => c.addr.kind = k) /\ Control(c) /\ Finds(c, v)

(* An address reads back as x: the only item it means, or for 1Password the *)
(* first of them, answers x and nothing else.                               *)
Settles(a, v, x) ==
    /\ ~Unresolved(a)
    /\ \E i \in Ids : /\ Least(i, Meant(v, a)) /\ (a.kind = "bw" => Meant(v, a) = {i})
                      /\ Extracted(v[i], a.field) = {x}

Inv ==
    /\ kind \in Kinds /\ vault \in [Ids -> Slots] /\ call \in [Procs -> Calls]
    /\ begun \in 0..MaxOps /\ meddled \in 0..MaxMeddling
    /\ settled \in [Addrs -> Values \cup {Unset}]
    /\ Filing
    /\ \A p \in Procs : Knows(call[p], vault, kind)
    /\ \A a \in Addrs : settled[a] # Unset => a.kind = kind /\ Settles(a, vault, settled[a])

(* A read that nobody disturbs is owed the value its address was settled to *)
(* when it began, and that is the value it is settled to now.               *)
Owed(c) == c.pc # "idle" /\ c.fresh /\ c.op # "set" /\ c.expect # Unset

Reads(c, v, s) ==
    Owed(c) => /\ s[c.addr] = c.expect
               /\ c.pc = "done" /\ (c.op = "batch" => \E i \in Ids : Meant(v, c.addr) = {i})
                  => c.ans = c.expect

Reading == \A p \in Procs : Reads(call[p], vault, settled)

LEMMA InvTypes == Inv => TypeOK
<1> SUFFICES ASSUME Inv PROVE TypeOK OBVIOUS
<1>1. ASSUME NEW p \in Procs, call[p].pc \in {"template", "edit", "by_id", "assign_id"}
      PROVE  call[p].id # 0 /\ vault[call[p].id] # NoItem
  <2>1. call[p].id \in Ids /\ vault[call[p].id] # NoItem
    BY <1>1, ItemVaultAssumption DEF Inv, Knows, Finds, Meant
  <2> QED BY <2>1, IdsAreNumbers
<1> QED BY <1>1 DEF Inv, TypeOK, Slots, Calls

(* A step that moves one process and nothing else.                          *)
LEMMA QuietStep ==
    ASSUME Inv, NEW p \in Procs, NEW c, Knows(c, vault, kind), Quietly(p, c)
    PROVE  Inv' /\ (Reading /\ Reads(c, vault, settled) => Reading')
<1>1. /\ call' = [call EXCEPT ![p] = c]
      /\ kind' = kind /\ vault' = vault /\ begun' = begun /\ meddled' = meddled /\ settled' = settled
  BY DEF Quietly
<1>2. call' \in [Procs -> Calls]
  BY <1>1 DEF Inv, Knows
<1>3. ASSUME NEW q \in Procs PROVE call'[q] = IF q = p THEN c ELSE call[q]
  BY <1>1 DEF Inv
<1>4. Filing'
  BY <1>1 DEF Inv, Filing, Items
<1>5. \A q \in Procs : Knows(call'[q], vault', kind')
  BY <1>1, <1>3 DEF Inv
<1>6. \A a \in Addrs : settled'[a] # Unset => a.kind = kind' /\ Settles(a, vault', settled'[a])
  BY <1>1 DEF Inv
<1>7. Inv'
  BY <1>1, <1>2, <1>4, <1>5, <1>6 DEF Inv
<1>8. Reading /\ Reads(c, vault, settled) => Reading'
  BY <1>1, <1>3 DEF Reading
<1> QED BY <1>7, <1>8

-----------------------------------------------------------------------------
(* A step that changes an item.                                             *)
(* w is v with y in slot i; neither what was there nor y has the name; both *)
(* have it, and y keeps what identifies an item.                            *)
Put(v, i, y, w)      == v \in [Ids -> Slots] /\ i \in Ids /\ y \in Slots /\ w = [v EXCEPT ![i] = y]
Apart(x, y, name)    == (x \in Item => x.name # name) /\ (y \in Item => y.name # name)
Replaces(x, y, name) == /\ x \in Item \cup {NoItem} /\ y \in Item \cup {Gone}
                        /\ x \in Item => x.name = name
                        /\ y \in Item => y.name = name /\ (x \in Item => SameHead(x, y))

LEMMA PutIs ==
    ASSUME NEW v, NEW i, NEW y, NEW w, Put(v, i, y, w)
    PROVE  /\ v \in [Ids -> Slots] /\ i \in Ids /\ y \in Slots
           /\ w \in [Ids -> Slots] /\ w[i] = y /\ \A j \in Ids : j # i => w[j] = v[j]
BY DEF Put

LEMMA MeantKept ==
    ASSUME NEW v, NEW i, NEW y, NEW w, Put(v, i, y, w),
           NEW a \in Addrs, Apart(v[i], y, a.item)
    PROVE  i \notin Meant(v, a) /\ Meant(w, a) = Meant(v, a)
<1>1. /\ v \in [Ids -> Slots] /\ i \in Ids /\ y \in Slots
      /\ w \in [Ids -> Slots] /\ w[i] = y /\ \A j \in Ids : j # i => w[j] = v[j]
  BY PutIs
<1>2. Meant(v, a) = {j \in Ids : v[j] \in Item /\ Within(v[j], a)}
  BY <1>1, MeantAre
<1>3. Meant(w, a) = {j \in Ids : w[j] \in Item /\ Within(w[j], a)}
  BY <1>1, MeantAre
<1>4. i \notin Meant(v, a) /\ i \notin Meant(w, a)
  BY <1>1, <1>2, <1>3 DEF Within, Apart
<1>5. ASSUME NEW j \in Ids, j # i PROVE j \in Meant(w, a) <=> j \in Meant(v, a)
  BY <1>1, <1>2, <1>3, <1>5
<1>6. Meant(w, a) = Meant(v, a)
  BY <1>2, <1>3, <1>4, <1>5
<1> QED BY <1>4, <1>6

LEMMA FindsKept ==
    ASSUME NEW v, NEW i, NEW y, NEW w, Put(v, i, y, w), NEW name, Replaces(v[i], y, name),
           NEW c \in Calls, Finds(c, v), NEW d, d = [c EXCEPT !.fresh = FALSE]
    PROVE  /\ Finds(d, w)
           /\ c.addr.item # name => Finds(c, w) /\ Meant(w, c.addr) = Meant(v, c.addr)
<1>1. /\ d.pc = c.pc /\ d.op = c.op /\ d.addr = c.addr /\ d.id = c.id /\ d.tmpl = c.tmpl
      /\ d.ans = c.ans /\ d.fresh = FALSE /\ c.addr \in Addrs
  BY DEF Calls
<1>2. /\ v \in [Ids -> Slots] /\ i \in Ids /\ y \in Slots
      /\ w \in [Ids -> Slots] /\ w[i] = y /\ \A j \in Ids : j # i => w[j] = v[j]
  BY PutIs
<1>3. Item \cap {NoItem, Gone} = {} /\ NoItem # Gone
  BY ItemVaultAssumption
<1>4. /\ Meant(v, c.addr) = {j \in Ids : v[j] \in Item /\ Within(v[j], c.addr)}
      /\ Meant(w, c.addr) = {j \in Ids : w[j] \in Item /\ Within(w[j], c.addr)}
  BY <1>2, MeantAre
<1>5. ASSUME c.pc \in {"template", "edit", "by_id", "assign_id"}
      PROVE  c.id \in Ids /\ (w[c.id] = Gone \/ c.id \in Meant(w, c.addr))
  <2>1. c.id \in Ids /\ (v[c.id] = Gone \/ (v[c.id] \in Item /\ Within(v[c.id], c.addr)))
    <3>1. c.id \in Ids /\ (v[c.id] = Gone \/ c.id \in Meant(v, c.addr))
      BY <1>5 DEF Finds
    <3> QED BY <1>4, <3>1
  <2>2. CASE c.id # i
    <3>1. w[c.id] = v[c.id]
      BY <1>2, <2>1, <2>2
    <3> QED BY <1>4, <2>1, <3>1
  <2>3. CASE c.id = i /\ y = Gone
    BY <1>2, <2>1, <2>3
  <2>4. CASE c.id = i /\ y \in Item
    <3>1. v[i] \in Item /\ Within(v[i], c.addr) /\ SameHead(v[i], y)
      BY <1>3, <2>1, <2>4 DEF Replaces
    <3>2. Within(y, c.addr)
      BY <3>1, HeadsAgree
    <3> QED BY <1>2, <1>4, <2>1, <2>4, <3>2
  <2> QED BY <2>2, <2>3, <2>4 DEF Replaces
<1>6. ASSUME c.pc = "edit", w[c.id] # Gone PROVE SameHead(c.tmpl, w[c.id])
  <2>1. c.id \in Ids /\ (v[c.id] # Gone => SameHead(c.tmpl, v[c.id]))
    BY <1>6 DEF Finds
  <2>2. CASE c.id # i
    BY <1>2, <1>6, <2>1, <2>2
  <2>3. CASE c.id = i
    <3>1. v[i] # NoItem
      <4>1. v[i] = Gone \/ i \in Meant(v, c.addr)
        BY <1>6, <2>3 DEF Finds
      <4> QED BY <1>3, <1>4, <4>1
    <3>2. y \in Item /\ v[i] \in Item /\ w[c.id] = y /\ SameHead(v[i], y)
      BY <1>2, <1>6, <2>3, <3>1 DEF Replaces
    <3> QED BY <2>1, <2>3, <3>2, <1>3 DEF SameHead
  <2> QED BY <2>2, <2>3
<1>7. Finds(d, w)
  BY <1>1, <1>5, <1>6 DEF Finds
<1>8. ASSUME c.addr.item # name PROVE Finds(c, w) /\ Meant(w, c.addr) = Meant(v, c.addr)
  <2>1. Apart(v[i], y, c.addr.item)
    BY <1>8 DEF Apart, Replaces
  <2>2. Meant(w, c.addr) = Meant(v, c.addr) /\ i \notin Meant(v, c.addr)
    BY <1>1, <2>1, MeantKept
  <2>3. c.pc = "edit" => c.id \in Ids /\ w[c.id] = v[c.id]
    <3>1. SUFFICES ASSUME c.pc = "edit" PROVE c.id \in Ids /\ w[c.id] = v[c.id]
      OBVIOUS
    <3>2. c.id \in Ids /\ (v[c.id] = Gone \/ c.id \in Meant(v, c.addr))
      BY <3>1 DEF Finds
    <3>3. c.id # i
      BY <1>3, <2>2, <3>2 DEF Replaces
    <3> QED BY <1>2, <3>2, <3>3
  <2> QED BY <1>5, <2>2, <2>3 DEF Finds
<1> QED BY <1>7, <1>8

(* A change that leaves the vault in order: of an item that is not removed  *)
(* yet, in a slot of the name; the processes it moves know what they need,  *)
(* and the address it settles reads back so.                                *)
Orderly(i, y, name, calls, addr, x) ==
    /\ i \in Ids /\ Replaces(vault[i], y, name)
    /\ y \in Item => Filed(y) /\ (y.type = "op" <=> kind = "op")
    /\ calls \in [Procs -> Calls]
    /\ \A q \in Procs : calls[q] # call[q] => Knows(calls[q], [vault EXCEPT ![i] = y], kind)
    /\ x \in Values \cup {Unset}
    /\ addr \in Addrs => addr.item = name
    /\ addr \in Addrs /\ x # Unset => addr.kind = kind /\ Settles(addr, [vault EXCEPT ![i] = y], x)

LEMMA ChangeStep ==
    ASSUME Inv, NEW i, NEW y, NEW name, NEW calls, NEW addr, NEW x,
           Orderly(i, y, name, calls, addr, x), Changes(i, y, name, calls, addr, x),
           kind' = kind, begun' \in 0..MaxOps, meddled' \in 0..MaxMeddling
    PROVE  /\ Inv'
           /\ Reading /\ (\A q \in Procs : calls[q] # call[q] => ~Owed(calls[q])) => Reading'
<1> DEFINE w == [vault EXCEPT ![i] = y]
<1>1. i \in Ids /\ Put(vault, i, y, w) /\ Replaces(vault[i], y, name)
  BY DEF Orderly, Inv, Put, Replaces, Slots
<1>2. /\ vault' = w
      /\ call' = [q \in Procs |-> IF calls[q] = call[q] /\ call[q].addr.item = name
                                  THEN [call[q] EXCEPT !.fresh = FALSE] ELSE calls[q]]
      /\ settled' = [a \in Addrs |-> IF a = addr THEN x ELSE IF a.item = name THEN Unset ELSE settled[a]]
  BY DEF Changes
<1>3. w \in [Ids -> Slots] /\ w[i] = y /\ \A j \in Ids : j # i => w[j] = vault[j]
  BY <1>1, PutIs
<1>4. Gone \notin Item /\ NoItem \notin Item /\ NoItem # Gone /\ vault[i] # Gone
  BY ItemVaultAssumption DEF Orderly, Replaces
<1> HIDE DEF w
<1>5. ASSUME NEW q \in Procs
      PROVE  /\ call'[q] \in Calls /\ Knows(call'[q], w, kind)
             /\ calls[q] = call[q] => \/ ~call'[q].fresh
                                      \/ /\ call'[q] = call[q] /\ call[q].addr.item # name
                                         /\ Meant(w, call[q].addr) = Meant(vault, call[q].addr)
  <2>1. CASE calls[q] # call[q]
    BY <1>2, <2>1 DEF Orderly, w
  <2> DEFINE c == call[q]
             d == [c EXCEPT !.fresh = FALSE]
  <2>2. c \in Calls /\ Knows(c, vault, kind)
    BY DEF Inv
  <2>3. /\ Finds(d, w)
        /\ c.addr.item # name => Finds(c, w) /\ Meant(w, c.addr) = Meant(vault, c.addr)
    <3>1. c \in Calls /\ Finds(c, vault) /\ d = [c EXCEPT !.fresh = FALSE]
      BY <2>2 DEF Knows
    <3> HIDE DEF c, d
    <3> QED BY <1>1, <3>1, FindsKept
  <2>4. CASE calls[q] = c /\ c.addr.item = name
    <3>1. call'[q] = d
      BY <1>2, <2>4
    <3> HIDE DEF c
    <3>2. d \in Calls /\ ~d.fresh /\ d.pc = c.pc /\ d.addr = c.addr /\ d.op = c.op /\ d.value = c.value
      BY <2>2 DEF Calls
    <3>3. Control(d)
      <4> HIDE DEF d
      <4> QED BY <2>2, <3>2 DEF Knows, Control, Active
    <3>4. Knows(d, w, kind)
      BY <2>2, <2>3, <3>2, <3>3 DEF Knows
    <3> HIDE DEF d
    <3> QED BY <3>1, <3>2, <3>4
  <2>5. CASE calls[q] = c /\ c.addr.item # name
    <3>1. call'[q] = c
      BY <1>2, <2>5
    <3> QED BY <2>2, <2>3, <2>5, <3>1 DEF Knows
  <2> QED BY <2>1, <2>4, <2>5
<1>6. call' \in [Procs -> Calls]
  <2>1. call' = [q \in Procs |-> call'[q]]
    BY <1>2
  <2> QED BY <1>5, <2>1
<1>7. settled' \in [Addrs -> Values \cup {Unset}]
  BY <1>2 DEF Orderly, Inv
<1>8. Filing'
  <2> SUFFICES ASSUME NEW j \in Items' PROVE Filed(vault'[j]) /\ (vault'[j].type = "op" <=> kind' = "op")
    BY DEF Filing
  <2>1. j \in Ids /\ w[j] \notin {NoItem, Gone}
    BY <1>2 DEF Items
  <2>2. CASE j = i
    <3>1. vault'[j] = y /\ y \in Item
      BY <1>1, <1>2, <1>3, <2>1, <2>2 DEF Replaces
    <3> QED BY <1>2, <3>1 DEF Orderly
  <2>3. CASE j # i
    <3>1. j \in Items /\ w[j] = vault[j]
      BY <1>3, <2>1, <2>3 DEF Items
    <3> QED BY <1>2, <3>1 DEF Inv, Filing
  <2> QED BY <2>2, <2>3
<1>9. ASSUME NEW a \in Addrs, settled'[a] # Unset
      PROVE  a.kind = kind' /\ Settles(a, vault', settled'[a])
  <2>1. CASE a = addr
    BY <1>2, <1>9, <2>1 DEF Orderly, w
  <2>2. CASE a # addr
    <3>1. a.item # name /\ settled'[a] = settled[a]
      BY <1>2, <1>9, <2>2
    <3>2. a.kind = kind /\ Settles(a, vault, settled[a])
      BY <1>9, <3>1 DEF Inv
    <3>3. Meant(w, a) = Meant(vault, a) /\ i \notin Meant(vault, a)
      <4>1. Apart(vault[i], y, a.item)
        BY <1>1, <3>1 DEF Apart, Replaces
      <4> QED BY <1>1, <4>1, MeantKept
    <3>4. \A j \in Meant(vault, a) : w[j] = vault[j]
      BY <1>3, <3>3 DEF Meant
    <3> QED BY <1>2, <3>1, <3>2, <3>3, <3>4 DEF Settles, Least
  <2> QED BY <2>1, <2>2
<1>10. Inv'
  <2>1. vault' \in [Ids -> Slots]
    BY <1>2, <1>3
  <2>2. \A q \in Procs : Knows(call'[q], vault', kind')
    BY <1>2, <1>5
  <2> QED BY <1>6, <1>7, <1>8, <1>9, <2>1, <2>2 DEF Inv
<1>11. ASSUME Reading, \A q \in Procs : calls[q] # call[q] => ~Owed(calls[q]), NEW q \in Procs
       PROVE  Reads(call'[q], vault', settled')
  <2>1. CASE calls[q] # call[q]
    <3>1. call'[q] = calls[q]
      BY <1>2, <2>1
    <3> QED BY <1>11, <2>1, <3>1 DEF Reads
  <2>2. CASE calls[q] = call[q] /\ ~call'[q].fresh
    BY <2>2 DEF Reads, Owed
  <2>3. CASE /\ call'[q] = call[q] /\ call[q].addr.item # name
             /\ Meant(w, call[q].addr) = Meant(vault, call[q].addr)
    <3>1. call[q].addr \in Addrs
      BY DEF Inv, Calls
    <3>2. settled'[call[q].addr] = settled[call[q].addr]
      BY <1>2, <2>3, <3>1 DEF Orderly
    <3>3. Reads(call[q], vault, settled)
      BY <1>11 DEF Reading
    <3> QED BY <1>2, <2>3, <3>2, <3>3 DEF Reads
  <2> QED BY <1>5, <2>1, <2>2, <2>3
<1> QED BY <1>10, <1>11 DEF Reading

-----------------------------------------------------------------------------
(* Steps that leave the vault alone.                                        *)
Same(c, d) ==
    /\ c \in Calls /\ d \in Calls
    /\ d.addr = c.addr /\ d.op = c.op /\ d.value = c.value
    /\ d.fresh = c.fresh /\ d.expect = c.expect

LEMMA Moved ==
    ASSUME NEW c \in Calls, NEW pc \in PCs
    PROVE  Same(c, [c EXCEPT !.pc = pc]) /\ [c EXCEPT !.pc = pc].pc = pc
BY DEF Calls, Same

LEMMA Ended ==
    ASSUME NEW c \in Calls, NEW x \in Held
    PROVE  /\ Same(c, Ends(c, x)) /\ Ends(c, x).pc = "done" /\ Ends(c, x).ans = x
           /\ Same(c, Fails(c)) /\ Fails(c).pc = "failed"
BY DEF Calls, Same, Ends, Fails, PCs

LEMMA KnowsOver ==
    ASSUME NEW c, NEW d, NEW v, NEW k, Knows(c, v, k), c.pc # "idle", Same(c, d),
           d.pc \in {"done", "failed"},
           d.pc = "done" /\ d.op # "set" /\ d.ans # Unset => Within(d.tmpl, d.addr)
    PROVE  Knows(d, v, k)
BY DEF Knows, Same, Control, Finds, Active, Over

LEMMA ReadsOn ==
    ASSUME NEW c, NEW d, NEW v, NEW s, Reads(c, v, s), c.pc # "idle", Same(c, d),
           Owed(c) /\ d.pc = "done" /\ (c.op = "batch" => \E i \in Ids : Meant(v, c.addr) = {i})
           => d.ans = c.expect
    PROVE  Reads(d, v, s)
BY DEF Reads, Owed, Same

LEMMA Failing ==
    ASSUME Inv, NEW p \in Procs, call[p].pc # "idle", Quietly(p, Fails(call[p]))
    PROVE  Inv' /\ (Reading => Reading')
<1> DEFINE c == call[p]
           d == Fails(c)
<1>1. c \in Calls /\ Knows(c, vault, kind) /\ c.pc # "idle"
  BY DEF Inv
<1>2. Same(c, d) /\ d.pc = "failed"
  BY <1>1, Ended DEF Held
<1>3. Quietly(p, d)
  OBVIOUS
<1> HIDE DEF d
<1>4. Knows(d, vault, kind)
  BY <1>1, <1>2, KnowsOver
<1>5. Reading => Reads(d, vault, settled)
  BY <1>1, <1>2, ReadsOn DEF Reading
<1> QED BY <1>3, <1>4, <1>5, QuietStep

(* What an address settles to is what the first item it means answers.      *)
LEMMA FirstAnswers ==
    ASSUME NEW v, NEW a, NEW x, Settles(a, v, x), NEW i, Least(i, Meant(v, a))
    PROVE  Extracted(v[i], a.field) = {x}
<1>1. PICK j \in Ids : Least(j, Meant(v, a)) /\ Extracted(v[j], a.field) = {x}
  BY DEF Settles
<1>2. i \in Ids /\ i <= j /\ j <= i
  BY <1>1 DEF Least, Meant
<1>3. i = j
  BY <1>2, IdsAreNumbers
<1> QED BY <1>1, <1>3

(* A read that ends with nothing, and one that ends with what an item       *)
(* answers.                                                                 *)
LEMMA NothingThere ==
    ASSUME Inv, NEW p \in Procs, call[p].pc # "idle", call[p].op # "set",
           Quietly(p, Ends(call[p], Unset))
    PROVE  Inv' /\ (Reading /\ Meant(vault, call[p].addr) = {} => Reading')
<1> DEFINE c == call[p]
           d == Ends(c, Unset)
<1>1. c \in Calls /\ Knows(c, vault, kind) /\ c.pc # "idle" /\ c.addr \in Addrs
  BY DEF Inv, Calls
<1>2. Same(c, d) /\ d.pc = "done" /\ d.ans = Unset
  BY <1>1, Ended DEF Held
<1>3. Quietly(p, d)
  OBVIOUS
<1> HIDE DEF d
<1>4. Knows(d, vault, kind)
  BY <1>1, <1>2, KnowsOver
<1>5. ASSUME Reading, Meant(vault, c.addr) = {} PROVE Reads(d, vault, settled)
  <2>1. Reads(c, vault, settled)
    BY <1>5 DEF Reading
  <2>2. ~Owed(c)
    <3>1. settled[c.addr] # Unset => \E i : i \in Meant(vault, c.addr)
      BY <1>1 DEF Inv, Settles, Least
    <3> QED BY <1>5, <2>1, <3>1 DEF Reads, Owed
  <2> QED BY <1>1, <1>2, <2>1, <2>2, ReadsOn
<1> QED BY <1>3, <1>4, <1>5, QuietStep

LEMMA Answering ==
    ASSUME Inv, NEW p \in Procs, call[p].pc # "idle", call[p].op # "set",
           NEW i, i \in Meant(vault, call[p].addr),
           NEW x \in Extracted(vault[i], call[p].addr.field),
           NEW d, Same(call[p], d), d.pc = "done", d.ans = x, d.tmpl = vault[i],
           Quietly(p, d)
    PROVE  /\ Inv'
           /\ Reading /\ (/\ call[p].fresh
                          /\ call[p].op = "batch" => \E j \in Ids : Meant(vault, call[p].addr) = {j}
                          => Least(i, Meant(vault, call[p].addr)))
              => Reading'
<1> DEFINE c == call[p]
<1>1. c \in Calls /\ Knows(c, vault, kind) /\ c.addr \in Addrs
  BY DEF Inv, Calls
<1>2. vault[i] \in Item /\ Within(vault[i], c.addr)
  BY MeantAre DEF Inv
<1>3. Knows(d, vault, kind)
  BY <1>1, <1>2, KnowsOver DEF Same
<1>4. ASSUME Reading,
             /\ c.fresh
             /\ c.op = "batch" => \E j \in Ids : Meant(vault, c.addr) = {j}
             => Least(i, Meant(vault, c.addr))
      PROVE  Reads(d, vault, settled)
  <2>1. Reads(c, vault, settled)
    BY <1>4 DEF Reading
  <2>2. ASSUME Owed(c), c.op = "batch" => \E j \in Ids : Meant(vault, c.addr) = {j}
        PROVE  x = c.expect
    <3>1. settled[c.addr] = c.expect /\ c.expect # Unset
      BY <2>1, <2>2 DEF Reads, Owed
    <3>2. Settles(c.addr, vault, c.expect)
      BY <1>1, <3>1 DEF Inv
    <3>3. Least(i, Meant(vault, c.addr))
      BY <1>4, <2>2 DEF Owed
    <3>4. Extracted(vault[i], c.addr.field) = {c.expect}
      BY <3>2, <3>3, FirstAnswers
    <3> QED BY <3>4
  <2> QED BY <2>1, <2>2, ReadsOn
<1> QED BY <1>3, <1>4, QuietStep

(* The first step of an operation.                                          *)
LEMMA BeginStep ==
    ASSUME Inv, NEW p \in Procs, NEW op, NEW a \in Addrs, NEW x, Begin(p, op, a, x),
           \/ op \in {"get", "batch"} /\ x = Unset
           \/ op = "set" /\ x \in Values
    PROVE  Inv' /\ (Reading => Reading')
<1> DEFINE c == [Idle EXCEPT !.op = op, !.addr = a, !.value = x, !.expect = settled[a]]
           d == IF Unresolved(a) THEN Fails(c) ELSE [c EXCEPT !.pc = FirstStep(op, a)]
<1>1. /\ call' = [call EXCEPT ![p] = d]
      /\ kind' = kind /\ vault' = vault /\ meddled' = meddled /\ settled' = settled
      /\ begun' \in 0..MaxOps /\ a.kind = kind
      /\ op = "batch" => kind = "op"
  BY ItemVaultAssumption DEF Begin, Inv
<1>2. Idle \in Calls
  BY ItemVaultAssumption DEF Idle, Calls, PCs, Held
<1>3. /\ c \in Calls /\ c.op = op /\ c.addr = a /\ c.value = x /\ c.expect = settled[a]
  <2>1. settled[a] \in Values \cup {Unset}
    BY DEF Inv
  <2> QED BY <1>2, <2>1 DEF Calls
<1>4. kind \in {"bw", "op"}
  BY ItemVaultAssumption DEF Inv
<1>5. /\ FirstStep(op, a) \in {"search", "list", "title", "assign"}
      /\ FirstStep(op, a) = "search" => kind = "bw" /\ op = "get"
      /\ FirstStep(op, a) = "title" => kind = "op" /\ op \in {"get", "batch"}
      /\ FirstStep(op, a) = "assign" => kind = "op" /\ op = "set"
      /\ FirstStep(op, a) = "list" => op = "set" \/ (kind = "op" /\ a.field = Unset)
  <2>1. CASE kind = "bw" /\ op = "get"
    BY <2>1 DEF FirstStep
  <2>2. CASE kind = "bw" /\ op = "set"
    BY <2>2 DEF FirstStep
  <2>3. CASE kind = "op" /\ op = "get"
    BY <2>3 DEF FirstStep
  <2>4. CASE kind = "op" /\ op = "batch"
    BY <2>4 DEF FirstStep
  <2>5. CASE kind = "op" /\ op = "set"
    BY <2>5 DEF FirstStep
  <2> QED BY <1>1, <1>4, <2>1, <2>2, <2>3, <2>4, <2>5
<1> HIDE DEF c
<1>6. /\ Same(c, d) /\ d.pc # "done" /\ d.pc \in {"failed", "search", "list", "title", "assign"}
      /\ Unresolved(a) => d.pc = "failed"
      /\ ~Unresolved(a) => d.pc = FirstStep(op, a)
  <2>1. CASE Unresolved(a)
    BY <1>3, <2>1, Ended DEF Held
  <2>2. CASE ~Unresolved(a)
    <3>1. FirstStep(op, a) \in PCs
      BY <1>5 DEF PCs
    <3> QED BY <1>3, <1>5, <2>2, <3>1, Moved
  <2> QED BY <2>1, <2>2
<1> HIDE DEF d
<1>7. d.addr = a /\ d.op = op /\ d.value = x /\ d.expect = settled[a] /\ d \in Calls
  BY <1>3, <1>6 DEF Same
<1>8. Control(d)
  BY <1>1, <1>5, <1>6, <1>7 DEF Control, Active, Over
<1>9. Finds(d, vault)
  BY <1>6 DEF Finds
<1>10. Knows(d, vault, kind)
  BY <1>1, <1>7, <1>8, <1>9 DEF Knows
<1>11. Reads(d, vault, settled)
  BY <1>6, <1>7 DEF Reads
<1>12. \A q \in Procs : call'[q] = IF q = p THEN d ELSE call[q]
  BY <1>1 DEF Inv
<1>13. call' \in [Procs -> Calls]
  BY <1>1, <1>7 DEF Inv
<1>14. Filing'
  BY <1>1 DEF Inv, Filing, Items
<1>15. \A q \in Procs : Knows(call'[q], vault', kind')
  BY <1>1, <1>10, <1>12 DEF Inv
<1>16. \A b \in Addrs : settled'[b] # Unset => b.kind = kind' /\ Settles(b, vault', settled'[b])
  BY <1>1 DEF Inv
<1>17. Inv'
  BY <1>1, <1>13, <1>14, <1>15, <1>16 DEF Inv
<1>18. Reading => Reading'
  BY <1>1, <1>11, <1>12 DEF Reading
<1> QED BY <1>17, <1>18

LEMMA ReturnStep ==
    ASSUME Inv, NEW p \in Procs, Return(p)
    PROVE  Inv' /\ (Reading => Reading')
<1>1. Idle \in Calls /\ Idle.pc = "idle"
  BY ItemVaultAssumption DEF Idle, Calls, PCs, Held
<1>2. Knows(Idle, vault, kind) /\ Reads(Idle, vault, settled)
  <2>1. Idle.op = "get"
    BY DEF Idle
  <2> QED BY <1>1, <2>1 DEF Knows, Control, Finds, Active, Over, Reads, Owed
<1>3. Quietly(p, Idle)
  BY DEF Return
<1> QED BY <1>2, <1>3, QuietStep

LEMMA FailStep ==
    ASSUME Inv, NEW p \in Procs, Fail(p)
    PROVE  Inv' /\ (Reading => Reading')
BY Failing DEF Fail

(* A bw read answers from some of the items its address means; if from all, *)
(* its answer is the right one.                                             *)
LEMMA AnswerStep ==
    ASSUME Inv, NEW p \in Procs, call[p].pc \in {"search", "again"}, NEW S, Answer(p, S),
           Addressed(call[p].addr, S) \subseteq Meant(vault, call[p].addr)
    PROVE  /\ Inv'
           /\ Reading /\ Addressed(call[p].addr, S) = Meant(vault, call[p].addr) => Reading'
<1> DEFINE c == call[p]
           M == Addressed(c.addr, S)
<1>1. c \in Calls /\ Knows(c, vault, kind) /\ c.pc # "idle" /\ c.op = "get"
  <2>1. c \in Calls /\ Knows(c, vault, kind)
    BY DEF Inv
  <2> QED BY <2>1 DEF Knows, Control
<1>2. CASE M = {} /\ Quietly(p, Ends(c, Unset))
  BY <1>1, <1>2, NothingThere
<1>3. CASE /\ Cardinality(M) = 1
           /\ \E i \in M, x \in UNION {Extracted(vault[j], c.addr.field) : j \in M} :
                Quietly(p, [Ends(c, x) EXCEPT !.id = i, !.tmpl = vault[i]])
  <2>1. PICK i \in M, x \in UNION {Extracted(vault[j], c.addr.field) : j \in M} :
            Quietly(p, [Ends(c, x) EXCEPT !.id = i, !.tmpl = vault[i]])
    BY <1>3
  <2>2. M \subseteq Ids /\ i \in Meant(vault, c.addr)
    BY <2>1 DEF Meant
  <2>3. M = {i}
    BY <1>3, <2>1, <2>2, OneId
  <2>4. x \in Extracted(vault[i], c.addr.field)
    BY <2>1, <2>3
  <2>5. vault[i] \in Item /\ i \in Ids
    BY <2>2, MeantAre DEF Inv
  <2>6. x \in Held
    <3>1. c.addr.field \in Fields \cup {Unset}
      BY <1>1, ItemVaultAssumption DEF Calls
    <3> QED BY <2>4, <2>5, <3>1, ItemAnswers
  <2> DEFINE d == [Ends(c, x) EXCEPT !.id = i, !.tmpl = vault[i]]
  <2>7. Same(c, d) /\ d.pc = "done" /\ d.ans = x /\ d.tmpl = vault[i]
    BY <1>1, <2>5, <2>6 DEF Calls, Same, Ends, PCs
  <2>8. Quietly(p, d)
    BY <2>1
  <2> HIDE DEF d
  <2>9. M = Meant(vault, c.addr) => Least(i, Meant(vault, c.addr))
    <3>1. i <= i
      BY <2>5, IdsAreNumbers
    <3> QED BY <2>3, <3>1 DEF Least
  <2> QED BY <1>1, <2>2, <2>4, <2>7, <2>8, <2>9, Answering
<1>4. CASE Quietly(p, Fails(c))
  BY <1>1, <1>4, Failing
<1> QED BY <1>2, <1>3, <1>4 DEF Answer

(* No name that a search misses resembles another item's, so that a search  *)
(* for it finds nothing and is made again without it.                       *)
HiddenAlone == \A h \in Hidden : \A n : <<n, h>> \notin Resembles

LEMMA SearchStep ==
    ASSUME Inv, NEW p \in Procs, Search(p)
    PROVE  Inv' /\ (HiddenAlone /\ Reading => Reading')
<1> DEFINE c == call[p]
           d == [c EXCEPT !.pc = "again"]
<1>1. c \in Calls /\ Knows(c, vault, kind) /\ c.pc = "search" /\ c.addr \in Addrs
  BY DEF Inv, Search, At, Calls
<1>2. ~Unresolved(c.addr) /\ c.addr.kind = "bw" /\ c.op = "get"
  BY <1>1 DEF Knows, Control, Active, Over
<1>3. /\ Addressed(c.addr, Found(c.addr)) \subseteq Meant(vault, c.addr)
      /\ c.addr.item \notin Hidden => Addressed(c.addr, Found(c.addr)) = Meant(vault, c.addr)
  BY <1>1, <1>2, TargetsAreMeant DEF Inv
<1>4. CASE Refound(c.addr)
  <2>1. Same(c, d) /\ d.pc = "again"
    BY <1>1, Moved DEF PCs
  <2>2. Quietly(p, d)
    BY <1>4 DEF Search
  <2> HIDE DEF d
  <2>3. Knows(d, vault, kind)
    BY <1>1, <1>2, <2>1 DEF Knows, Same, Control, Finds, Active, Over
  <2>4. Reading => Reads(d, vault, settled)
    BY <1>1, <2>1, ReadsOn DEF Reading
  <2> QED BY <2>2, <2>3, <2>4, QuietStep
<1>5. CASE ~Refound(c.addr)
  <2>1. Answer(p, Found(c.addr))
    BY <1>5 DEF Search
  <2>2. HiddenAlone => c.addr.item \notin Hidden
    BY <1>5 DEF HiddenAlone, Refound, Found
  <2> QED BY <1>1, <1>3, <2>1, <2>2, AnswerStep
<1> QED BY <1>4, <1>5

LEMMA SearchAgainStep ==
    ASSUME Inv, NEW p \in Procs, SearchAgain(p)
    PROVE  Inv' /\ (Reading => Reading')
<1> DEFINE c == call[p]
<1>1. c \in Calls /\ Knows(c, vault, kind) /\ c.pc = "again" /\ c.addr \in Addrs
  BY DEF Inv, SearchAgain, At, Calls
<1>2. ~Unresolved(c.addr)
  BY <1>1 DEF Knows, Control, Active, Over
<1>3. Addressed(c.addr, Listed(c.addr)) = Meant(vault, c.addr)
  BY <1>1, <1>2, TargetsAreMeant DEF Inv, Targets
<1> QED BY <1>1, <1>3, AnswerStep DEF SearchAgain

(* What a bw write finds decides whether it edits or creates.               *)
LEMMA LookupStep ==
    ASSUME Inv, NEW p \in Procs, Lookup(p)
    PROVE  Inv' /\ (Reading => Reading')
<1> DEFINE c == call[p]
           M == Targets(c.addr)
<1>1. /\ c \in Calls /\ Knows(c, vault, kind) /\ c.pc = "list" /\ c.addr \in Addrs /\ kind = "bw"
  BY DEF Inv, Lookup, At, Calls
<1>2. ~Unresolved(c.addr) /\ c.addr.kind = "bw" /\ c.op = "set" /\ c.value \in Values
  BY <1>1 DEF Knows, Control, Active, Over
<1>3. M = Meant(vault, c.addr) /\ M \subseteq Ids
  BY <1>1, <1>2, TargetsAreMeant DEF Inv, Meant
<1>4. CASE M = {} /\ Quietly(p, [c EXCEPT !.pc = "create"])
  <2> DEFINE d == [c EXCEPT !.pc = "create"]
  <2>1. Same(c, d) /\ d.pc = "create"
    BY <1>1, Moved DEF PCs
  <2>2. Quietly(p, d)
    BY <1>4
  <2> HIDE DEF d
  <2>3. Knows(d, vault, kind)
    BY <1>1, <1>2, <1>3, <1>4, <2>1 DEF Knows, Same, Control, Finds, Active, Over
  <2>4. Reads(d, vault, settled)
    BY <1>2, <2>1 DEF Reads, Owed, Same
  <2> QED BY <2>2, <2>3, <2>4, QuietStep
<1>5. CASE Cardinality(M) = 1 /\ \E i \in M : Quietly(p, [c EXCEPT !.pc = "template", !.id = i])
  <2>1. PICK i \in M : Quietly(p, [c EXCEPT !.pc = "template", !.id = i])
    BY <1>5
  <2>2. M = {i} /\ i \in Ids
    BY <1>3, <1>5, <2>1, OneId
  <2> DEFINE d == [c EXCEPT !.pc = "template", !.id = i]
  <2>3. Same(c, d) /\ d.pc = "template" /\ d.id = i
    BY <1>1, <2>2 DEF Calls, Same, PCs
  <2>4. Quietly(p, d)
    BY <2>1
  <2> HIDE DEF d
  <2>5. Knows(d, vault, kind)
    BY <1>1, <1>2, <1>3, <2>2, <2>3 DEF Knows, Same, Control, Finds, Active, Over
  <2>6. Reads(d, vault, settled)
    BY <1>2, <2>3 DEF Reads, Owed, Same
  <2> QED BY <2>4, <2>5, <2>6, QuietStep
<1>6. CASE Quietly(p, Fails(c))
  BY <1>1, <1>6, Failing
<1> QED BY <1>4, <1>5, <1>6 DEF Lookup

LEMMA GetTemplateStep ==
    ASSUME Inv, NEW p \in Procs, GetTemplate(p)
    PROVE  Inv' /\ (Reading => Reading')
<1> DEFINE c == call[p]
<1>1. c \in Calls /\ Knows(c, vault, kind) /\ c.pc = "template" /\ c.addr \in Addrs
  BY DEF Inv, GetTemplate, At, Calls
<1>2. ~Unresolved(c.addr) /\ c.addr.kind = "bw" /\ c.op = "set" /\ c.value \in Values
  BY <1>1 DEF Knows, Control, Active, Over
<1>3. CASE c.id \notin Items
  BY <1>1, <1>3, Failing DEF GetTemplate
<1>4. CASE c.id \in Items
  <2> DEFINE d == [c EXCEPT !.pc = "edit", !.tmpl = vault[c.id]]
  <2>1. c.id \in Ids /\ vault[c.id] \in Item
    BY <1>4, ItemsAre DEF Inv
  <2>2. Same(c, d) /\ d.pc = "edit" /\ d.tmpl = vault[c.id] /\ d.id = c.id
    BY <1>1, <2>1 DEF Calls, Same, PCs
  <2>3. Quietly(p, d)
    BY <1>4 DEF GetTemplate
  <2>4. c.id \in Meant(vault, c.addr) /\ Within(vault[c.id], c.addr)
    BY <1>1, <1>4 DEF Knows, Finds, Items, Meant
  <2>5. c.fresh => Meant(vault, c.addr) = {c.id}
    BY <1>1 DEF Knows, Finds
  <2> HIDE DEF d
  <2>6. Finds(d, vault)
    BY <1>2, <2>1, <2>2, <2>4, <2>5 DEF Finds, Same, SameHead
  <2>7. Control(d) /\ d \in Calls /\ d.addr.kind = kind
    BY <1>1, <1>2, <2>2 DEF Knows, Same, Control, Active, Over
  <2>8. Reads(d, vault, settled)
    BY <1>2, <2>2 DEF Reads, Owed, Same
  <2> QED BY <2>3, <2>6, <2>7, <2>8, QuietStep DEF Knows
<1> QED BY <1>3, <1>4

(* op reads an item by its title, or by the id that a listing gave.         *)
LEMMA OpGetStep ==
    ASSUME Inv, NEW p \in Procs, OpGet(p)
    PROVE  Inv' /\ (Reading => Reading')
<1> DEFINE c == call[p]
           M == Titled(c.addr)
<1>1. c \in Calls /\ Knows(c, vault, kind) /\ c.pc = "title" /\ c.addr \in Addrs
  BY DEF Inv, OpGet, At, Calls
<1>2. /\ ~Unresolved(c.addr) /\ c.addr.kind = "op" /\ c.op \in {"get", "batch"}
      /\ c.addr.type = Unset
  <2>1. ~Unresolved(c.addr) /\ c.addr.kind = "op" /\ c.op \in {"get", "batch"}
    BY <1>1 DEF Knows, Control, Active, Over
  <2> QED BY <1>1, <2>1, ItemVaultAssumption
<1>3. M = Meant(vault, c.addr) /\ M \subseteq Ids
  BY <1>1, <1>2, TargetsAreMeant DEF Inv, Meant
<1>4. CASE M = {} /\ Quietly(p, Ends(c, Unset))
  BY <1>1, <1>2, <1>3, <1>4, NothingThere
<1>5. CASE /\ Cardinality(M) = 1
           /\ \E i \in M, x \in UNION {Extracted(vault[j], c.addr.field) : j \in M} :
                Quietly(p, [Ends(c, x) EXCEPT !.id = i, !.tmpl = vault[i]])
  <2>1. PICK i \in M, x \in UNION {Extracted(vault[j], c.addr.field) : j \in M} :
            Quietly(p, [Ends(c, x) EXCEPT !.id = i, !.tmpl = vault[i]])
    BY <1>5
  <2>2. M = {i} /\ i \in Meant(vault, c.addr)
    BY <1>3, <1>5, <2>1, OneId
  <2>3. x \in Extracted(vault[i], c.addr.field)
    BY <2>1, <2>2
  <2>4. vault[i] \in Item /\ i \in Ids
    BY <2>2, MeantAre DEF Inv
  <2>5. x \in Held
    <3>1. c.addr.field \in Fields \cup {Unset}
      BY <1>1, ItemVaultAssumption
    <3> QED BY <2>3, <2>4, <3>1, ItemAnswers
  <2> DEFINE d == [Ends(c, x) EXCEPT !.id = i, !.tmpl = vault[i]]
  <2>6. Same(c, d) /\ d.pc = "done" /\ d.ans = x /\ d.tmpl = vault[i]
    BY <1>1, <2>4, <2>5 DEF Calls, Same, Ends, PCs
  <2>7. Quietly(p, d)
    BY <2>1
  <2> HIDE DEF d
  <2>8. Least(i, Meant(vault, c.addr))
    <3>1. i <= i
      BY <2>4, IdsAreNumbers
    <3> QED BY <1>3, <2>2, <3>1 DEF Least
  <2> QED BY <1>1, <1>2, <2>2, <2>3, <2>6, <2>7, <2>8, Answering
<1>6. CASE Quietly(p, IF c.addr.field = Unset THEN [c EXCEPT !.pc = "list"] ELSE Fails(c))
  <2>1. CASE c.addr.field = Unset
    <3> DEFINE d == [c EXCEPT !.pc = "list"]
    <3>1. Same(c, d) /\ d.pc = "list"
      BY <1>1, Moved DEF PCs
    <3>2. Quietly(p, d)
      BY <1>6, <2>1
    <3> HIDE DEF d
    <3>3. Knows(d, vault, kind)
      BY <1>1, <1>2, <2>1, <3>1 DEF Knows, Same, Control, Finds, Active, Over
    <3>4. Reading => Reads(d, vault, settled)
      BY <1>1, <3>1, ReadsOn DEF Reading
    <3> QED BY <3>2, <3>3, <3>4, QuietStep
  <2>2. CASE c.addr.field # Unset
    BY <1>1, <1>6, <2>2, Failing
  <2> QED BY <2>1, <2>2
<1> QED BY <1>4, <1>5, <1>6 DEF OpGet

LEMMA OpListStep ==
    ASSUME Inv, NEW p \in Procs, OpList(p)
    PROVE  Inv' /\ (Reading => Reading')
<1> DEFINE c == call[p]
           M == Titled(c.addr)
<1>1. /\ c \in Calls /\ Knows(c, vault, kind) /\ c.pc = "list" /\ c.addr \in Addrs /\ kind = "op"
  BY DEF Inv, OpList, At, Calls
<1>2. /\ ~Unresolved(c.addr) /\ c.addr.kind = "op" /\ c.addr.type = Unset
      /\ c.op \in {"get", "batch", "set"}
      /\ c.op # "set" => c.addr.field = Unset
      /\ c.op = "set" => c.value \in Values
  <2>1. ~Unresolved(c.addr) /\ c.addr.kind = "op"
    BY <1>1 DEF Knows, Control, Active, Over
  <2> QED BY <1>1, <2>1, ItemVaultAssumption DEF Knows, Control, Active, Over, Calls
<1>3. M = Meant(vault, c.addr) /\ M \subseteq Ids
  BY <1>1, <1>2, TargetsAreMeant DEF Inv, Meant
<1>4. CASE M = {} /\ Quietly(p, NotListed(c)) /\ c.op = "set"
  <2> DEFINE d == [c EXCEPT !.pc = "create"]
  <2>1. Same(c, d) /\ d.pc = "create"
    BY <1>1, Moved DEF PCs
  <2>2. Quietly(p, d)
    BY <1>4 DEF NotListed
  <2> HIDE DEF d
  <2>3. Knows(d, vault, kind)
    BY <1>1, <1>2, <1>3, <1>4, <2>1 DEF Knows, Same, Control, Finds, Active, Over
  <2>4. Reads(d, vault, settled)
    BY <1>4, <2>1 DEF Reads, Owed, Same
  <2> QED BY <2>2, <2>3, <2>4, QuietStep
<1>5. CASE M = {} /\ Quietly(p, NotListed(c)) /\ c.op # "set"
  <2>1. Quietly(p, Ends(c, Unset))
    BY <1>5 DEF NotListed
  <2> QED BY <1>1, <1>3, <1>5, <2>1, NothingThere
<1>6. CASE /\ M # {}
           /\ Quietly(p, [c EXCEPT !.id = Pick(c.op, M),
                                   !.pc = IF c.op = "set" THEN "assign_id" ELSE "by_id"])
  <2> DEFINE i == Pick(c.op, M)
             d == [c EXCEPT !.id = i, !.pc = IF c.op = "set" THEN "assign_id" ELSE "by_id"]
  <2>1. i \in M /\ (c.op # "batch" => Least(i, M))
    <3>1. M \subseteq Nat
      BY <1>3, IdsAreNumbers
    <3>2. CASE c.op = "batch"
      BY <1>3, <1>6, <3>2, MaxIs DEF Pick
    <3>3. CASE c.op # "batch"
      BY <1>6, <3>1, <3>3, MinIs DEF Pick, Least
    <3> QED BY <3>2, <3>3
  <2>2. Quietly(p, d)
    BY <1>6
  <2> HIDE DEF i
  <2>3. /\ Same(c, d) /\ d.id = i
        /\ d.pc = IF c.op = "set" THEN "assign_id" ELSE "by_id"
    BY <1>1, <1>3, <2>1 DEF Calls, Same, PCs
  <2> HIDE DEF d
  <2>4. Control(d) /\ d \in Calls /\ d.addr.kind = kind
    BY <1>1, <1>2, <2>3 DEF Same, Control, Active, Over
  <2>5. Finds(d, vault)
    BY <1>2, <1>3, <2>1, <2>3 DEF Finds, Same
  <2>6. Reading => Reads(d, vault, settled)
    BY <1>1, <2>3, ReadsOn DEF Reading
  <2> QED BY <2>2, <2>4, <2>5, <2>6, QuietStep DEF Knows
<1>7. CASE Quietly(p, [NotListed(c) EXCEPT !.fresh = FALSE])
  <2> DEFINE d == [NotListed(c) EXCEPT !.fresh = FALSE]
  <2>1. /\ d \in Calls /\ ~d.fresh /\ d.addr = c.addr /\ d.op = c.op /\ d.value = c.value
        /\ \/ d.pc = "create" /\ c.op = "set"
           \/ d.pc = "done" /\ d.ans = Unset
    BY <1>1 DEF NotListed, Ends, Calls, PCs, Held
  <2>2. Quietly(p, d)
    BY <1>7
  <2> HIDE DEF d
  <2>3. Control(d) /\ d.addr.kind = kind
    BY <1>1, <1>2, <2>1 DEF Control, Active, Over
  <2>4. Finds(d, vault)
    BY <2>1 DEF Finds
  <2>5. Reads(d, vault, settled)
    BY <2>1 DEF Reads, Owed
  <2> QED BY <2>1, <2>2, <2>3, <2>4, <2>5, QuietStep DEF Knows
<1> QED BY <1>4, <1>5, <1>6, <1>7 DEF OpList

LEMMA OpGetByIdStep ==
    ASSUME Inv, NEW p \in Procs, OpGetById(p)
    PROVE  Inv' /\ (Reading => Reading')
<1> DEFINE c == call[p]
<1>1. c \in Calls /\ Knows(c, vault, kind) /\ c.pc = "by_id" /\ c.addr \in Addrs
  BY DEF Inv, OpGetById, At, Calls
<1>2. c.op \in {"get", "batch"} /\ c.addr.field = Unset
  BY <1>1 DEF Knows, Control
<1>3. /\ c.id \in Ids
      /\ c.fresh => c.id \in Meant(vault, c.addr)
      /\ c.fresh /\ c.op # "batch" => Least(c.id, Meant(vault, c.addr))
      /\ vault[c.id] = Gone \/ c.id \in Meant(vault, c.addr)
  BY <1>1 DEF Knows, Finds
<1>4. CASE c.id \notin Items
  <2>1. CASE c.op = "batch"
    <3>1. Quietly(p, Ends(c, Unset))
      BY <1>4, <2>1 DEF OpGetById
    <3>2. c.id \notin Meant(vault, c.addr)
      BY <1>4 DEF Items, Meant
    <3> DEFINE d == Ends(c, Unset)
    <3>3. Same(c, d) /\ d.pc = "done" /\ d.ans = Unset
      BY <1>1, Ended DEF Held
    <3>4. Quietly(p, d)
      BY <3>1
    <3> HIDE DEF d
    <3>5. Knows(d, vault, kind)
      BY <1>1, <3>3, KnowsOver
    <3>6. Reading => Reads(d, vault, settled)
      BY <1>1, <1>3, <3>2, <3>3, ReadsOn DEF Reading, Owed
    <3> QED BY <3>4, <3>5, <3>6, QuietStep
  <2>2. CASE c.op # "batch"
    <3>1. Quietly(p, Fails(c))
      BY <1>4, <2>2 DEF OpGetById
    <3> QED BY <1>1, <3>1, Failing
  <2> QED BY <2>1, <2>2
<1>5. CASE c.id \in Items
  <2>1. PICK x \in Extracted(vault[c.id], Unset) : Quietly(p, [Ends(c, x) EXCEPT !.tmpl = vault[c.id]])
    BY <1>5 DEF OpGetById
  <2>2. c.id \in Meant(vault, c.addr) /\ vault[c.id] \in Item
    BY <1>3, <1>5, ItemsAre DEF Inv, Items
  <2>3. x \in Held
    BY <2>1, <2>2, ItemAnswers
  <2> DEFINE d == [Ends(c, x) EXCEPT !.tmpl = vault[c.id]]
  <2>4. Same(c, d) /\ d.pc = "done" /\ d.ans = x /\ d.tmpl = vault[c.id]
    BY <1>1, <2>2, <2>3 DEF Calls, Same, Ends, PCs
  <2>5. Quietly(p, d)
    BY <2>1
  <2> HIDE DEF d
  <2>6. x \in Extracted(vault[c.id], c.addr.field)
    BY <1>2, <2>1
  <2>7. ASSUME c.fresh, c.op = "batch" => \E j \in Ids : Meant(vault, c.addr) = {j}
        PROVE  Least(c.id, Meant(vault, c.addr))
    <3>1. CASE c.op = "batch"
      <4>1. Meant(vault, c.addr) = {c.id} /\ c.id <= c.id
        BY <1>3, <2>2, <2>7, <3>1, IdsAreNumbers
      <4> QED BY <4>1 DEF Least
    <3>2. CASE c.op # "batch"
      BY <1>3, <2>7, <3>2
    <3> QED BY <3>1, <3>2
  <2> QED BY <1>1, <1>2, <2>2, <2>4, <2>5, <2>6, <2>7, Answering
<1> QED BY <1>4, <1>5

-----------------------------------------------------------------------------
(* Steps that change the vault.  A write puts an item its address means in  *)
(* a slot that is free or already holds one; if it was not disturbed, what  *)
(* it wrote is what the address reads back.                                 *)
LEMMA WriteStep ==
    ASSUME Inv, NEW p \in Procs, NEW i \in Ids, NEW y, Write(p, i, y),
           Active(call[p]), call[p].op = "set",
           y \in Item, Filed(y), y.type = "op" <=> kind = "op", Within(y, call[p].addr),
           \/ vault[i] = NoItem
           \/ vault[i] \in Item /\ SameHead(vault[i], y),
           call[p].fresh => Settles(call[p].addr, [vault EXCEPT ![i] = y], call[p].value)
    PROVE  Inv' /\ (Reading => Reading')
<1> DEFINE c == call[p]
<1>1. PICK ok \in BOOLEAN :
        Changes(i, y, c.addr.item, [call EXCEPT ![p] = IF ok THEN Ends(c, Unset) ELSE Fails(c)],
                c.addr, IF ok /\ c.fresh THEN c.value ELSE Unset)
  BY DEF Write
<1> DEFINE d     == IF ok THEN Ends(c, Unset) ELSE Fails(c)
           calls == [call EXCEPT ![p] = d]
           x     == IF ok /\ c.fresh THEN c.value ELSE Unset
           w     == [vault EXCEPT ![i] = y]
<1>2. kind' = kind /\ begun' \in 0..MaxOps /\ meddled' \in 0..MaxMeddling
  BY DEF Write, Inv
<1>3. c \in Calls /\ Knows(c, vault, kind) /\ c.addr \in Addrs /\ c.pc # "idle"
  BY DEF Inv, Calls, Active, Over
<1>4. c.addr.kind = kind /\ c.value \in Values
  BY <1>3 DEF Knows, Control
<1>5. Same(c, d) /\ d.pc \in {"done", "failed"}
  <2>1. CASE ok
    BY <1>3, <2>1, Ended DEF Held
  <2>2. CASE ~ok
    BY <1>3, <2>2, Ended DEF Held
  <2> QED BY <2>1, <2>2
<1>6. Changes(i, y, c.addr.item, calls, c.addr, x)
  BY <1>1
<1> HIDE DEF d
<1>7. d \in Calls /\ d.op = "set" /\ d.addr.kind = kind
  BY <1>4, <1>5 DEF Same
<1>8. Knows(d, w, kind)
  BY <1>5, <1>7 DEF Knows, Control, Finds, Active, Over
<1>9. calls \in [Procs -> Calls] /\ \A q \in Procs : calls[q] = IF q = p THEN d ELSE call[q]
  BY <1>7 DEF Inv
<1>10. x \in Values \cup {Unset} /\ (x # Unset => x = c.value /\ c.fresh)
  BY <1>4
<1> HIDE DEF calls, x
<1>11. Replaces(vault[i], y, c.addr.item)
  <2>1. NoItem \notin Item
    BY ItemVaultAssumption
  <2> QED BY <2>1 DEF Replaces, SameHead, Within
<1>12. Orderly(i, y, c.addr.item, calls, c.addr, x)
  BY <1>3, <1>4, <1>8, <1>9, <1>10, <1>11 DEF Orderly
<1>13. \A q \in Procs : calls[q] # call[q] => ~Owed(calls[q])
  BY <1>7, <1>9 DEF Owed
<1> QED BY <1>2, <1>6, <1>12, <1>13, ChangeStep

LEMMA SettledBy ==
    ASSUME NEW v, NEW i, NEW y \in Item, NEW w, Put(v, i, y, w),
           NEW a \in Addrs, NEW x \in Values, ~Unresolved(a), Within(y, a),
           y.fields[Target(a, y.type)] = x,
           a.kind = "bw" => Meant(v, a) \subseteq {i},
           \A j \in Meant(v, a) : i <= j
    PROVE  Settles(a, w, x)
<1>1. /\ v \in [Ids -> Slots] /\ i \in Ids
      /\ w \in [Ids -> Slots] /\ w[i] = y /\ \A j \in Ids : j # i => w[j] = v[j]
  BY PutIs
<1>2. /\ Meant(v, a) = {j \in Ids : v[j] \in Item /\ Within(v[j], a)}
      /\ Meant(w, a) = {j \in Ids : w[j] \in Item /\ Within(w[j], a)}
  BY <1>1, MeantAre
<1>3. i \in Meant(w, a) /\ Meant(w, a) \subseteq Meant(v, a) \cup {i}
  BY <1>1, <1>2
<1>4. i <= i
  BY <1>1, IdsAreNumbers
<1>5. Least(i, Meant(w, a)) /\ (a.kind = "bw" => Meant(w, a) = {i})
  BY <1>3, <1>4 DEF Least
<1>6. Extracted(w[i], a.field) = {x}
  BY <1>1, ReadsBack
<1> QED BY <1>1, <1>5, <1>6 DEF Settles

LEMMA EditStep ==
    ASSUME Inv, NEW p \in Procs, Edit(p)
    PROVE  Inv' /\ (Reading => Reading')
<1> DEFINE c == call[p]
           i == c.id
           y == Edited(c.tmpl, c.addr, c.value)
           w == [vault EXCEPT ![i] = y]
<1>1. c \in Calls /\ Knows(c, vault, kind) /\ c.pc = "edit" /\ c.addr \in Addrs
  BY DEF Inv, Edit, At, Calls
<1>2. /\ ~Unresolved(c.addr) /\ c.addr.kind = "bw" /\ c.op = "set" /\ c.value \in Values
      /\ Active(c)
  BY <1>1 DEF Knows, Control, Active, Over
<1>3. /\ c.tmpl \in Item /\ Within(c.tmpl, c.addr)
      /\ vault[i] # Gone => SameHead(c.tmpl, vault[i])
      /\ c.fresh => Meant(vault, c.addr) = {i}
  BY <1>1 DEF Knows, Finds
<1>4. CASE i \notin Items
  BY <1>1, <1>4, Failing DEF Edit
<1>5. CASE i \in Items
  <2>1. Write(p, i, y)
    BY <1>5 DEF Edit
  <2>2. y \in Item /\ SameHead(c.tmpl, y) /\ y.fields[Target(c.addr, y.type)] = c.value
    BY <1>1, <1>2, <1>3, EditedFits
  <2>3. i \in Ids /\ vault[i] \in Item /\ SameHead(c.tmpl, vault[i]) /\ vault \in [Ids -> Slots]
    BY <1>3, <1>5, ItemsAre DEF Inv, Items
  <2> HIDE DEF y
  <2>4. Within(y, c.addr)
    BY <1>3, <2>2, HeadsAgree
  <2>5. SameHead(vault[i], y)
    BY <2>2, <2>3 DEF SameHead
  <2>6. Filed(y) /\ (y.type = "op" <=> kind = "op")
    <3>1. Filed(vault[i]) /\ (vault[i].type = "op" <=> kind = "op")
      BY <1>5 DEF Inv, Filing
    <3> QED BY <2>5, <3>1, HeadsAgree DEF SameHead
  <2>7. ASSUME c.fresh PROVE Settles(c.addr, w, c.value)
    <3>1. Put(vault, i, y, w)
      BY <2>2, <2>3 DEF Put, Slots
    <3>2. Meant(vault, c.addr) = {i} /\ i <= i
      <4>1. Meant(vault, c.addr) = {i}
        BY <1>3, <2>7
      <4>2. i \in Nat
        BY <2>3, IdsAreNumbers
      <4> HIDE DEF i
      <4> QED BY <4>1, <4>2
    <3> HIDE DEF w, i
    <3> QED BY <1>1, <1>2, <2>2, <2>4, <3>1, <3>2, SettledBy
  <2> QED BY <1>2, <2>1, <2>2, <2>3, <2>4, <2>5, <2>6, <2>7, WriteStep
<1> QED BY <1>4, <1>5

LEMMA CreateStep ==
    ASSUME Inv, NEW p \in Procs, Create(p)
    PROVE  Inv' /\ (Reading => Reading')
<1> DEFINE c == call[p]
           y == Template(c.addr, c.value)
<1>1. c \in Calls /\ Knows(c, vault, kind) /\ c.pc = "create" /\ c.addr \in Addrs
  BY DEF Inv, Create, At, Calls
<1>2. /\ ~Unresolved(c.addr) /\ c.addr.kind = kind /\ c.op = "set" /\ c.value \in Values
      /\ Active(c)
  BY <1>1 DEF Knows, Control, Active, Over
<1>3. PICK i \in Ids : vault[i] = NoItem /\ Write(p, i, y)
  BY DEF Create
<1> DEFINE w == [vault EXCEPT ![i] = y]
<1>4. /\ y \in Item /\ Filed(y) /\ (y.type = "op" <=> kind = "op")
      /\ Within(y, c.addr) /\ y.fields[Target(c.addr, y.type)] = c.value
  BY <1>1, <1>2, TemplateFits DEF Inv
<1> HIDE DEF y
<1>5. ASSUME c.fresh PROVE Settles(c.addr, w, c.value)
  <2>1. Meant(vault, c.addr) = {}
    BY <1>1, <1>5 DEF Knows, Finds
  <2>2. Put(vault, i, y, w)
    BY <1>4 DEF Put, Slots, Inv
  <2> HIDE DEF w
  <2> QED BY <1>1, <1>2, <1>4, <2>1, <2>2, SettledBy
<1> QED BY <1>2, <1>3, <1>4, <1>5, WriteStep

LEMMA OpEditStep ==
    ASSUME Inv, NEW p \in Procs, OpEdit(p)
    PROVE  Inv' /\ (Reading => Reading')
<1> DEFINE c == call[p]
           M == IF At(p, "assign_id") THEN {c.id} \cap Items ELSE Titled(c.addr)
<1>1. /\ c \in Calls /\ Knows(c, vault, kind) /\ c.pc \in {"assign", "assign_id"}
      /\ c.addr \in Addrs
  BY DEF Inv, OpEdit, Calls
<1>2. /\ ~Unresolved(c.addr) /\ c.addr.kind = "op" /\ c.op = "set" /\ c.value \in Values
      /\ Active(c) /\ c.addr.type = Unset /\ kind = "op"
  <2>1. ~Unresolved(c.addr) /\ c.addr.kind = "op" /\ c.op = "set" /\ c.value \in Values /\ Active(c)
    BY <1>1 DEF Knows, Control, Active, Over
  <2> QED BY <1>1, <2>1, ItemVaultAssumption DEF Knows, Active, Over
<1>3. Titled(c.addr) = Meant(vault, c.addr)
  BY <1>1, <1>2, TargetsAreMeant DEF Inv
<1>4. CASE Cardinality(M) # 1
  <2>1. Quietly(p, Fails(c))
    BY <1>4 DEF OpEdit
  <2> QED BY <1>1, <2>1, Failing
<1>5. CASE Cardinality(M) = 1
  <2>1. PICK i \in M : Write(p, i, Edited(vault[i], c.addr, c.value))
    BY <1>5 DEF OpEdit
  <2> DEFINE y == Edited(vault[i], c.addr, c.value)
             w == [vault EXCEPT ![i] = y]
  <2>2. i \in Meant(vault, c.addr) /\ (c.fresh => Least(i, Meant(vault, c.addr)))
    <3>1. CASE c.pc = "assign_id"
      <4>1. i = c.id /\ i \in Items
        BY <2>1, <3>1 DEF At
      <4> QED BY <1>1, <1>2, <3>1, <4>1 DEF Knows, Finds, Items
    <3>2. CASE c.pc = "assign"
      <4>1. M = Meant(vault, c.addr) /\ M \subseteq Ids
        BY <1>3, <3>2 DEF At, Meant
      <4>2. M = {i}
        BY <1>5, <2>1, <4>1, OneId
      <4>3. i <= i
        BY <2>1, <4>1, IdsAreNumbers
      <4> QED BY <4>1, <4>2, <4>3 DEF Least
    <3> QED BY <1>1, <3>1, <3>2
  <2>3. i \in Ids /\ i \in Items /\ vault[i] \in Item /\ Within(vault[i], c.addr) /\ vault \in [Ids -> Slots]
    BY <2>2, MeantAre DEF Inv, Items, Meant
  <2>4. y \in Item /\ SameHead(vault[i], y) /\ y.fields[Target(c.addr, y.type)] = c.value
    BY <1>1, <1>2, <2>3, EditedFits
  <2>5. Write(p, i, y)
    BY <2>1
  <2> HIDE DEF y
  <2>6. Within(y, c.addr)
    BY <2>3, <2>4, HeadsAgree
  <2>7. Filed(y) /\ (y.type = "op" <=> kind = "op")
    <3>1. Filed(vault[i]) /\ (vault[i].type = "op" <=> kind = "op")
      BY <2>3 DEF Inv, Filing
    <3> QED BY <2>4, <3>1, HeadsAgree DEF SameHead
  <2>8. ASSUME c.fresh PROVE Settles(c.addr, w, c.value)
    <3>1. Put(vault, i, y, w)
      BY <2>3, <2>4 DEF Put, Slots
    <3>2. \A j \in Meant(vault, c.addr) : i <= j
      BY <2>2, <2>8 DEF Least
    <3>3. c.addr.kind # "bw"
      BY <1>2
    <3> HIDE DEF w
    <3> QED BY <1>1, <1>2, <2>4, <2>6, <3>1, <3>2, <3>3, SettledBy
  <2> QED BY <1>2, <2>3, <2>4, <2>5, <2>6, <2>7, <2>8, WriteStep
<1> QED BY <1>4, <1>5

(* The user's changes.                                                      *)
LEMMA MeddleStep ==
    ASSUME Inv, NEW i \in Ids, NEW y, NEW name, Meddle(i, y, name),
           Replaces(vault[i], y, name), y \in Item => Filed(y) /\ (y.type = "op" <=> kind = "op")
    PROVE  Inv' /\ (Reading => Reading')
<1>1. Unset \notin Addrs /\ MaxMeddling \in Nat
  BY ItemVaultAssumption
<1>2. /\ Changes(i, y, name, call, Unset, Unset) /\ kind' = kind /\ begun' \in 0..MaxOps
      /\ meddled' \in 0..MaxMeddling
  BY <1>1 DEF Meddle, Inv
<1>3. Orderly(i, y, name, call, Unset, Unset)
  BY <1>1 DEF Orderly, Inv
<1> QED BY <1>2, <1>3, ChangeStep

LEMMA UserStep ==
    ASSUME Inv,
           \/ \E i \in Ids, f \in {"value", "api_key"}, x \in Values \ Written : UserEdits(i, f, x)
           \/ \E i \in Ids : UserRemoves(i)
           \/ \E i, j \in Ids : UserCopies(i, j)
    PROVE  Inv' /\ (Reading => Reading')
<1>1. \A i \in Items : i \in Ids /\ vault[i] \in Item /\ Filed(vault[i]) /\ (vault[i].type = "op" <=> kind = "op")
  BY ItemsAre DEF Inv, Filing
<1>2. Gone \notin Item /\ NoItem \notin Item
  BY ItemVaultAssumption
<1>3. ASSUME NEW i \in Ids, NEW f \in {"value", "api_key"}, NEW x \in Values \ Written, UserEdits(i, f, x)
      PROVE  Inv' /\ (Reading => Reading')
  <2> DEFINE y == [vault[i] EXCEPT !.fields[f] = x]
  <2>1. i \in Items /\ Meddle(i, y, vault[i].name)
    BY <1>3 DEF UserEdits
  <2>2. f \in Fields /\ x \in Held
    <3>1. {"value", "key", "api_key"} \subseteq Fields
      BY Zenon DEF Fields
    <3> QED BY <3>1 DEF Held
  <2>3. y \in Item /\ SameHead(vault[i], y) /\ y.name = vault[i].name
    BY <1>1, <2>1, <2>2 DEF Item, SameHead
  <2> HIDE DEF y
  <2>4. Filed(y) /\ (y.type = "op" <=> kind = "op")
    BY <1>1, <2>1, <2>3, HeadsAgree DEF SameHead
  <2>5. Replaces(vault[i], y, vault[i].name)
    BY <1>1, <2>1, <2>3 DEF Replaces
  <2> QED BY <2>1, <2>4, <2>5, MeddleStep
<1>4. ASSUME NEW i \in Ids, UserRemoves(i)
      PROVE  Inv' /\ (Reading => Reading')
  <2>1. i \in Items /\ Meddle(i, Gone, vault[i].name)
    BY <1>4 DEF UserRemoves
  <2>2. Replaces(vault[i], Gone, vault[i].name)
    BY <1>1, <1>2, <2>1 DEF Replaces
  <2> QED BY <1>2, <2>1, <2>2, MeddleStep
<1>5. ASSUME NEW i \in Ids, NEW j \in Ids, UserCopies(i, j)
      PROVE  Inv' /\ (Reading => Reading')
  <2>1. i \in Items /\ vault[j] = NoItem /\ Meddle(j, vault[i], vault[i].name)
    BY <1>5 DEF UserCopies
  <2>2. Replaces(vault[j], vault[i], vault[i].name)
    BY <1>1, <1>2, <2>1 DEF Replaces
  <2> QED BY <1>1, <2>1, <2>2, MeddleStep
<1> QED BY <1>3, <1>4, <1>5

-----------------------------------------------------------------------------
(* The invariant holds.                                                     *)
LEMMA InvInit == Init => Inv /\ Reading
<1> SUFFICES ASSUME Init PROVE Inv /\ Reading OBVIOUS
<1>1. Idle \in Calls /\ Idle.pc = "idle" /\ Idle.op = "get"
  BY ItemVaultAssumption DEF Idle, Calls, PCs, Held
<1>2. call = [p \in Procs |-> Idle] /\ settled = [a \in Addrs |-> Unset]
  BY DEF Init
<1>3. Knows(Idle, vault, kind) /\ Reads(Idle, vault, settled)
  BY <1>1 DEF Knows, Control, Finds, Active, Over, Reads, Owed
<1>4. /\ vault \in [Ids -> Item \cup {NoItem}]
      /\ \A i \in Ids : vault[i] # NoItem => Filed(vault[i]) /\ (vault[i].type = "op" <=> kind = "op")
  BY ItemVaultAssumption DEF Init
<1>5. vault \in [Ids -> Slots] /\ Filing
  BY <1>4 DEF Slots, Filing, Items
<1>6. kind \in Kinds /\ begun \in 0..MaxOps /\ meddled \in 0..MaxMeddling
  BY ItemVaultAssumption DEF Init
<1> QED BY <1>1, <1>2, <1>3, <1>5, <1>6 DEF Inv, Reading

LEMMA InvNext == Inv /\ [Next]_vars => Inv' /\ (HiddenAlone /\ Reading => Reading')
<1> SUFFICES ASSUME Inv, [Next]_vars PROVE Inv' /\ (HiddenAlone /\ Reading => Reading')
  OBVIOUS
<1>1. ASSUME NEW p \in Procs, NEW a \in Addrs, NEW op \in {"get", "batch"}, Begin(p, op, a, Unset)
      PROVE  Inv' /\ (HiddenAlone /\ Reading => Reading')
  BY <1>1, BeginStep
<1>2. ASSUME NEW p \in Procs, NEW a \in Addrs, NEW x \in Written, Begin(p, "set", a, x)
      PROVE  Inv' /\ (HiddenAlone /\ Reading => Reading')
  <2>1. x \in Values
    BY ItemVaultAssumption
  <2> QED BY <1>2, <2>1, BeginStep
<1>3. ASSUME NEW p \in Procs, \/ Fail(p) \/ Search(p) \/ SearchAgain(p) \/ Lookup(p)
                              \/ GetTemplate(p) \/ Edit(p)
      PROVE  Inv' /\ (HiddenAlone /\ Reading => Reading')
  BY <1>3, FailStep, SearchStep, SearchAgainStep, LookupStep, GetTemplateStep, EditStep
<1>4. ASSUME NEW p \in Procs, \/ Create(p) \/ OpGet(p) \/ OpList(p) \/ OpGetById(p) \/ OpEdit(p)
                              \/ Return(p)
      PROVE  Inv' /\ (HiddenAlone /\ Reading => Reading')
  BY <1>4, CreateStep, OpGetStep, OpListStep, OpGetByIdStep, OpEditStep, ReturnStep
<1>5. ASSUME NEW i \in Ids, \/ \E f \in {"value", "api_key"}, x \in Values \ Written : UserEdits(i, f, x)
                            \/ UserRemoves(i)
                            \/ \E j \in Ids : UserCopies(i, j)
      PROVE  Inv' /\ (HiddenAlone /\ Reading => Reading')
  BY <1>5, UserStep
<1>6. CASE UNCHANGED vars
  BY <1>6 DEF vars, Inv, Reading, Filing, Items
<1> QED BY <1>1, <1>2, <1>3, <1>4, <1>5, <1>6 DEF Next

(* A step that changes an item and moves a process is that process's write. *)
LEMMA TheWriter ==
    ASSUME Inv, [Next]_vars, NEW p \in Procs, NEW i \in Ids, Writes(p, i)
    PROVE  \/ Edit(p) /\ i = call[p].id /\ i \in Items /\ Write(p, i, Edited(call[p].tmpl, call[p].addr, call[p].value))
           \/ Create(p) /\ vault[i] = NoItem /\ Write(p, i, Template(call[p].addr, call[p].value))
           \/ /\ OpEdit(p) /\ i \in (IF At(p, "assign_id") THEN {call[p].id} \cap Items ELSE Titled(call[p].addr))
              /\ Write(p, i, Edited(vault[i], call[p].addr, call[p].value))
<1>1. vault' # vault /\ vault'[i] # vault[i] /\ call'[p].pc # call[p].pc
  BY DEF Writes
<1>2. ASSUME NEW q \in Procs, NEW c, Quietly(q, c) PROVE FALSE
  BY <1>1, <1>2 DEF Quietly
<1>3. ASSUME NEW j, NEW y, NEW name, Meddle(j, y, name) PROVE FALSE
  <2>1. call' = [q \in Procs |-> IF call[q].addr.item = name THEN [call[q] EXCEPT !.fresh = FALSE]
                                 ELSE call[q]]
    BY <1>3 DEF Meddle, Changes
  <2>2. call'[p].pc = call[p].pc
    BY <2>1 DEF Inv, Calls
  <2> QED BY <1>1, <2>2
<1>4. ASSUME NEW q \in Procs, NEW j, NEW y, Write(q, j, y) PROVE q = p /\ i = j
  <2>1. PICK ok \in BOOLEAN :
          Changes(j, y, call[q].addr.item,
                  [call EXCEPT ![q] = IF ok THEN Ends(call[q], Unset) ELSE Fails(call[q])],
                  call[q].addr, IF ok /\ call[q].fresh THEN call[q].value ELSE Unset)
    BY <1>4 DEF Write
  <2> DEFINE d     == IF ok THEN Ends(call[q], Unset) ELSE Fails(call[q])
             calls == [call EXCEPT ![q] = d]
  <2>2. /\ vault' = [vault EXCEPT ![j] = y]
        /\ call' = [r \in Procs |-> IF calls[r] = call[r] /\ call[r].addr.item = call[q].addr.item
                                    THEN [call[r] EXCEPT !.fresh = FALSE] ELSE calls[r]]
    BY <2>1, Zenon DEF Changes
  <2> HIDE DEF d
  <2>3. i = j
    BY <1>1, <2>2 DEF Inv
  <2>4. ASSUME q # p PROVE FALSE
    <3>1. calls[p] = call[p] /\ call[p] \in Calls
      BY <2>4 DEF Inv
    <3> HIDE DEF calls
    <3>2. call'[p] = call[p] \/ call'[p] = [call[p] EXCEPT !.fresh = FALSE]
      BY <2>2, <3>1
    <3> QED BY <1>1, <3>1, <3>2 DEF Calls
  <2> QED BY <2>3, <2>4
<1>5. ASSUME NEW q \in Procs, Edit(q)
      PROVE  Edit(p) /\ i = call[p].id /\ i \in Items /\ Write(p, i, Edited(call[p].tmpl, call[p].addr, call[p].value))
  <2>1. call[q].id \in Items /\ Write(q, call[q].id, Edited(call[q].tmpl, call[q].addr, call[q].value))
    BY <1>2, <1>5 DEF Edit
  <2>2. q = p /\ i = call[q].id
    BY <1>4, <2>1
  <2> QED BY <1>5, <2>1, <2>2
<1>6. ASSUME NEW q \in Procs, Create(q)
      PROVE  Create(p) /\ vault[i] = NoItem /\ Write(p, i, Template(call[p].addr, call[p].value))
  <2>1. PICK j \in Ids : vault[j] = NoItem /\ Write(q, j, Template(call[q].addr, call[q].value))
    BY <1>6 DEF Create
  <2>2. q = p /\ i = j
    BY <1>4, <2>1
  <2> QED BY <1>6, <2>1, <2>2
<1>7. ASSUME NEW q \in Procs, OpEdit(q)
      PROVE  /\ OpEdit(p) /\ i \in (IF At(p, "assign_id") THEN {call[p].id} \cap Items ELSE Titled(call[p].addr))
             /\ Write(p, i, Edited(vault[i], call[p].addr, call[p].value))
  <2>1. PICK j \in (IF At(q, "assign_id") THEN {call[q].id} \cap Items ELSE Titled(call[q].addr)) :
            Write(q, j, Edited(vault[j], call[q].addr, call[q].value))
    BY <1>2, <1>7 DEF OpEdit
  <2>2. q = p /\ i = j
    BY <1>4, <2>1
  <2> QED BY <1>7, <2>1, <2>2
<1>8. ASSUME NEW q \in Procs, NEW S, Answer(q, S) PROVE FALSE
  BY <1>2, <1>8 DEF Answer
<1>9. ASSUME NEW q \in Procs, Fail(q) \/ Search(q) \/ SearchAgain(q) \/ Lookup(q) \/ GetTemplate(q)
                              \/ OpGet(q) \/ OpList(q) \/ OpGetById(q) \/ Return(q)
      PROVE  FALSE
  <2>1. CASE Fail(q) \/ Lookup(q) \/ GetTemplate(q)
    BY <1>2, <2>1 DEF Fail, Lookup, GetTemplate
  <2>2. CASE Search(q) \/ SearchAgain(q)
    BY <1>2, <1>8, <2>2 DEF Search, SearchAgain
  <2>3. CASE OpGet(q)
    BY <1>2, <2>3 DEF OpGet
  <2>4. CASE OpList(q) \/ OpGetById(q) \/ Return(q)
    BY <1>2, <2>4 DEF OpList, OpGetById, Return
  <2> QED BY <1>9, <2>1, <2>2, <2>3, <2>4
<1>10. ASSUME NEW q \in Procs, NEW op, NEW a, NEW x, Begin(q, op, a, x) PROVE FALSE
  BY <1>1, <1>10 DEF Begin
<1>11. ASSUME NEW j \in Ids, \/ \E f \in {"value", "api_key"}, x \in Values \ Written : UserEdits(j, f, x)
                             \/ UserRemoves(j)
                             \/ \E k \in Ids : UserCopies(j, k)
       PROVE  FALSE
  BY <1>3, <1>11 DEF UserEdits, UserRemoves, UserCopies
<1>12. CASE UNCHANGED vars
  BY <1>1, <1>12 DEF vars
<1> QED BY <1>5, <1>6, <1>7, <1>9, <1>10, <1>11, <1>12 DEF Next

-----------------------------------------------------------------------------
LEMMA InvAlways == Spec => []Inv
<1>1. Init => Inv
  BY InvInit
<1>2. Inv /\ [Next]_vars => Inv'
  BY InvNext
<1> QED BY <1>1, <1>2, PTL DEF Spec

(* The type invariant: an operation with an id at hand was given it by the  *)
(* vault.                                                                   *)
THEOREM TypeCorrect == Spec => []TypeOK
BY InvAlways, InvTypes, PTL

(* A wrong secret is never answered with, by either provider, whatever the  *)
(* search finds and whoever changes the vault meanwhile.                    *)
THEOREM OnlyOwnAnswers == Spec => []AnswersBelong
<1>1. Inv => AnswersBelong
  BY DEF Inv, Knows, Finds, AnswersBelong, At
<1> QED BY <1>1, InvAlways, PTL

(* A read answers with what is in the vault under its address, provided no  *)
(* name that the CLI's search misses resembles another item's: a search     *)
(* that finds only other items is not made again.  What a read or a write   *)
(* of 1Password makes of a listing it cannot read is promised nothing.      *)
THEOREM RightAnswers ==
    ASSUME HiddenAlone
    PROVE  Spec => []AnswersAreRight
<1>1. Init => Inv /\ Reading
  BY InvInit
<1>2. Inv /\ Reading /\ [Next]_vars => Inv' /\ Reading'
  BY InvNext
<1>3. Inv /\ Reading => AnswersAreRight
  <2> SUFFICES ASSUME Inv, Reading, NEW p \in Procs
               PROVE  /\ LET c == call[p]
                         IN /\ At(p, "done") /\ c.op # "set" /\ c.fresh /\ c.expect # Unset
                            /\ c.op = "batch" => Cardinality(Titled(c.addr)) = 1
                            => c.ans = c.expect
                      /\ At(p, "done") /\ call[p].op # "set" /\ call[p].ans # Unset
                         => Within(call[p].tmpl, call[p].addr)
    BY DEF AnswersAreRight, ReadYourWrite, AnswersBelong
  <2> DEFINE c == call[p]
  <2>1. c \in Calls /\ Knows(c, vault, kind) /\ Reads(c, vault, settled) /\ c.addr \in Addrs
    BY DEF Inv, Reading, Calls
  <2>2. ASSUME c.pc = "done", c.op # "set", c.fresh, c.expect # Unset,
               c.op = "batch" => Cardinality(Titled(c.addr)) = 1
        PROVE  c.ans = c.expect
    <3>1. Owed(c) /\ settled[c.addr] = c.expect
      BY <2>1, <2>2 DEF Reads, Owed
    <3>2. ~Unresolved(c.addr)
      BY <2>1, <2>2, <3>1 DEF Inv, Settles
    <3>3. ASSUME c.op = "batch" PROVE \E i \in Ids : Meant(vault, c.addr) = {i}
      <4>1. c.addr.type = Unset
        BY <2>1, <3>3, ItemVaultAssumption DEF Knows, Control
      <4>2. Titled(c.addr) = Meant(vault, c.addr) /\ Meant(vault, c.addr) \subseteq Ids
        BY <2>1, <3>2, <4>1, TargetsAreMeant DEF Inv, Meant
      <4> QED BY <2>2, <3>3, <4>2, OneId
    <3> QED BY <2>1, <2>2, <3>1, <3>3 DEF Reads
  <2>3. c.pc = "done" /\ c.op # "set" /\ c.ans # Unset => Within(c.tmpl, c.addr)
    BY <2>1 DEF Knows, Finds
  <2> QED BY <2>2, <2>3 DEF At
<1> QED BY <1>1, <1>2, <1>3, PTL DEF Spec

(* What a write leaves in the slot it writes.                               *)
LEMMA WrittenIs ==
    ASSUME Inv, NEW p \in Procs, NEW i \in Ids, NEW y, Write(p, i, y)
    PROVE  vault'[i] = y
BY DEF Write, Changes, Inv

(* A write lands in the addressed item and scope: it never updates a        *)
(* same-named item of a sibling collection, and files a new item where the  *)
(* address looks.                                                           *)
THEOREM WritesLandThere == Spec => WritesStayInScope
<1>1. Inv /\ [Next]_vars
      => [\A p \in Procs, i \in Ids : Writes(p, i) => Within(vault'[i], call[p].addr)]_vars
  <2> SUFFICES ASSUME Inv, [Next]_vars, NEW p \in Procs, NEW i \in Ids, Writes(p, i)
               PROVE  Within(vault'[i], call[p].addr)
    OBVIOUS
  <2> DEFINE c == call[p]
  <2>1. c \in Calls /\ Knows(c, vault, kind) /\ c.addr \in Addrs
    BY DEF Inv, Calls
  <2>2. c.pc \in {"edit", "create", "assign", "assign_id"}
    BY DEF Writes
  <2>3. ~Unresolved(c.addr) /\ c.addr.kind = kind /\ c.value \in Values
    BY <2>1, <2>2 DEF Knows, Control, Active, Over
  <2>4. CASE Edit(p) /\ Write(p, i, Edited(c.tmpl, c.addr, c.value))
    <3>1. c.tmpl \in Item /\ Within(c.tmpl, c.addr)
      BY <2>1, <2>4 DEF Knows, Finds, Edit, At
    <3>2. Within(Edited(c.tmpl, c.addr, c.value), c.addr)
      BY <2>1, <2>3, <3>1, EditedFits, HeadsAgree
    <3> QED BY <2>4, <3>2, WrittenIs
  <2>5. CASE Create(p) /\ Write(p, i, Template(c.addr, c.value))
    <3>1. Within(Template(c.addr, c.value), c.addr)
      BY <2>1, <2>3, TemplateFits DEF Inv
    <3> QED BY <2>5, <3>1, WrittenIs
  <2>6. CASE /\ OpEdit(p) /\ i \in (IF At(p, "assign_id") THEN {c.id} \cap Items ELSE Titled(c.addr))
             /\ Write(p, i, Edited(vault[i], c.addr, c.value))
    <3>1. i \in Meant(vault, c.addr)
      <4>1. CASE c.pc = "assign_id"
        BY <2>1, <2>6, <4>1 DEF Knows, Finds, At, Items
      <4>2. CASE c.pc = "assign"
        <5>1. c.addr.type = Unset
          BY <2>1, <4>2, ItemVaultAssumption DEF Knows, Control
        <5>2. Titled(c.addr) = Meant(vault, c.addr)
          BY <2>1, <2>3, <5>1, TargetsAreMeant DEF Inv
        <5> QED BY <2>6, <4>2, <5>2 DEF At
      <4> QED BY <2>6, <4>1, <4>2 DEF OpEdit
    <3>2. vault[i] \in Item /\ Within(vault[i], c.addr)
      BY <3>1, MeantAre DEF Inv
    <3>3. Within(Edited(vault[i], c.addr, c.value), c.addr)
      BY <2>1, <2>3, <3>2, EditedFits, HeadsAgree
    <3> QED BY <2>6, <3>3, WrittenIs
  <2> HIDE DEF c
  <2> QED BY <2>4, <2>5, <2>6, TheWriter DEF c
<1> QED BY <1>1, InvAlways, PTL DEF Spec, WritesStayInScope

(* A second item of the same address is made in a race or after a 1Password *)
(* listing that could not be read, and never otherwise: a write that nobody *)
(* disturbed and that read what it looked up creates an item only where its *)
(* address means none.                                                      *)
THEOREM CopiesAreCaused == Spec => CopiesHaveACause
<1>1. Inv /\ [Next]_vars
      => [\A p \in Procs, i \in Ids :
            Writes(p, i) /\ At(p, "create") /\ call[p].fresh
            => \A j \in Items : ~Within(vault[j], call[p].addr)]_vars
  <2> SUFFICES ASSUME Inv, NEW p \in Procs, At(p, "create"), call[p].fresh, NEW j \in Items
               PROVE  ~Within(vault[j], call[p].addr)
    OBVIOUS
  <2>1. Meant(vault, call[p].addr) = {}
    BY DEF Inv, Knows, Finds, At
  <2> QED BY <2>1 DEF Meant, Items
<1> QED BY <1>1, InvAlways, PTL DEF Spec, CopiesHaveACause

(* A write changes one field of an existing item and nothing else of it,    *)
(* unless it is a bw write and the item changed since it began.             *)
THEOREM OthersKeep == Spec => OneFieldChanges
<1>1. Inv /\ [Next]_vars
      => [\A p \in Procs, i \in Ids :
            Writes(p, i) /\ i \in Items /\ (call[p].fresh \/ kind = "op")
            => vault'[i] = [vault[i] EXCEPT
                  !.fields[Target(call[p].addr, vault[i].type)] = call[p].value]]_vars
  <2> SUFFICES ASSUME Inv, [Next]_vars, NEW p \in Procs, NEW i \in Ids, Writes(p, i), i \in Items,
                      call[p].fresh \/ kind = "op"
               PROVE  vault'[i] = Edited(vault[i], call[p].addr, call[p].value)
    BY DEF Edited
  <2> DEFINE c == call[p]
  <2>1. Knows(c, vault, kind)
    BY DEF Inv
  <2>2. CASE Edit(p) /\ i = c.id /\ Write(p, i, Edited(c.tmpl, c.addr, c.value))
    <3>1. c.pc = "edit" /\ c.fresh
      BY <2>1, <2>2 DEF Edit, At, Knows, Control
    <3>2. c.tmpl = vault[i]
      BY <2>1, <2>2, <3>1 DEF Knows, Finds
    <3> QED BY <2>2, <3>2, WrittenIs
  <2>3. CASE vault[i] = NoItem
    BY <2>3 DEF Items
  <2>4. CASE Write(p, i, Edited(vault[i], c.addr, c.value))
    BY <2>4, WrittenIs
  <2> QED BY <2>2, <2>3, <2>4, TheWriter
<1> QED BY <1>1, InvAlways, PTL DEF Spec, OneFieldChanges
=============================================================================
