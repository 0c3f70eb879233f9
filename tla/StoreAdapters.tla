--------------------------- MODULE StoreAdapters ---------------------------
(***************************************************************************)
(* The providers that keep each secret in an entry of its own and reach it *)
(* by API requests or CLI invocations, one step each: AWS Secrets Manager  *)
(* and Parameter Store, Azure Key Vault, Google and Scaleway Secret        *)
(* Manager, Infisical, Bitwarden Secrets Manager, Keeper, Proton Pass,     *)
(* LastPass, Dashlane, keyring, pass, gopass, and the entries of a SOPS    *)
(* file.  They differ in how a write finds out whether the entry exists,   *)
(* in what a batch asks, and in what they take for "not there".            *)
(*                                                                         *)
(* Ghosts no guard reads: `stored` (what a name must read back as, when    *)
(* its last change is an undisturbed write), `held` (names somebody stored *)
(* and nobody removed), and `clean`, `failed`, `gaps`, `expect` of a call. *)
(***************************************************************************)
EXTENDS Naturals, FiniteSets, FiniteSetsExt

CONSTANTS
    Procs,      \* processes with a provider instance each
    Kinds,      \* the providers to choose from
    EntryNames, \* entry names
    Refs,       \* those a `ref` names; SecretSpec's convention names the others
    Ids,        \* identities the store may give to entries
    FirstId,    \* the identity of each name's entry at first
    Values,
    Written,    \* what processes write
    Old,        \* what the entries hold at first, and what the owner adds
    Trimmed,    \* a value without its surrounding white space
    FirstLine,  \* ... and without what follows its first line
    Unknown,    \* no value is expected
    Meddling,   \* what the owner of each store does: "removes", "adds", "doubles"
    MaxTrouble  \* failing calls, crashes and changes the store's owner makes

ReadOnlyRefs == {"awssm", "akv", "gcsm", "scaleway"}
Titled       == {"bws", "keeper", "protonpass", "lastpass", "dashlane"}
Ranked       == {"sops", "dashlane"}

ASSUME AdaptersAssumption ==
    /\ Kinds \subseteq ReadOnlyRefs \cup Titled \cup
           {"awsps", "infisical", "keyring", "pass", "gopass", "sops"}
    /\ EntryNames # {} /\ IsFiniteSet(EntryNames) /\ Refs \subseteq EntryNames
    /\ Written \subseteq Values /\ Old \in Values
    /\ Trimmed \in [Values -> Values] /\ FirstLine \in [Values -> Values]
    /\ Ids \subseteq Nat /\ FirstId \in [EntryNames -> Ids] /\ MaxTrouble \in Nat
    /\ \A m, n \in EntryNames : FirstId[m] = FirstId[n] => m = n
    /\ Meddling \in [Kinds -> SUBSET {"removes", "adds", "doubles"}]
    /\ Unknown \notin Values /\ "owner" \notin Procs
    /\ Values \cap {"empty", "hidden", "scheduled", "nothing", "error", "unasked"} = {}

(* A key is in a SOPS file once.                                            *)
ASSUME KeysAreSingle == "sops" \in Kinds => "doubles" \notin Meddling["sops"]

VARIABLES
    kind,     \* the provider
    guarded,  \* Infisical: writes need an approval
    place,    \* Infisical's folder, SOPS's file
    items,    \* the entries
    listing,  \* bws: the listing an instance keeps
    calls,    \* the operation of each process
    stored, held, \* see above
    trouble

storeVars == <<kind, guarded, place, items, listing, calls, stored, held, trouble>>

(* An entry may have no value: a secret without a version, a blank field, a *)
(* value the identity may not read, a secret that is being deleted.  Ranks  *)
(* are Dashlane's content types and the paths SOPS looks a key up under.    *)
Marks   == {"empty", "hidden", "scheduled"}
Item    == [id : Ids, name : EntryNames, rank : {1, 2}, value : Values \cup Marks]
Unlisted == {[id |-> 0]}

NoCall ==
    [pc |-> "done", op |-> "none", out |-> "none", name |-> CHOOSE n \in EntryNames : TRUE,
     value |-> "empty", todo |-> {}, got |-> [n \in EntryNames |-> "unasked"], rank |-> 1,
     seen |-> {}, id |-> 0, cached |-> FALSE, clean |-> TRUE, failed |-> FALSE,
     gaps |-> {}, expect |-> [n \in EntryNames |-> Unknown]]

Of(its, n) == {i \in its : i.name = n}
By(its, d) == {i \in its : i.id = d}

(* What reading an entry comes to.                                          *)
ReadAs(v) ==
    CASE kind \in {"pass", "lastpass"} -> Trimmed[v]
      [] kind = "gopass" -> FirstLine[v]
      [] OTHER -> v

HiddenIsOmitted(i) == IF i.value \in Marks THEN "nothing" ELSE ReadAs(i.value)
Shown(i) ==
    CASE i.value = "hidden" -> "error"
      [] i.value \in {"empty", "scheduled"} -> "nothing"
      [] OTHER -> ReadAs(i.value)

(* The names with no entry, or with one that holds nothing.                 *)
Bare(its, pl) ==
    {n \in EntryNames : \/ pl = "missing" \/ Of(its, n) = {}
                   \/ \E i \in Of(its, n) : i.value \in {"empty", "scheduled"}}

Starts(k) ==
    LET one(v, r)  == {[id |-> FirstId[n], name |-> n, rank |-> r, value |-> v] : n \in EntryNames \ Refs}
        both(v, r) == one(v, r) \cup {[id |-> FirstId[n], name |-> n, rank |-> 1, value |-> Old] : n \in Refs}
    IN {{}, both(Old, 1)}
       \cup (IF k \in {"gcsm", "scaleway", "protonpass", "lastpass", "dashlane"} THEN {both("empty", 1)} ELSE {})
       \cup (IF k \in Ranked THEN {both(Old, 2)} ELSE {})
       \cup (IF k = "infisical" THEN {both("hidden", 1)} ELSE {})
       \cup (IF k = "scaleway" THEN {both("scheduled", 1)} ELSE {})

StoresInit ==
    /\ kind \in Kinds /\ items \in Starts(kind)
    /\ guarded \in (IF kind = "infisical" THEN BOOLEAN ELSE {FALSE})
    /\ place \in CASE kind \in {"infisical", "sops"} /\ items = {} -> {"ready", "missing"}
                   [] kind = "sops" /\ items # {} -> {"ready", "plain"}
                   [] OTHER -> {"ready"}
    /\ listing = [p \in Procs |-> Unlisted] /\ calls = [p \in Procs |-> NoCall]
    /\ stored = [n \in EntryNames |-> Unknown]
    /\ held = {i.name : i \in {j \in items : j.value \in Values}}
    /\ trouble = 0
-----------------------------------------------------------------------------
At(p, k, pc) == kind = k /\ calls[p].pc = pc

Acks(c) == c.pc = "done" /\ c.op = "set" /\ c.out = "ok"

Reads(c) == c.op \in {"get", "batch"}

Touched(its) == {n \in EntryNames : Of(its, n) # Of(items, n)}

(* The call of p becomes c and the store its and pl, with the ghosts of     *)
(* every call under way.  What a call answered is there until the next step *)
(* of anyone.                                                               *)
Becomes(p, c, its, pl) ==
    LET changed == Touched(its)
        settled == Acks(c) /\ c.clean /\ (kind = "sops" \/ Cardinality(Of(its, c.name)) = 1)
        next == [n \in EntryNames |->
                    IF n = c.name /\ settled THEN c.value
                    ELSE IF n \in changed \/ (c.op \in {"set", "delete"} /\ n = c.name) THEN Unknown
                    ELSE stored[n]]
        watch(q, d) ==
            [d EXCEPT !.gaps = IF Reads(d) THEN @ \cup (Bare(its, pl) \cap d.todo) ELSE @,
                      !.clean = @ /\ (q = p \/ (d.todo \cup {d.name}) \cap changed = {}),
                      !.expect = [n \in EntryNames |-> IF next[n] = @[n] THEN @[n] ELSE Unknown]]
    IN /\ items' = its /\ place' = pl /\ stored' = next
       /\ held' = CASE Acks(c) -> held \cup {c.name}
                    [] c.op = "delete" -> held \ {c.name}
                    [] c = NoCall -> held \ {n \in changed : ~(Of(items, n) \subseteq Of(its, n))}
                    [] OTHER -> held
       /\ calls' = [q \in Procs |-> IF q = p THEN IF c.pc = "done" THEN c ELSE watch(q, c)
                                   ELSE IF calls[q].pc = "done" THEN NoCall ELSE watch(q, calls[q])]
       /\ UNCHANGED <<kind, guarded>>

Ended(p, out) == [calls[p] EXCEPT !.pc = "done", !.out = out]
Broken(p)     == [Ended(p, "error") EXCEPT !.failed = TRUE]

Troubled == trouble < MaxTrouble /\ trouble' = trouble + 1

(* A call that changes nothing, and one that may take effect although its   *)
(* answer is lost.                                                          *)
Moves(p, c) == Becomes(p, c, items, place) /\ UNCHANGED <<listing, trouble>>
Errs(p)     == Moves(p, Ended(p, "error"))
Goes(p, pc) == Moves(p, [calls[p] EXCEPT !.pc = pc])

Effects(p, c, its, pl) ==
    /\ UNCHANGED listing
    /\ \/ Becomes(p, c, its, pl) /\ UNCHANGED trouble
       \/ Troubled /\ Becomes(p, Broken(p), its, pl)

(* An identity is not given out again while a call remembers it.            *)
Fresh(its) ==
    {d \in Ids : By(its, d) = {} /\ \A q \in Procs : calls[q].id # d /\ By(calls[q].seen, d) = {}}

Room(its) == Fresh(its) # {}

Added(its, n, v) ==
    its \cup {[id |-> Min(Fresh(its)), name |-> n, rank |-> 1, value |-> v]}

(* A new value does not make an entry readable to who may not read it.     *)
Edited(its, old, v) ==
    (its \ {old}) \cup {[old EXCEPT !.value = IF @ = "hidden" THEN @ ELSE v]}

Stored(its, n, v) ==
    LET own == {i \in Of(its, n) : i.rank = 1}
    IN IF own = {} THEN Added(its, n, v) ELSE Edited(its, CHOOSE i \in own : TRUE, v)
-----------------------------------------------------------------------------
(* Reading.  `todo` are the names still asked for.                          *)
Asking(p, op, names) ==
    [NoCall EXCEPT !.op = op, !.todo = names, !.gaps = Bare(items, place) \cap names,
                 !.expect = [n \in EntryNames |-> IF n \in names THEN stored[n] ELSE Unknown],
                 !.pc = CASE kind = "dashlane" -> "type"
                          [] kind = "protonpass" /\ op = "batch" -> "list"
                          [] OTHER -> "read",
                 !.cached = (listing[p] # Unlisted)]

Get(p, n) == calls[p].pc = "done" /\ Moves(p, Asking(p, "get", {n}))

GetMany(p) == calls[p].pc = "done" /\ Moves(p, Asking(p, "batch", EntryNames))

(* What is learnt of some of the names; an error ends the operation.        *)
Learnt(c, f) ==
    LET left == c.todo \ DOMAIN f
        now  == [c EXCEPT !.todo = left,
                          !.got = [n \in EntryNames |-> IF n \in DOMAIN f THEN f[n] ELSE @[n]]]
    IN IF \E n \in DOMAIN f : f[n] = "error" THEN [c EXCEPT !.pc = "done", !.out = "error"]
       ELSE IF left = {} THEN [now EXCEPT !.pc = "done", !.out = "ok"]
       ELSE now

Answers(A, ns) == {f \in [ns -> UNION {A[n] : n \in ns}] : \A n \in ns : f[n] \in A[n]}

(* One name by a call of its own, as `get` and `get_each` do, or all the    *)
(* names by one call.                                                       *)
ReadsEach(p, k, A) ==
    /\ At(p, k, "read")
    /\ \E n \in calls[p].todo : \E f \in Answers(A, {n}) : Moves(p, Learnt(calls[p], f))

ReadsAll(p, k, A) ==
    /\ At(p, k, "read")
    /\ \E f \in Answers(A, calls[p].todo) : Moves(p, Learnt(calls[p], f))

OrNothing(answers) == IF answers = {} THEN {"nothing"} ELSE answers

Entry == [n \in EntryNames |-> OrNothing({Shown(i) : i \in Of(items, n)})]

GetSecretValue(p) == ReadsAll(p, "awssm", Entry)
GetParameters(p)  == ReadsAll(p, "awsps", Entry)
GetSecret(p)      == ReadsEach(p, "akv", Entry)
AccessVersion(p)  == ReadsEach(p, "gcsm", Entry)
AccessRevision(p) == ReadsEach(p, "scaleway", Entry)
GetPassword(p)    == ReadsEach(p, "keyring", Entry)
ShowEntry(p)      == ReadsEach(p, "pass", Entry)
ShowFirstLine(p)  == ReadsEach(p, "gopass", Entry)

(* A folder that is not there answers like one that is empty.               *)
InFolder == IF place = "missing" THEN [n \in EntryNames |-> {"nothing"}] ELSE Entry

ReadOne(p)    == calls[p].op = "get" /\ ReadsAll(p, "infisical", InFolder)
ListFolder(p) == calls[p].op = "batch" /\ ReadsAll(p, "infisical", InFolder)

(* One decryption answers every key; the first path that is there wins.     *)
First(its) == {i \in its : \A j \in its : i.rank <= j.rank}

Decrypt(p) ==
    ReadsAll(p, "sops",
        [n \in EntryNames |-> CASE place = "missing" -> {"nothing"}
                           [] place = "plain" -> {"error"}
                           [] OTHER -> OrNothing({Shown(i) : i \in First(Of(items, n))})])

(* Two records of one title are ambiguous.                                  *)
Records(p) ==
    ReadsAll(p, "keeper",
        [n \in EntryNames |-> IF Cardinality(Of(items, n)) > 1 THEN {"error"} ELSE Entry[n]])

(* An instance lists its project once; `get` takes the first entry of a     *)
(* name, a batch the last.                                                  *)
FromListing(p) ==
    /\ At(p, "bws", "read")
    /\ LET kept == IF listing[p] = Unlisted THEN items ELSE listing[p]
           pick(n) == {i \in Of(kept, n) : \A j \in Of(kept, n) :
                           IF calls[p].op = "get" THEN i.id <= j.id ELSE i.id >= j.id}
           A == [n \in EntryNames |-> OrNothing({Shown(i) : i \in pick(n)})]
       IN /\ listing' = [listing EXCEPT ![p] = kept]
          /\ \E f \in Answers(A, calls[p].todo) : Becomes(p, Learnt(calls[p], f), items, place)
    /\ UNCHANGED trouble

(* lpass does not choose between two entries of one name.                   *)
ShowPassword(p) ==
    ReadsEach(p, "lastpass",
        [n \in EntryNames |-> Entry[n] \cup (IF Cardinality(Of(items, n)) > 1 THEN {"error"} ELSE {})])

ViewByTitle(p) == ReadsEach(p, "protonpass", Entry)

(* The content types are listed one after another, until every name has its *)
(* value; two entries of a type and a name are ambiguous.                   *)
OfType(n, r) ==
    LET own == {i \in Of(items, n) : i.rank = r}
    IN IF Cardinality(own) > 1 THEN {"error"} ELSE OrNothing({Shown(i) : i \in own})

ListType(p) ==
    /\ At(p, "dashlane", "type")
    /\ LET c == calls[p]
           found == {n \in c.todo : c.rank = 2 \/ OfType(n, c.rank) # {"nothing"}}
       IN \E f \in Answers([n \in EntryNames |-> OfType(n, c.rank)], found) :
            Moves(p, [Learnt(c, f) EXCEPT !.rank = 2])

(* Proton Pass's batch lists the vault and keeps one entry of each title,   *)
(* then views them; a listing it cannot parse is empty, and an entry it     *)
(* cannot view is left out.                                                 *)
Viewing(c, found) ==
    [Learnt(c, [n \in {x \in c.todo : Of(found, x) = {}} |-> "nothing"]) EXCEPT
        !.pc = IF @ = "done" THEN @ ELSE "view", !.seen = found]

ListVault(p) ==
    /\ At(p, "protonpass", "list")
    /\ \E found \in SUBSET items :
        /\ \A n \in EntryNames : Cardinality(Of(found, n)) = (IF Of(items, n) = {} THEN 0 ELSE 1)
        /\ Moves(p, Viewing(calls[p], found))

Views(p) ==
    LET listed(n) == {j \in items : \E i \in Of(calls[p].seen, n) : i.id = j.id}
    IN Answers([n \in EntryNames |-> OrNothing({Shown(j) : j \in listed(n)})], calls[p].todo)

ViewListed(p) ==
    At(p, "protonpass", "view") /\ \E f \in Views(p) : Moves(p, Learnt(calls[p], f))

Unseen(p) ==
    /\ kind = "protonpass" /\ Troubled
    /\ \/ calls[p].pc = "list" /\ Becomes(p, Viewing(calls[p], {}), items, place)
       \/ /\ calls[p].pc = "view"
          /\ \E n \in calls[p].todo, f \in Views(p) :
                Becomes(p, Learnt(calls[p], [f EXCEPT ![n] = "nothing"]), items, place)
    /\ UNCHANGED listing
-----------------------------------------------------------------------------
(* Writing.                                                                 *)
Refuses(op, n) ==
    IF op = "set" THEN kind = "dashlane" \/ (kind \in ReadOnlyRefs /\ n \in Refs)
    ELSE kind \notin {"keyring", "pass", "gopass", "keeper"} \/ (kind = "keeper" /\ n \in Refs)

FirstStep(op) ==
    IF kind \in {"bws", "keeper", "protonpass", "lastpass"} THEN "look"
    ELSE IF op = "delete" THEN "remove"
    ELSE CASE kind \in {"awssm", "gcsm", "scaleway"} -> "create"
           [] kind = "infisical" -> "patch"
           [] kind = "sops" -> "lock"
           [] OTHER -> "put"

Changing(op, n, v) == [NoCall EXCEPT !.op = op, !.name = n, !.value = v, !.pc = FirstStep(op)]
Refused(op, n, v)  == [NoCall EXCEPT !.op = op, !.name = n, !.value = v, !.out = "error"]

Set(p, n, v) ==
    /\ calls[p].pc = "done"
    /\ Moves(p, IF Refuses("set", n) THEN Refused("set", n, v) ELSE Changing("set", n, v))

Delete(p, n) ==
    /\ calls[p].pc = "done" /\ ~Refuses("delete", n)
    /\ Moves(p, Changing("delete", n, "empty"))

Mine(p) == Of(items, calls[p].name)

(* The last call of a set or delete, which leaves its as the entries.       *)
Finishes(p, its) == Effects(p, Ended(p, "ok"), its, place)
Puts(p) == (Mine(p) # {} \/ Room(items)) /\ Finishes(p, Stored(items, calls[p].name, calls[p].value))
Adds(p) == Room(items) /\ Finishes(p, Added(items, calls[p].name, calls[p].value))

(* A change of the one entry found before; it may be gone.                  *)
Changes(p) ==
    \/ By(items, calls[p].id) = {} /\ Errs(p)
    \/ \E i \in By(items, calls[p].id) : Finishes(p, Edited(items, i, calls[p].value))

Fixes(p, i, pc) == Moves(p, [calls[p] EXCEPT !.pc = pc, !.id = i.id])

(* Stores that overwrite.                                                   *)
PutParameter(p)    == At(p, "awsps", "put") /\ Puts(p)
SetSecret(p)       == At(p, "akv", "put") /\ Puts(p)
SetPassword(p)     == At(p, "keyring", "put") /\ Puts(p)
InsertEntry(p)     == At(p, "pass", "put") /\ Puts(p)
InsertMultiline(p) == At(p, "gopass", "put") /\ Puts(p)

(* One call removes, and what is not there was removed.                     *)
DeletePassword(p) == At(p, "keyring", "remove") /\ Finishes(p, items \ Mine(p))
RemoveEntry(p)    == At(p, "pass", "remove") /\ Finishes(p, items \ Mine(p))
RemoveMultiline(p) == At(p, "gopass", "remove") /\ Finishes(p, items \ Mine(p))

(* AWS: create, and write over what turns out to exist.                     *)
CreateSecret(p) ==
    /\ At(p, "awssm", "create")
    /\ \/ Mine(p) = {} /\ Adds(p)
       \/ Mine(p) # {} /\ Goes(p, "put")

PutSecretValue(p) ==
    /\ At(p, "awssm", "put")
    /\ \/ Mine(p) = {} /\ Errs(p)
       \/ Mine(p) # {} /\ Puts(p)

(* Google: a secret without a version, and then the version.                *)
CreateContainer(p) ==
    /\ At(p, "gcsm", "create")
    /\ \/ Mine(p) # {} /\ Goes(p, "version")
       \/ /\ Mine(p) = {} /\ Room(items)
          /\ Effects(p, [calls[p] EXCEPT !.pc = "version"], Added(items, calls[p].name, "empty"), place)

AddVersion(p) ==
    /\ At(p, "gcsm", "version")
    /\ \/ Mine(p) = {} /\ Errs(p)
       \/ Mine(p) # {} /\ Puts(p)

(* Scaleway: the same by id, which is looked up when the secret exists, and *)
(* not found when it is being deleted.                                      *)
EnsureSecret(p) ==
    /\ At(p, "scaleway", "create")
    /\ \/ Mine(p) # {} /\ Goes(p, "lookup")
       \/ /\ Mine(p) = {} /\ Room(items)
          /\ LET its == Added(items, calls[p].name, "empty")
             IN Effects(p, [calls[p] EXCEPT !.pc = "post", !.id = (CHOOSE i \in its \ items : TRUE).id],
                        its, place)

LookupSecretId(p) ==
    /\ At(p, "scaleway", "lookup")
    /\ LET live == {i \in Mine(p) : i.value # "scheduled"}
       IN \/ live = {} /\ Errs(p)
          \/ \E i \in live : Fixes(p, i, "post")

PostVersion(p) == At(p, "scaleway", "post") /\ Changes(p)

(* Infisical: update, then create, then create the folder and create again. *)
(* Under an approval policy a write only asks for one.                      *)
ApprovalIsStored(p, its) == IF guarded THEN Moves(p, Ended(p, "ok")) ELSE Finishes(p, its)
Written200(p, its) == IF guarded THEN Errs(p) ELSE Finishes(p, its)

PatchSecret(p) ==
    /\ At(p, "infisical", "patch")
    /\ \/ Mine(p) = {} /\ Goes(p, "post")
       \/ Mine(p) # {} /\ Written200(p, Stored(items, calls[p].name, calls[p].value))

PostSecret(p) ==
    /\ At(p, "infisical", "post") \/ At(p, "infisical", "repost")
    /\ \/ place = "missing" /\ (IF calls[p].pc = "post" THEN Goes(p, "folder") ELSE Errs(p))
       \/ place # "missing" /\ Mine(p) # {} /\ Errs(p)
       \/ /\ place # "missing" /\ Mine(p) = {} /\ Room(items)
          /\ Written200(p, Added(items, calls[p].name, calls[p].value))

FolderRefusalFails(p) ==
    /\ At(p, "infisical", "folder")
    /\ \/ place = "missing" /\ Effects(p, [calls[p] EXCEPT !.pc = "repost"], items, "ready")
       \/ place # "missing" /\ Errs(p)

CreateFolder(p) ==
    /\ At(p, "infisical", "folder")
    /\ \/ place = "missing" /\ Effects(p, [calls[p] EXCEPT !.pc = "repost"], items, "ready")
       \/ place # "missing" /\ Goes(p, "repost")

(* Bitwarden Secrets Manager: a listing of its own decides, not the kept    *)
(* one, and leaves the kept one as it was.                                  *)
ListFresh(p) ==
    /\ At(p, "bws", "look")
    /\ \/ Mine(p) = {} /\ Goes(p, "add")
       \/ \E i \in Mine(p) : (\A j \in Mine(p) : i.id <= j.id) /\ Fixes(p, i, "edit")

BwsEdit(p)   == At(p, "bws", "edit") /\ Changes(p)
BwsCreate(p) == At(p, "bws", "add") /\ Adds(p)

(* Keeper: a record is created by convention only.                          *)
LookUpRecord(p) ==
    /\ At(p, "keeper", "look")
    /\ \/ Cardinality(Mine(p)) > 1 /\ Errs(p)
       \/ /\ Mine(p) = {}
          /\ CASE calls[p].op = "delete" -> Moves(p, Ended(p, "ok"))
               [] calls[p].op = "set" /\ calls[p].name \in Refs -> Errs(p)
               [] OTHER -> Goes(p, "add")
       \/ /\ Cardinality(Mine(p)) = 1
          /\ \E i \in Mine(p) : Fixes(p, i, IF calls[p].op = "delete" THEN "drop" ELSE "edit")

UpdateRecord(p) == At(p, "keeper", "edit") /\ Changes(p)
CreateRecord(p) == At(p, "keeper", "add") /\ Adds(p)

DropRecord(p) ==
    /\ At(p, "keeper", "drop")
    /\ \/ By(items, calls[p].id) = {} /\ Errs(p)
       \/ By(items, calls[p].id) # {} /\ Finishes(p, items \ By(items, calls[p].id))

(* Proton Pass: an entry is replaced, never edited.                         *)
LookUpTitle(p) ==
    /\ At(p, "protonpass", "look")
    /\ \/ Mine(p) = {} /\ Goes(p, "add")
       \/ \E i \in Mine(p) : Fixes(p, i, "drop")
       \/ /\ Troubled
          /\ Becomes(p, [calls[p] EXCEPT !.pc = "add"], items, place)
          /\ UNCHANGED listing

DeleteNote(p) ==
    /\ At(p, "protonpass", "drop")
    /\ \/ By(items, calls[p].id) = {} /\ Errs(p)
       \/ /\ By(items, calls[p].id) # {}
          /\ Effects(p, [calls[p] EXCEPT !.pc = "add"], items \ By(items, calls[p].id), place)

CreateNote(p) == At(p, "protonpass", "add") /\ Adds(p)

(* LastPass: the entry is read to see whether to edit or to add; one with a *)
(* blank password reads as if it were not there.                            *)
LookUpItem(p) ==
    /\ At(p, "lastpass", "look")
    /\ \/ Cardinality(Mine(p)) > 1 /\ Errs(p)
       \/ /\ Cardinality(Mine(p)) <= 1
          /\ Goes(p, IF \A i \in Mine(p) : Shown(i) = "nothing" THEN "add" ELSE "edit")

EditItem(p) ==
    /\ At(p, "lastpass", "edit")
    /\ \/ Cardinality(Mine(p)) # 1 /\ Errs(p)
       \/ Cardinality(Mine(p)) = 1 /\ Puts(p)

AddItem(p) == At(p, "lastpass", "add") /\ Adds(p)

(* SOPS: under a lock, a copy of the file (encrypted first if it is plain,  *)
(* an empty one if there is none) gets the value and replaces the file.     *)
Unlocked(p) == At(p, "sops", "lock") /\ Goes(p, "copy")

LockFile(p) ==
    /\ At(p, "sops", "lock")
    /\ \A q \in Procs : calls[q].pc \notin {"copy", "persist"}
    /\ Goes(p, "copy")

CopyFile(p) ==
    /\ At(p, "sops", "copy")
    /\ Moves(p, [calls[p] EXCEPT !.pc = "persist", !.seen = items])

Persist(p) ==
    /\ At(p, "sops", "persist")
    /\ LET c == calls[p] IN
        /\ Room(c.seen) \/ \E i \in Of(c.seen, c.name) : i.rank = 1
        /\ Becomes(p, Ended(p, "ok"), Stored(c.seen, c.name, c.value), "ready")
    /\ UNCHANGED <<listing, trouble>>
-----------------------------------------------------------------------------
(* A call that fails before it has an effect, a process that dies, a new    *)
(* instance of Bitwarden Secrets Manager, and changes by the store's owner. *)
CallFails(p) ==
    /\ calls[p].pc \notin {"done", "view"} /\ Troubled
    /\ Becomes(p, Broken(p), items, place)
    /\ UNCHANGED listing

(* A store that has no identity left refuses what would add an entry.       *)
Full(p) ==
    /\ ~Room(items) /\ calls[p].pc \in {"add", "create", "put", "post", "repost", "persist"}
    /\ Moves(p, Broken(p))

Crash(p) ==
    /\ calls[p].pc # "done" /\ Troubled
    /\ Becomes(p, NoCall, items, place)
    /\ listing' = [listing EXCEPT ![p] = Unlisted]

Reopen(p) ==
    /\ listing[p] # Unlisted /\ calls[p].pc = "done"
    /\ listing' = [listing EXCEPT ![p] = Unlisted]
    /\ Becomes(p, NoCall, items, place)
    /\ UNCHANGED trouble

Owner == "owner"

Meddles(its) ==
    /\ Troubled
    /\ Becomes(Owner, NoCall, its, place)
    /\ UNCHANGED listing

OwnerRemoves == "removes" \in Meddling[kind] /\ \E i \in items : Meddles(items \ {i})

OwnerAdds ==
    /\ place = "ready" /\ Room(items)
    /\ \E n \in EntryNames :
        /\ (IF Of(items, n) = {} THEN "adds" ELSE "doubles") \in Meddling[kind]
        /\ Meddles(Added(items, n, Old))

Reading(p) ==
    \/ GetSecretValue(p) \/ GetParameters(p) \/ GetSecret(p) \/ AccessVersion(p)
    \/ AccessRevision(p) \/ GetPassword(p) \/ ShowEntry(p) \/ ShowFirstLine(p)
    \/ ReadOne(p) \/ ListFolder(p) \/ Decrypt(p) \/ Records(p) \/ FromListing(p) \/ ShowPassword(p)
    \/ ViewByTitle(p) \/ ListVault(p) \/ ViewListed(p) \/ Unseen(p) \/ ListType(p)

Writing(p) ==
    \/ PutParameter(p) \/ SetSecret(p) \/ SetPassword(p) \/ InsertEntry(p) \/ InsertMultiline(p)
    \/ DeletePassword(p) \/ RemoveEntry(p) \/ RemoveMultiline(p)
    \/ CreateSecret(p) \/ PutSecretValue(p) \/ CreateContainer(p) \/ AddVersion(p)
    \/ EnsureSecret(p) \/ LookupSecretId(p) \/ PostVersion(p)
    \/ PatchSecret(p) \/ PostSecret(p) \/ CreateFolder(p)
    \/ ListFresh(p) \/ BwsEdit(p) \/ BwsCreate(p)
    \/ LookUpRecord(p) \/ UpdateRecord(p) \/ CreateRecord(p) \/ DropRecord(p)
    \/ LookUpTitle(p) \/ DeleteNote(p) \/ CreateNote(p)
    \/ LookUpItem(p) \/ EditItem(p) \/ AddItem(p)
    \/ LockFile(p) \/ CopyFile(p) \/ Persist(p)

StoresNext ==
    \/ \E p \in Procs :
        \/ \E n \in EntryNames : Get(p, n) \/ Delete(p, n) \/ \E v \in Written : Set(p, n, v)
        \/ GetMany(p) \/ Reading(p) \/ Writing(p) \/ CallFails(p) \/ Full(p) \/ Crash(p) \/ Reopen(p)
    \/ OwnerRemoves \/ OwnerAdds

StoresSpec == StoresInit /\ [][StoresNext]_storeVars
-----------------------------------------------------------------------------
Operation ==
    [pc : {"done", "read", "type", "list", "view", "look", "remove", "create", "patch", "lock", "put",
           "version", "lookup", "post", "folder", "repost", "edit", "add", "drop", "copy", "persist"},
     op : {"none", "get", "batch", "set", "delete"}, out : {"none", "ok", "error"},
     name : EntryNames, value : Values \cup {"empty"}, todo : SUBSET EntryNames,
     got : [EntryNames -> Values \cup {"unasked", "nothing", "error"}], rank : {1, 2},
     seen : SUBSET Item, id : Nat, cached : BOOLEAN, clean : BOOLEAN, failed : BOOLEAN,
     gaps : SUBSET EntryNames, expect : [EntryNames -> Values \cup {Unknown}]]

StoresTypeOK ==
    /\ kind \in Kinds /\ guarded \in BOOLEAN /\ place \in {"ready", "missing", "plain"}
    /\ items \subseteq Item /\ held \subseteq EntryNames /\ trouble \in 0 .. MaxTrouble
    /\ stored \in [EntryNames -> Values \cup {Unknown}]
    /\ listing \in [Procs -> (SUBSET Item) \cup {Unlisted}]
    /\ calls \in [Procs -> Operation]

Answered(c, n) == Reads(c) /\ c.pc = "done" /\ c.out = "ok" /\ c.got[n] # "unasked"
Kept(c)        == kind = "bws" /\ c.cached
Forgiving(c)   == kind = "protonpass" /\ c.op = "batch"

(* What a write that nothing disturbed stored is what later reads answer,   *)
(* as the provider reads (trimmed, or its first line), for as long as no    *)
(* other change of that name is under way: through create-then-update,      *)
(* lookups, folders made on the way and copies of a file.  Not promised of  *)
(* a Bitwarden Secrets Manager instance that had listed its project before. *)
ReadYourWrite ==
    \A p \in Procs, n \in EntryNames :
        LET c == calls[p] IN
        /\ Answered(c, n) /\ ~Kept(c) /\ c.expect[n] # Unknown
        /\ ~(Forgiving(c) /\ c.got[n] = "nothing")
        => c.got[n] = ReadAs(c.expect[n])

(* A read answers "not there" only of what was not there (or blank) at some *)
(* moment of the read, and never of what could not be read.  Not promised   *)
(* of a kept listing, of Proton Pass's batch, which leaves out what it      *)
(* cannot view, and of Dashlane when the owner moves entries between the    *)
(* listings of two content types.                                           *)
AbsenceIsReal ==
    \A p \in Procs, n \in EntryNames :
        LET c == calls[p] IN
        /\ Answered(c, n) /\ c.got[n] = "nothing" /\ ~Kept(c)
        /\ ~Forgiving(c) /\ ~(kind = "dashlane" /\ ~c.clean)
        => n \in c.gaps

(* A name that was stored and that nobody removed keeps a value, whatever   *)
(* writes of it and of its neighbours fail, die or overlap: no provider but *)
(* Proton Pass takes the old value away before the new one is there, and    *)
(* SOPS's writers do not put back each other's file.                        *)
NothingLost ==
    kind # "protonpass" =>
        \A n \in held : \E i \in Of(items, n) : i.value \in Values \cup {"hidden"}

(* Why a write that no failure and nobody else disturbed may be refused.    *)
Declined(c) ==
    LET own == Of(items, c.name) IN
    \/ Refuses("set", c.name) \/ guarded
    \/ kind \in {"keeper", "lastpass"} /\ Cardinality(own) > 1
    \/ kind = "keeper" /\ own = {} /\ c.name \in Refs
    \/ \E i \in own : i.value = "scheduled"

(* A write that no failure and no other writer of its name disturbs ends    *)
(* well, whatever an earlier write left half done (a secret without a       *)
(* version, a folder without a secret) and whoever makes the folder first.  *)
RetriesSucceed ==
    [][\A p \in Procs :
        LET c == calls'[p] IN
        calls'[p] # calls[p] /\ c.op = "set" /\ c.out = "error" /\ c.clean /\ ~c.failed
        => Declined(c)]_storeVars

(* What the code does not keep, each refuted by a configuration of its own: *)
(* an instance of Bitwarden Secrets Manager that has listed its project     *)
(* reads back what it writes (the delete-source import reads the            *)
(* destination, writes it, and verifies it with one instance);              *)
OwnWritesAreSeen ==
    \A p \in Procs, n \in EntryNames :
        LET c == calls[p] IN
        Answered(c, n) /\ c.expect[n] # Unknown => c.got[n] = ReadAs(c.expect[n])

(* a batch of Proton Pass answers "not there" only of what is not there;    *)
BatchAbsenceIsReal ==
    \A p \in Procs, n \in EntryNames :
        LET c == calls[p] IN Answered(c, n) /\ c.got[n] = "nothing" => n \in c.gaps

(* and a failing write of Proton Pass leaves the value it was to replace.   *)
ReplacingKeeps ==
    \A n \in held : \E i \in Of(items, n) : i.value \in Values \cup {"hidden"}
=============================================================================
