------------------------------ MODULE Manifest ------------------------------
(***************************************************************************)
(* From manifests on disk to a typed load.  A manifest and those it        *)
(* extends are read depth first and overlaid, profiles inherit from        *)
(* `default`, the effective manifest is validated, and the types that the  *)
(* derive macro and the JSON schema give a program are computed from it.   *)
(* Later the program resolves a profile and fills those types, or is run   *)
(* with the secrets a scope admits.                                        *)
(***************************************************************************)
EXTENDS Integers, Sequences, FiniteSets, SequencesExt

CONSTANTS
    Docs,     \* manifest files; Root is the one given
    Root,
    Profiles, \* profile names, Default among them
    Default,
    Names,    \* secret names
    Groups,   \* names of presence groups
    Worlds,   \* what the files may hold: see World
    Unset

(* A secret as written: which fields it sets.  `composed` is the set of     *)
(* names its template refers to.  A document may list the secrets of the    *)
(* one scope there is; Unset in the list is a blank name.                   *)
Tri    == BOOLEAN \cup {Unset}
Secret == [described : BOOLEAN, required : Tri, at_least : SUBSET Groups, exactly : SUBSET Groups,
           default : BOOLEAN, generate : Tri, composed : SUBSET Names,
           providers : Docs \cup {Unset}]
Defaults == [required : Tri, default : BOOLEAN]
Table    == [defaults : Defaults \cup {Unset}, secrets : [Names -> Secret \cup {Unset}]]
Document == [Profiles -> Table \cup {Unset}]
World    == [extends : [Docs -> Seq(Docs \cup {Unset})], text : [Docs -> Document],
             scope : [Docs -> Seq(Names \cup {Unset}) \cup {Unset}]]

ASSUME ManifestAssumption ==
    /\ Root \in Docs /\ Default \in Profiles
    /\ IsFiniteSet(Docs) /\ IsFiniteSet(Names)
    /\ Unset \notin Table                       \* what is absent is no profile
    /\ \A w \in Worlds : /\ w.text \in [Docs -> Document]
                         /\ \A d \in Docs : w.extends[d] \in Seq(Docs \cup {Unset})
                         /\ \A d \in Docs :
                                w.scope[d] \in Seq(Names \cup {Unset}) \cup {Unset}

VARIABLES
    world,     \* the files
    phase,     \* what happens next, or how it ended
    stack,     \* the visits in progress: each document, and its parents to come
    documents, \* the documents emitted, the least specific first
    merged,    \* the manifest they overlay to
    types,     \* the generated types
    use        \* a typed load or a run under the scope: its profile, what the
               \* stores hold, what it got, and a run's environments

manifestVars == <<world, phase, stack, documents, merged, types, use>>

NoUse == [profile |-> Default, stored |-> {}, scope |-> Names, outcome |-> "none", got |-> {},
          inherited |-> {}, child |-> {}]

ManifestInit ==
    /\ world \in Worlds
    /\ phase = "visit"
    /\ stack = <<[doc |-> Root, parents |-> world.extends[Root]]>>
    /\ documents = <<>>
    /\ merged = Unset /\ types = Unset
    /\ use = NoUse

Active  == {stack[i].doc : i \in DOMAIN stack}
Emitted == ToSet(documents)
-----------------------------------------------------------------------------
(* The inheritance graph.  A parent already emitted is an ancestor shared   *)
(* by two branches; one whose visit is in progress closes a cycle.          *)
Skips(d) == d \in Emitted
Closes(d) == d \in Active

VisitParent ==
    /\ phase = "visit"
    /\ LET top  == Last(stack)
           d    == Head(top.parents)
           rest == [top EXCEPT !.parents = Tail(top.parents)]
       IN /\ top.parents # <<>>
          /\ \/ d = Unset /\ phase' = "not_found" /\ UNCHANGED stack
             \/ d # Unset /\ Skips(d) /\ stack' = Front(stack) \o <<rest>> /\ UNCHANGED phase
             \/ d # Unset /\ ~Skips(d) /\ Closes(d) /\ phase' = "circular" /\ UNCHANGED stack
             \/ /\ d # Unset /\ ~Skips(d) /\ ~Closes(d)
                /\ stack' = Front(stack) \o <<rest, [doc |-> d, parents |-> world.extends[d]]>>
                /\ UNCHANGED phase
    /\ UNCHANGED <<world, documents, merged, types, use>>

Emit ==
    /\ phase = "visit"
    /\ LET top == Last(stack)
       IN /\ top.parents = <<>>
          /\ documents' = Append(documents, top.doc)
          /\ stack' = Front(stack)
          /\ phase' = IF Len(stack) = 1 THEN "merge" ELSE "visit"
    /\ UNCHANGED <<world, merged, types, use>>

(* A later document replaces a secret whole; a profile's `[defaults]` keep  *)
(* the fields it leaves unset.                                              *)
OverlayDefaults(earlier, later) ==
    IF later = Unset THEN earlier ELSE IF earlier = Unset THEN later
    ELSE [required |-> IF later.required = Unset THEN earlier.required ELSE later.required,
          default  |-> later.default \/ earlier.default]

OverlayTable(earlier, later) ==
    IF later = Unset THEN earlier ELSE IF earlier = Unset THEN later
    ELSE [defaults |-> OverlayDefaults(earlier.defaults, later.defaults),
          secrets  |-> [n \in Names |-> IF later.secrets[n] = Unset THEN earlier.secrets[n]
                                        ELSE later.secrets[n]]]

OverlayEarlier(earlier, later) == [p \in Profiles |-> OverlayTable(later[p], earlier[p])]
Overlay(earlier, later) == [p \in Profiles |-> OverlayTable(earlier[p], later[p])]

Overlaid ==
    LET upto[k \in 0..(Len(documents) - 1)] ==
            IF k = 0 THEN world.text[documents[1]]
            ELSE Overlay(upto[k - 1], world.text[documents[k + 1]])
    IN upto[Len(documents) - 1]

Merge ==
    /\ phase = "merge"
    /\ merged' = Overlaid
    /\ phase' = "validate"
    /\ UNCHANGED <<world, stack, documents, types, use>>
-----------------------------------------------------------------------------
(* A secret of a profile: its own entry, field by field, then the default   *)
(* profile's, then the profile's `[defaults]`; requiredness is inherited as *)
(* one field, and storage defaults do not apply to a composed secret.       *)
SetsRequired(s) == s.required # Unset \/ s.at_least # {} \/ s.exactly # {}

Resolved(own, base, defaults) ==
    LET blank == [described |-> FALSE, required |-> Unset, at_least |-> {}, exactly |-> {},
                  default |-> FALSE, generate |-> Unset, composed |-> {}, providers |-> Unset]
        c     == IF own = Unset THEN blank ELSE own
        b     == IF base = Unset THEN blank ELSE base
        d     == IF defaults = Unset THEN [required |-> Unset, default |-> FALSE] ELSE defaults
        comp  == IF c.composed # {} THEN c.composed ELSE b.composed
        from  == IF SetsRequired(c) THEN c ELSE IF SetsRequired(b) THEN b
                 ELSE [blank EXCEPT !.required = d.required]
    IN [described |-> c.described \/ b.described,
        required  |-> from.required, at_least |-> from.at_least, exactly |-> from.exactly,
        default   |-> c.default \/ b.default \/ (comp = {} /\ d.default),
        generate  |-> IF c.generate # Unset THEN c.generate ELSE b.generate,
        composed  |-> comp,
        providers |-> IF c.providers # Unset THEN c.providers ELSE b.providers]

Declares(p) == merged[p] # Unset
Own(p, n)   == merged[p].secrets[n]
Base(p, n)  == IF p = Default \/ ~Declares(Default) THEN Unset ELSE merged[Default].secrets[n]
NamesOf(p)  == {n \in Names : Own(p, n) # Unset \/ Base(p, n) # Unset}
Effective(p, n) == Resolved(Own(p, n), Base(p, n), merged[p].defaults)

(* What happens when no provider has the secret, decided once.              *)
Generates(s)  == s.generate = TRUE
Grouped(s)    == s.at_least # {} \/ s.exactly # {}
MustHave(s)   == IF s.required # Unset THEN s.required ELSE ~s.default /\ ~Grouped(s)
Policy(s) ==
    IF Generates(s) THEN "generate" ELSE IF s.default THEN "use_default"
    ELSE IF MustHave(s) THEN "error" ELSE "omit"
Guaranteed(s) == Policy(s) # "omit"

Members(p, kind, g) == {n \in NamesOf(p) : g \in Effective(p, n)[kind]}

(* The names that n's template reaches in one or more steps.                *)
Deps(p) == [n \in NamesOf(p) |-> Effective(p, n).composed]
Reached(deps) ==
    LET after[k \in 0..Cardinality(DOMAIN deps)] ==
            IF k = 0 THEN deps
            ELSE [n \in DOMAIN deps |->
                    after[k - 1][n] \cup UNION {deps[m] : m \in after[k - 1][n] \cap DOMAIN deps}]
    IN after[Cardinality(DOMAIN deps)]

AcyclicDirect(p) == \A n \in NamesOf(p) : n \notin Deps(p)[n]
Acyclic(p) == \A n \in NamesOf(p) : n \notin Reached(Deps(p))[n]
ValidGraph(p) ==
    /\ \A n \in NamesOf(p) : Deps(p)[n] \subseteq NamesOf(p)
    /\ Acyclic(p)

ValidRaw(p) ==
    /\ \/ \E n \in Names : Own(p, n) # Unset
       \/ p # Default /\ Declares(Default)
    /\ \A n \in Names : Own(p, n) # Unset => ~(Own(p, n).required = TRUE /\ Own(p, n).default)

ValidSecret(s) ==
    /\ s.described
    /\ ~(s.required = TRUE /\ Grouped(s))
    /\ s.composed # {} => ~s.default /\ s.providers = Unset /\ ~Generates(s)
    /\ ~(Generates(s) /\ s.default)

ValidGroups(p) ==
    \A g \in Groups :
        LET least == Members(p, "at_least", g)
            one   == Members(p, "exactly", g)
        IN /\ least = {} \/ one = {}
           /\ Cardinality(least) # 1 /\ Cardinality(one) # 1

(* The scope as the documents overlay to it; the names it lists must be     *)
(* declared, in whichever profile.                                          *)
DeclaredNames == UNION {NamesOf(p) : p \in {q \in Profiles : Declares(q)}}

Listed ==
    LET setters == {i \in DOMAIN documents : world.scope[documents[i]] # Unset}
    IN IF setters = {} THEN Unset ELSE world.scope[documents[Max(setters)]]

ValidScope ==
    Listed # Unset => /\ Listed # <<>>
                      /\ IsInjective(Listed)
                      /\ ToSet(Listed) \subseteq DeclaredNames

Valid ==
    /\ ValidScope
    /\ \E p \in Profiles : Declares(p)
    /\ \A p \in Profiles : Declares(p) =>
        /\ ValidRaw(p)
        /\ \A n \in NamesOf(p) : ValidSecret(Effective(p, n))
        /\ ValidGroups(p)
        /\ ValidGraph(p)

(* The types: a profile's fields, and the union over all profiles, where a  *)
(* field is optional unless every profile guarantees it.                    *)
Mandatory(p)   == {n \in NamesOf(p) : Guaranteed(Effective(p, n))}
UnionMandatory == {n \in Names : \A p \in Profiles : Declares(p) => n \in Mandatory(p)}

Validate ==
    /\ phase = "validate"
    /\ phase' = IF Valid THEN "ready" ELSE "invalid"
    /\ types' = IF Valid THEN [union    |-> UnionMandatory,
                               profiles |-> [p \in {q \in Profiles : Declares(q)} |-> Mandatory(p)]]
                ELSE Unset
    /\ UNCHANGED <<world, stack, documents, merged, use>>
-----------------------------------------------------------------------------
(* Resolving a profile with what the stores hold: generators and defaults   *)
(* fill gaps, and a composed secret is there when all it refers to is.      *)
Filled(p, stored) ==
    {n \in NamesOf(p) : /\ Deps(p)[n] = {}
                        /\ n \in stored \/ Policy(Effective(p, n)) \in {"generate", "use_default"}}

Present(p, stored) ==
    LET round[k \in 0..Cardinality(Names)] ==
            IF k = 0 THEN Filled(p, stored)
            ELSE round[k - 1] \cup {n \in NamesOf(p) : /\ Deps(p)[n] # {}
                                                     /\ Deps(p)[n] \subseteq round[k - 1]}
    IN round[Cardinality(Names)]

Fails(p, there, visible) ==
    \/ \E n \in NamesOf(p) \cap visible : Policy(Effective(p, n)) = "error" /\ n \notin there
    \/ \E g \in Groups : LET least == Members(p, "at_least", g) \cap visible
                             one   == Members(p, "exactly", g) \cap visible
                         IN \/ least # {} /\ least \cap there = {}
                            \/ one # {} /\ Cardinality(one \cap there) # 1

(* A typed load resolves the whole profile, whatever SECRETSPEC_SCOPE says. *)
Visible(scope) == Names

TypedLoad(p, stored, scope) ==
    /\ phase = "ready"
    /\ Declares(p)
    /\ LET seen  == Visible(scope)
           there == Present(p, stored) \cap seen
       IN use' = [NoUse EXCEPT !.profile = p, !.stored = stored, !.scope = scope, !.got = there,
                  !.outcome = IF Fails(p, there, seen) THEN "unresolved" ELSE "resolved"]
    /\ phase' = "used"
    /\ UNCHANGED <<world, stack, documents, merged, types>>

Admitted == ToSet(Listed)

(* A run under the scope judges and hands on what the scope admits, and     *)
(* takes from the environment it inherits what other consumers were given,  *)
(* in whatever profile: the parent's shell may hold any of it.              *)
ExcludedHere(p) == NamesOf(p) \ Admitted
Excluded(p) == DeclaredNames \ Admitted

ScopedRun(p, stored, inherited) ==
    /\ phase = "ready"
    /\ Declares(p) /\ Listed # Unset
    /\ LET members == Admitted
           there   == Present(p, stored)
           failed  == Fails(p, there, members)
           got     == IF failed THEN {} ELSE there \cap members
       IN use' = [NoUse EXCEPT !.profile = p, !.stored = stored, !.scope = members,
                  !.inherited = inherited, !.got = got,
                  !.outcome = IF failed THEN "unresolved" ELSE "ran",
                  !.child   = IF failed THEN {} ELSE (inherited \cup got) \ Excluded(p)]
    /\ phase' = "used"
    /\ UNCHANGED <<world, stack, documents, merged, types>>

ManifestNext ==
    \/ VisitParent \/ Emit \/ Merge \/ Validate
    \/ \E p \in Profiles, stored, scope \in SUBSET Names : TypedLoad(p, stored, scope)
    \/ \E p \in Profiles, stored, inherited \in SUBSET Names : ScopedRun(p, stored, inherited)

ManifestSpec == ManifestInit /\ [][ManifestNext]_manifestVars
-----------------------------------------------------------------------------
Phases == {"visit", "not_found", "circular", "merge", "validate", "invalid", "ready", "used"}

(* The stack is a path of the graph, each document at most once.            *)
ManifestTypeOK ==
    /\ phase \in Phases
    /\ \A i \in DOMAIN stack : stack[i].doc \in Docs
    /\ Cardinality(Active) = Len(stack)
    /\ documents \in Seq(Docs)
    /\ merged \in Document \cup {Unset}
    /\ use.got \subseteq Names

(* d extends e, directly or through others, told from the files alone.      *)
Parents(d) == ToSet(world.extends[d]) \ {Unset}
Above == Reached([d \in Docs |-> Parents(d)])

(* A manifest that can be loaded is: the load fails for a cycle only if one *)
(* is reachable, always if one is, and every document above the root is     *)
(* read once, after all that it extends (config.rs, ConfigGraphLoader).     *)
CyclesAreFound ==
    LET reach == Above[Root] \cup {Root}
    IN /\ phase = "circular" => \E d \in reach : d \in Above[d]
       /\ phase = "merge" => /\ \A d \in reach : d \notin Above[d]
                             /\ Emitted = reach
                             /\ Len(documents) = Cardinality(reach)
                             /\ \A i, j \in DOMAIN documents :
                                    documents[j] \in Above[documents[i]] => j < i

(* "Child definitions completely replace parent definitions": no document's *)
(* definition of a secret survives that of one that extends it.             *)
ChildrenWin ==
    phase \in {"validate", "ready", "used"} =>
    \A p \in Profiles, n \in Names :
        LET Defines(d) == world.text[d][p] # Unset /\ world.text[d][p].secrets[n] # Unset
            defs       == {d \in Emitted : Defines(d)}
        IN defs # {} => \E d \in defs : /\ Own(p, n) = world.text[d][p].secrets[n]
                                        /\ \A e \in defs : d \notin Above[e]

(* Documents that extend one another load as one manifest, in which each    *)
(* counts once and after what it extends (config.rs, `ConfigGraphLoader`).  *)
DocumentsMerge == CyclesAreFound /\ ChildrenWin

(* A manifest that validation accepts can be satisfied as far as its        *)
(* composed secrets go: with all else stored, none of them is missing.      *)
AcceptedComposes ==
    phase = "ready" => \A p \in Profiles : Declares(p) => Present(p, Names) = NamesOf(p)

(* A program's types hold what it loads: whenever a profile resolves, every *)
(* field that the profile's type, or the union of all profiles, promises is *)
(* there, whatever the ambient scope.                                       *)
TypedLoadFits ==
    phase = "used" /\ use.outcome = "resolved" =>
        /\ types.union \subseteq use.got
        /\ types.profiles[use.profile] \subseteq use.got

(* A child run under a scope holds none of the manifest's secrets that the  *)
(* scope leaves out, whichever profile declares them and whether resolved   *)
(* or inherited; all its profile promises of those the scope admits; and    *)
(* the rest of the environment it inherits.                                 *)
ChildSeesItsScope ==
    phase = "used" /\ use.outcome = "ran" =>
        /\ \A p \in Profiles : Declares(p) => NamesOf(p) \cap use.child \subseteq use.scope
        /\ Mandatory(use.profile) \cap use.scope \subseteq use.child
        /\ use.inherited \ DeclaredNames \subseteq use.child

(* What a program is given fits what the manifest promises of it, whether   *)
(* it loads typed secrets or is run with a scope's.                         *)
LoadsFit == TypedLoadFits /\ ChildSeesItsScope
=============================================================================
