----------------------------- MODULE Addressing ------------------------------
(***************************************************************************)
(* Two providers side by side: a spec opened as the provider its scheme    *)
(* names, an address resolved to the places the provider looks in, and the *)
(* decisions made by comparing two providers before anything is touched:   *)
(* the preflight of import --delete-source, the plan of a cached route,    *)
(* and whether the probe of one's sign-in answers for the other's.         *)
(***************************************************************************)
EXTENDS LocalAddress, RemoteAddress, SignIn

CONSTANTS Specs,       \* the specs that may be written, each a scheme, a text and a query
          Addresses,   \* the addresses secrets have
          Declared,    \* what a credential an alias declares may hold
          Ambient,     \* what a variable of the environment may hold
          Nobody       \* a provider not chosen yet

Text == Seq(STRING)

\* Specs are texts with options that are texts, and both directories have a
\* path.
ASSUME AddressingAssumption ==
    /\ \A spec \in Specs :
           /\ spec.text \in Text
           /\ \A name \in DOMAIN spec.query : spec.query[name] \in Text
    /\ Base \in Text \ {None} /\ Home \in Text \ {None}
    /\ \A name \in DOMAIN Env : Env[name] \in Text

VARIABLES source,      \* the provider read from
          other,       \* the destination of a move, or the cache of a route
          verdict      \* what the comparison decided

addressingVars == <<source, other, verdict>>

-----------------------------------------------------------------------------
(* The registry: the provider a scheme names, and what each one declares.  *)

FromUrl(url) ==
    IF url = Rejected THEN Rejected ELSE
    CASE url.scheme = "keyring"     -> KeyringConfig(url)
      [] url.scheme = "pass"        -> PassConfig(url)
      [] url.scheme = "gopass"      -> GopassConfig(url)
      [] url.scheme = "lastpass"    -> LastpassConfig(url)
      [] url.scheme = "protonpass"  -> ProtonpassConfig(url)
      [] url.scheme = "dotenv"      -> DotenvConfig(url)
      [] url.scheme = "age"         -> AgeConfig(url)
      [] url.scheme = "kdbx"        -> KdbxConfig(url)
      [] url.scheme = "sops"        -> SopsConfig(url)
      [] url.scheme = "env"         -> EnvConfig(url)
      [] url.scheme = "systemd-credential" -> SystemdConfig(url)
      [] url.scheme = "awsps"       -> AwspsConfig(url)
      [] url.scheme = "awssm"       -> AwssmConfig(url)
      [] url.scheme = "akv"         -> AkvConfig(url)
      [] url.scheme = "gcsm"        -> GcsmConfig(url)
      [] url.scheme = "scaleway"    -> ScalewayConfig(url)
      [] url.scheme = "infisical"   -> InfisicalConfig(url)
      [] url.scheme \in {"vault", "openbao"} -> KvConfig(url, url.scheme)
      [] url.scheme = "bw"          -> BwConfig(url)
      [] url.scheme = "bws"         -> BwsConfig(url)
      [] url.scheme \in {"op", "onepassword", "onepassword+token"} -> OnepasswordConfig(url)
      [] url.scheme = "keeper"      -> KeeperConfig(url)
      [] url.scheme = "dashlane"    -> DashlaneConfig(url)
      [] OTHER                      -> Rejected

FromSpec(spec) == FromUrl(Url(spec.scheme, spec.text, spec.query))

Deletes(p) ==
    p.kind \in {"dotenv", "gopass", "keeper", "keyring", "pass", "vault", "openbao"}

\* The text and the query of its URI.
UriBody(p) ==
    CASE p.kind = "keyring"     -> KeyringUri(p)
      [] p.kind = "pass"        -> PassUri(p)
      [] p.kind = "gopass"      -> GopassUri(p)
      [] p.kind = "lastpass"    -> LastpassUri(p)
      [] p.kind = "protonpass"  -> ProtonpassUri(p)
      [] p.kind = "dotenv"      -> DotenvUri(p)
      [] p.kind = "age"         -> AgeUri(p)
      [] p.kind = "kdbx"        -> KdbxUri(p)
      [] p.kind = "sops"        -> SopsUri(p)
      [] p.kind \in {"env", "systemd-credential"} -> <<None, Nothing>>
      [] p.kind = "awsps"       -> AwspsUri(p)
      [] p.kind = "awssm"       -> AwssmUri(p)
      [] p.kind = "akv"         -> AkvUri(p)
      [] p.kind = "gcsm"        -> GcsmUri(p)
      [] p.kind = "scaleway"    -> ScalewayUri(p)
      [] p.kind = "infisical"   -> InfisicalUri(p)
      [] p.kind \in {"vault", "openbao"} -> KvUri(p)
      [] p.kind = "bw"          -> BwUri(p)
      [] p.kind = "bws"         -> BwsUri(p)
      [] p.kind = "onepassword" -> OnepasswordUri(p)
      [] p.kind = "keeper"      -> KeeperUri(p)
      [] p.kind = "dashlane"    -> DashlaneUri(p)

Uri(p) == <<p.kind, UriBody(p)>>

\* The coordinates a ref may give besides the item.
SupportedCoords(p) ==
    CASE p.kind \in {"awsps", "gcsm", "infisical"} -> {"version"}
      [] p.kind \in {"awssm", "bw", "dashlane", "kdbx", "keeper", "keyring",
                     "vault", "openbao"} -> {"field"}
      [] p.kind = "scaleway"    -> {"field", "version"}
      [] p.kind = "onepassword" -> {"field", "vault", "section"}
      [] OTHER                  -> {}

-----------------------------------------------------------------------------
(* Resolving an address.                                                   *)

\* The layout of the names, where a spec may replace it.
Layout(p) ==
    CASE p.kind = "protonpass" -> ProtonpassLayout(p)
      [] p.kind = "awsps"      -> AwspsLayout(p)
      [] OTHER                 -> OrElse(p.layout, DefaultLayout)

ConventionAddress(p, a) ==
    CASE p.kind = "awsps"       -> AwspsName(p, a)
      [] p.kind = "awssm"       -> AwssmName(p, a)
      [] p.kind = "akv"         -> AkvName(a)
      [] p.kind = "gcsm"        -> GcsmName(a)
      [] p.kind = "scaleway"    -> ScalewayName(p, a)
      [] p.kind = "infisical"   -> InfisicalName(p, a)
      [] p.kind \in {"vault", "openbao"} -> KvName(a)
      [] p.kind = "onepassword" -> OnepasswordName(p, a)
      [] p.kind = "keeper" ->
             Coords(Format(DefaultLayout, a), <<"password">>, None, None, None)
      [] p.kind = "dashlane" -> Item(Format(DefaultLayout, a))
      [] p.kind \in {"dotenv", "age", "env", "systemd-credential", "bw", "bws", "sops"} ->
             Item(a.key)
      [] OTHER -> Item(Fill(Layout(p), a))

ResolveCoords(p, a) ==
    LET c == IF a.form = "native" THEN a ELSE ConventionAddress(p, a)
    IN IF Supported(c, SupportedCoords(p)) THEN c ELSE Rejected

\* Where in its container an address leads; what the kind asks of the
\* coordinates besides is part of it.
Entry(p, a, c) ==
    CASE p.kind = "keyring"     -> KeyringEntry(c)
      [] p.kind = "dotenv"      -> IF EnvKey(c.item) THEN c.item ELSE Rejected
      [] p.kind = "kdbx"        -> KdbxLocation(c)
      [] p.kind = "systemd-credential" -> SystemdName(c)
      [] p.kind = "scaleway" ->
             IF ScalewaySplit(c.item) = Rejected \/ ScalewayProject(p) = None THEN Rejected
             ELSE <<ScalewaySplit(c.item), c.field, c.version>>
      [] p.kind = "infisical"   -> InfisicalLocation(p, a, c)
      [] p.kind \in {"vault", "openbao"} ->
             IF c.field = None THEN Rejected ELSE <<c.item, c.field>>
      [] p.kind = "bw"          -> <<c.item, BwField(p, c)>>
      [] p.kind = "onepassword" ->
             <<OrElse(c.vault, OnepasswordVault(p)), c.item, c.section, c.field>>
      [] p.kind = "keeper"      -> KeeperTarget(c)
      [] p.kind = "dashlane"    -> <<TypesToSearch(p), c.item, c.field>>
      [] OTHER                  -> <<c.item, c.field, c.version>>

\* The container itself, whatever the spec calls it.
Container(p) ==
    CASE p.kind \in {"keyring", "gopass", "lastpass", "env", "systemd-credential",
                     "dashlane"} -> <<p.kind>>
      [] p.kind = "pass"        -> <<p.kind, PhysicalFile(PassStore(p))>>
      [] p.kind = "protonpass"  -> <<p.kind, ProtonpassVault(p)>>
      [] p.kind \in {"dotenv", "age", "kdbx"} -> <<p.kind, PhysicalFile(p.at)>>
      [] p.kind = "akv"         -> <<p.kind, AkvVault(p)>>
      [] p.kind = "scaleway"    -> <<p.kind, p.at, ScalewayProject(p)>>
      [] p.kind \in {"vault", "openbao"} -> <<"kv", p.at>>
      [] p.kind = "bw"          -> <<p.kind, BwScope(p)>>
      [] p.kind = "onepassword" -> <<p.kind, p.at[1]>>
      [] OTHER                  -> <<p.kind, p.at>>

\* Where a get looks, in this order; a set writes the first.
Places(p, a) ==
    LET c == ResolveCoords(p, a)
        e == Entry(p, a, c)
    IN IF p.kind = "sops" THEN SopsPlaces(p, a)
       ELSE IF c = Rejected \/ e = Rejected THEN Rejected
       ELSE << <<Container(p), e>> >>

-----------------------------------------------------------------------------
(* Comparing two providers.                                                *)

StorageIdentity(p) ==
    IF p.kind \in {"vault", "openbao"} THEN <<"kv", KvStorageIdentity(p)>> ELSE Uri(p)

EntryContainerIdentity(p) ==
    CASE p.kind \in {"keyring", "gopass"} -> <<p.kind>>
      [] p.kind = "pass"   -> <<p.kind, p.at>>
      [] p.kind = "keeper" -> <<p.kind, p.at>>
      [] OTHER             -> StorageIdentity(p)

\* A store that is one path on this machine.
PhysicalStorePath(p) == IF p.kind \in {"dotenv", "pass"} THEN p.at ELSE None

SameStore(p, q) ==
    LET left == PhysicalStorePath(p)
        right == PhysicalStorePath(q)
    IN CASE left # None /\ right # None -> PhysicalFile(left) = PhysicalFile(right)
         [] left = None /\ right = None ->
                EntryContainerIdentity(p) = EntryContainerIdentity(q)
         [] OTHER -> FALSE

\* An address either one refuses fails the comparison, and the command.
SameEntry(p, q, a) ==
    /\ SameStore(p, q)
    /\ LET c == ResolveCoords(p, a)
           d == ResolveCoords(q, a)
       IN c = Rejected \/ d = Rejected \/ c = d

-----------------------------------------------------------------------------
AddressingInit == source = Nobody /\ other = Nobody /\ verdict = Nobody

OpenSource(spec) ==
    /\ source = Nobody
    /\ source' = FromSpec(spec)
    /\ UNCHANGED <<other, verdict>>

OpenOther(spec) ==
    /\ source \notin {Nobody, Rejected}
    /\ other = Nobody
    /\ other' = FromSpec(spec)
    /\ UNCHANGED <<source, verdict>>

Chosen == other \notin {Nobody, Rejected} /\ verdict = Nobody

\* import --delete-source looks at every secret before it copies the first.
PlanMove(a) ==
    /\ Chosen
    /\ verdict' = [plan |-> "move", at |-> a,
                   goes |-> Deletes(source) /\ ~SameEntry(source, other, a)]
    /\ UNCHANGED <<source, other>>

\* A cache is a store of its own that can drop what it holds; its entries
\* carry the source's URI.
PlanCache ==
    /\ Chosen
    /\ verdict' = [plan |-> "cache", fingerprint |-> Uri(source),
                   goes |-> /\ StorageIdentity(source) # StorageIdentity(other)
                            /\ Deletes(other)]
    /\ UNCHANGED <<source, other>>

\* The credentials an alias may declare for a provider, and the environments
\* that may bear on its sign-in.
Declarations(p) ==
    UNION {[names -> Declared] : names \in SUBSET DOMAIN Inputs(p)}

Environments(p) ==
    LET read == UNION {Range(Inputs(p)[n]) : n \in DOMAIN Inputs(p)} \cup Others(p)
    IN UNION {[variables -> Ambient] : variables \in SUBSET read}

SignIn ==
    /\ source \notin {Nobody, Rejected} /\ source.kind \in SignsIn
    /\ other = Nobody /\ verdict = Nobody
    /\ \E c \in Declarations(source), e \in Environments(source) :
           verdict' = [plan |-> "sign in", declared |-> c, as |-> SignedInAs(source, c, e)]
    /\ UNCHANGED <<source, other>>

\* The second instance asks no probe where the first has asked for its scope.
ShareProbe ==
    /\ Chosen /\ source.kind = other.kind /\ source.kind \in Probes
    /\ \E c \in Declarations(source), d \in Declarations(other),
          e \in Environments(source) :
           verdict' = [plan |-> "probe",
                       shared |-> AuthScopeKey(source, c, e) = AuthScopeKey(other, d, e),
                       as |-> <<SignedInAs(source, c, e), SignedInAs(other, d, e)>>]
    /\ UNCHANGED <<source, other>>

AddressingNext ==
    \/ \E spec \in Specs : OpenSource(spec) \/ OpenOther(spec)
    \/ \E a \in Addresses : PlanMove(a)
    \/ PlanCache
    \/ SignIn
    \/ ShareProbe

AddressingSpec == AddressingInit /\ [][AddressingNext]_addressingVars

-----------------------------------------------------------------------------
(* Properties.                                                             *)

Both == source \notin {Nobody, Rejected} /\ other \notin {Nobody, Rejected}

\* The URIs of these leave something out that decides which secret answers:
\* LastPass all folders but the first, Proton Pass a layout without a vault,
\* 1Password the account's token.
Abridged(p) ==
    \/ p.kind = "lastpass"
    \/ p.kind = "protonpass" /\ p.at = None
    \/ p.kind = "onepassword" /\ Option(p, "token") # None

(***************************************************************************)
(* Two providers whose URIs read the same look in the same places for      *)
(* every secret.  A cached route tells its sources by their URIs: were two *)
(* of them to read alike, the route of one would serve the copies made     *)
(* from the other, and an audit record would not say which one answered.   *)
(* UrisTell says it of all, FingerprintsTell of those in full.             *)
(***************************************************************************)
UrisTell ==
    Both /\ verdict = Nobody /\ Uri(source) = Uri(other)
        => \A a \in Addresses : Places(source, a) = Places(other, a)

FingerprintsTell == Both => Abridged(source) \/ UrisTell

\* `pass` without a store directory is never compared with one that names it.
HalfNamed == source.kind = "pass" /\ other.kind = "pass"
                /\ (source.at = None) # (other.at = None)

\* An import that deletes at its source is refused where source and
\* destination are the same entry: the copy would be found in place, and the
\* only value deleted.
MovesSpareOwnEntry ==
    verdict # Nobody /\ verdict.plan = "move" /\ verdict.goes
        => LET from == Places(source, verdict.at)
               to == Places(other, verdict.at)
           IN from # Rejected /\ to # Rejected => Head(from) # Head(to)

\* "A cache must be a distinct store, otherwise refreshing it overwrites the
\* secret it caches."
CachesAreApart ==
    verdict # Nobody /\ verdict.plan = "cache" /\ verdict.goes
        => \A a \in Addresses :
               Places(source, a) # Rejected => Places(source, a) # Places(other, a)

(***************************************************************************)
(* No plan makes a store its own counterpart: whatever two spellings it    *)
(* has, a move does not delete the entry it just wrote, nor does a cache   *)
(* in Vault or OpenBao overwrite its source under another product's name,  *)
(* another authentication or another KV version.  (The layouts and paths   *)
(* of the other kinds that can be caches are compared as they are spelled, *)
(* not where they lead.)                                                   *)
(***************************************************************************)
OwnEntryIsSpared ==
    Both => /\ HalfNamed \/ MovesSpareOwnEntry
            /\ source.kind \in {"vault", "openbao"} => CachesAreApart

Flat == {"dotenv", "age", "env", "systemd-credential", "bw", "bws"}

\* The layout the names end up in, for SOPS with the keys inside the file.
NamesLayout(p) ==
    CASE p.kind \in Flat -> <<"{key}">>
      [] p.kind = "gcsm" -> GcsmLayout
      [] p.kind = "sops" ->
             IF p.layout # None THEN p.layout \o <<"/", "{key}">>
             ELSE CASE p.options["format"] = <<"env">> -> <<"{key}">>
                    [] p.options["format"] = <<"ini">> -> <<"{profile}", "/", "{key}">>
                    [] OTHER -> DefaultLayout
      [] OTHER -> Layout(p)

\* Two names run together where nothing stands between them.
Separated(layout) ==
    \A i \in 1..(Len(layout) - 1) :
        ~(layout[i] \in Placeholders /\ layout[i + 1] \in Placeholders)

\* Filled in one after the other, a name like a placeholder is replaced again.
Sequential(p) ==
    p.kind \in {"keyring", "pass", "gopass", "lastpass", "protonpass", "kdbx",
                "onepassword", "awsps"}

\* What a plain name does not hold.
Joints(p) ==
    (IF p.kind \in {"akv", "infisical"} THEN {}
     ELSE {j \in {"/", "-"} : Holds(NamesLayout(p), j)})
    \cup (IF Sequential(p) THEN Placeholders ELSE {})

Plain(p, a) ==
    \A text \in {a.project, a.profile, a.key} : \A j \in Joints(p) : ~Holds(text, j)

(***************************************************************************)
(* A secret of one project, profile or name never lands on another's item, *)
(* as long as their names hold no joint of the layout: at one place, two   *)
(* convention addresses agree in every name the layout mentions.  Key      *)
(* Vault and Infisical need no such condition, the first encoding the      *)
(* names, the second refusing what it cannot spell; and where the names   *)
(* are filled in all at once, one that is spelled as a placeholder is fine.*)
(***************************************************************************)
NamesKeepApart ==
    source \notin {Nobody, Rejected} /\ other = Nobody /\ verdict = Nobody
        /\ Separated(NamesLayout(source)) =>
    \A a, b \in {x \in Addresses : x.form = "convention" /\ Plain(source, x)} :
        LET there == Places(source, a)
            here == Places(source, b)
            names == NamesLayout(source)
        IN there # Rejected /\ here # Rejected /\ Head(there) = Head(here) =>
           /\ Holds(names, "{project}") => a.project = b.project
           /\ Holds(names, "{profile}") => a.profile = b.profile
           /\ Holds(names, "{key}") => a.key = b.key

\* An instance that takes another's probe for its own is the same identity.
ProbesAnswerForTheirs ==
    verdict # Nobody /\ verdict.plan = "probe" /\ verdict.shared
        => verdict.as[1] = verdict.as[2]

GivenNames(c) == {n \in DOMAIN c : c[n] # None}

\* Identities put together value by value, of which only some are declared.
Assembled(p, c) ==
    /\ GivenNames(c) # DOMAIN Inputs(p)
    /\ \/ p.kind \in {"vault", "openbao", "keeper"}
       \/ p.kind = "infisical" /\ "token" \notin GivenNames(c)

\* "Configured credentials take precedence over provider environment
\* fallbacks": who could sign in with what is declared does so, whatever the
\* environment holds.
DeclaredDecides ==
    verdict # Nobody /\ verdict.plan = "sign in" /\ GivenNames(verdict.declared) # {}
        => LET alone == SignedInAs(source, verdict.declared, Nothing)
           IN alone # Rejected => verdict.as = alone

\* What is declared is never passed over for the session of a tool.
NeverTheSession ==
    verdict # Nobody /\ verdict.plan = "sign in" /\ GivenNames(verdict.declared) # {}
        => verdict.as = Rejected \/ verdict.as.material # Nothing

(***************************************************************************)
(* A command never reads or writes as somebody else: instances that share  *)
(* the answer of a probe sign in as the same identity, declared            *)
(* credentials are neither overruled by the environment nor, incomplete,   *)
(* made up for by a session.  (Keeper, AppRole and Infisical, which take   *)
(* each value from where they find it, only where all of it is declared.)  *)
(***************************************************************************)
OneIdentity ==
    /\ ProbesAnswerForTheirs
    /\ NeverTheSession
    /\ \/ verdict # Nobody /\ verdict.plan = "sign in" /\ Assembled(source, verdict.declared)
       \/ DeclaredDecides
=============================================================================
