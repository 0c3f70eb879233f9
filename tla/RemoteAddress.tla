---------------------------- MODULE RemoteAddress ----------------------------
(***************************************************************************)
(* How the remote providers are configured and named: the secret managers  *)
(* of the clouds, Vault and OpenBao, and the password managers behind an   *)
(* account.  For each kind: XConfig reads the spec, XUri prints it back as *)
(* the text and the query of the provider's uri(), and what a convention   *)
(* address is named there.                                                 *)
(***************************************************************************)
EXTENDS ProviderUrl

\* user@host: each is percent-encoded, so they are told apart when read back.
Authority(user, host) == <<user, host>>

\* The "://" a query without an authority is printed after changes nothing.
LOCAL NoPath(url) == TrimLeft(url.path) = None

-----------------------------------------------------------------------------
(* AWS.                                                                    *)

\* An AWS profile and a region, each optional, as everywhere in its SDKs.
Account(url) == <<url.user, url.host>>

AwspsTemplateFits(template) ==
    LET n == Len(template)
    IN /\ template # None /\ Head(template) = "/"
       /\ n > 2 /\ template[n] = "{key}" /\ template[n - 1] = "/"
       /\ \A i \in 1..(n - 1) : template[i] # "{key}"
       /\ template[2] \notin {"aws", "ssm"}
       /\ \A i \in 1..(n - 1) : template[i] = "/" => template[i + 1] # "/"

AwspsConfig(url) ==
    LET prefix == Trim(QueryValue(url, "prefix"))
        template == QueryValue(url, "template")
    IN IF \/ prefix # None /\ template # None
          \/ template # None /\ ~AwspsTemplateFits(template)
          \/ QueryValue(url, "tier") \notin
                {None, <<"standard">>, <<"advanced">>, <<"intelligent-tiering">>}
          \/ ~NoPath(url)
       THEN Rejected
       ELSE Opened("awsps", Account(url), template,
                   With([prefix |-> prefix], Given(url, {"kms_key_id", "tier"})))

AwspsUri(p) ==
    <<IF p.at[2] = None THEN None ELSE Authority(p.at[1], p.at[2]),
      With([template |-> p.layout], p.options)>>

AwspsLayout(p) ==
    LET prefix == p.options["prefix"]
    IN OrElse(p.layout,
              (IF prefix = None THEN None ELSE <<"/">> \o prefix) \o <<"/">> \o DefaultLayout)

AwspsName(p, a) ==
    LET name == Fill(AwspsLayout(p), a)
    IN IF \/ None \in {a.project, a.profile, a.key}
          \/ name[2] \in {"aws", "ssm"}
          \/ \E i \in DOMAIN name : name[i] \in Placeholders
       THEN Rejected
       ELSE Item(name)

AwssmConfig(url) ==
    IF ~NoPath(url) THEN Rejected
    ELSE Opened("awssm", Account(url), None,
                Given(url, {"prefix", "kms_key_id", "tag.team"}))

AwssmUri(p) ==
    <<IF p.at[2] = None THEN None ELSE Authority(p.at[1], p.at[2]), p.options>>

AwssmName(p, a) ==
    LET prefix == Option(p, "prefix")
    IN IF None \in {a.project, a.profile, a.key} THEN Rejected
       ELSE Item((IF prefix = None THEN None ELSE prefix \o <<"/">>)
                    \o Format(DefaultLayout, a))

-----------------------------------------------------------------------------
(* Azure, Google and Scaleway.                                             *)

AkvAuthMethods ==
    {<<"env">>, <<"cli">>, <<"managed_identity">>, <<"workload_identity">>}

AkvConfig(url) ==
    LET bare == ~Holds(url.host, ".")
        auth == OrElse(QueryValue(url, "auth"), <<"env">>)
    IN IF url.host = None \/ ~NoPath(url) \/ auth \notin AkvAuthMethods
       THEN Rejected
       ELSE Opened("akv", url.host, None,
                   With([auth |-> auth], IF bare THEN Given(url, {"suffix"}) ELSE Nothing))

AkvUri(p) == <<p.at, p.options>>

\* A bare vault name is completed to a host.
AkvVault(p) ==
    IF Holds(p.at, ".") THEN p.at
    ELSE p.at \o <<".">> \o OrElse(Option(p, "suffix"), <<"vault.azure.net">>)

Spelled(name) == name

\* Base32 has no "-": an encoded name holds none of the joints.
Encoded(name) == [i \in DOMAIN name |-> IF name[i] = "-" THEN "encoded -" ELSE name[i]]

AkvName(a) ==
    IF ~(Word(a.project) /\ Word(a.profile) /\ Word(a.key)) THEN Rejected
    ELSE Item(<<"secretspec", "-", "-">> \o Encoded(a.project) \o <<"-", "-">>
                \o Encoded(a.profile) \o <<"-", "-">> \o Encoded(a.key))

GcsmConfig(url) ==
    IF ~Word(url.host) \/ Last(url.host) = "-" \/ ~NoPath(url) THEN Rejected
    ELSE Opened("gcsm", url.host, None, Nothing)

GcsmUri(p) == <<p.at, Nothing>>

GcsmLayout == <<"secretspec", "-", "{project}", "-", "{profile}", "-", "{key}">>

GcsmName(a) ==
    IF ~(Word(a.project) /\ Word(a.profile) /\ Word(a.key)) THEN Rejected
    ELSE Item(Format(GcsmLayout, a))

\* A folder always begins with "/" and never ends with one, but for the root.
Normalized(folder) == <<"/">> \o Trim(folder)

ScalewayConfig(url) ==
    IF Trim(url.path) # None THEN Rejected
    ELSE Opened("scaleway",
                OrElse(url.host, OrElse(Variable("SCW_DEFAULT_REGION"), <<"fr-par">>)), None,
                With([path |-> Normalized(QueryValue(url, "path"))], Given(url, {"project_id"})))

ScalewayUri(p) == <<p.at, p.options>>

ScalewayProject(p) == OrElse(Option(p, "project_id"), Variable("SCW_DEFAULT_PROJECT_ID"))

ScalewayName(p, a) ==
    IF None \in {a.project, a.profile, a.key} THEN Rejected
    ELSE Item(TrimRight(p.options["path"]) \o <<"/">> \o Format(DefaultLayout, a))

\* A ref is a folder and a name; without a "/" it is neither.
ScalewaySplit(item) ==
    LET path == TrimRight(item)
    IN IF ~Holds(path, "/") THEN Rejected
       ELSE <<OrElse(Folder(path), <<"/">>), Leaf(path)>>

-----------------------------------------------------------------------------
(* Infisical, Vault and OpenBao.                                           *)

InfisicalConfig(url) ==
    LET project == Trim(url.path)
        path == TrimRight(QueryValue(url, "path"))
        tls == IF "tls" \in DOMAIN url.query THEN url.query["tls"] ELSE <<"true">>
        plain == tls \in {<<"false">>, <<"0">>}
        scheme == IF plain THEN <<"http">> ELSE <<"https">>
        domain == OrElse(Variable("INFISICAL_DOMAIN"), Variable("INFISICAL_API_URL"))
        \* the variables name a host; one that names a path besides is refused
        host == OrElse(url.host, OrElse(domain, <<"app.infisical.com">>))
    IN IF \/ project = None \/ Holds(project, "/") \/ Holds(host, "/")
          \/ ~plain /\ tls \notin {<<"true">>, <<"1">>}
       THEN Rejected
       ELSE Opened("infisical", <<scheme, host, project>>, None,
                   With([path |-> IF QueryValue(url, "path") = None THEN <<"/", "secretspec">>
                                  ELSE IF path # None /\ Head(path) = "/" THEN path
                                  ELSE <<"/">> \o path],
                        Given(url, {"env"})))

InfisicalUri(p) ==
    <<p.at[2] \o <<"/">> \o p.at[3],
      With(p.options, IF p.at[1] = <<"http">> THEN [tls |-> <<"false">>] ELSE Nothing)>>

InfisicalName(p, a) ==
    IF a.key = None \/ Holds(a.key, "/") \/ ~(Word(a.project) /\ Word(a.profile))
    THEN Rejected
    ELSE Item(p.options["path"] \o <<"/">> \o a.project \o <<"/">> \o a.profile
                \o <<"/">> \o a.key)

\* An item with a leading "/" is read from the root of the environment, any
\* other below the configured folder.
InfisicalLocation(p, a, c) ==
    LET environment ==
            OrElse(Option(p, "env"), IF a.form = "native" THEN None ELSE a.profile)
        folder == TrimRight(Folder(c.item))
        path ==
            IF ~Holds(c.item, "/")       THEN p.options["path"]
            ELSE IF folder = None         THEN <<"/">>
            ELSE IF Head(folder) # "/"    THEN TrimRight(p.options["path"]) \o <<"/">> \o folder
            ELSE folder
    IN IF environment = None \/ Leaf(c.item) = None THEN Rejected
       ELSE <<environment, path, Leaf(c.item), c.version>>

AddressEnvs(product) ==
    IF product = "vault" THEN <<"VAULT_ADDR">> ELSE <<"BAO_ADDR", "VAULT_ADDR">>

NamespaceEnvs(product) ==
    IF product = "vault" THEN <<"VAULT_NAMESPACE">> ELSE <<"BAO_NAMESPACE", "VAULT_NAMESPACE">>

RoleEnvs(product) ==
    IF product = "vault" THEN <<"VAULT_JWT_ROLE">> ELSE <<"BAO_JWT_ROLE", "VAULT_JWT_ROLE">>

AudienceEnvs(product) ==
    IF product = "vault" THEN <<"VAULT_JWT_AUDIENCE">>
    ELSE <<"BAO_JWT_AUDIENCE", "VAULT_JWT_AUDIENCE">>

KvConfig(url, product) ==
    LET plain == QueryValue(url, "tls") \in {<<"false">>, <<"0">>}
        \* the variable holds an origin, its scheme first
        origin == IF url.host # None
                  THEN <<IF plain THEN "http" ELSE "https">> \o url.host
                  ELSE PreferredEnv(AddressEnvs(product))
        namespace == OrElse(url.user, PreferredEnv(NamespaceEnvs(product)))
        auth == OrElse(QueryValue(url, "auth"), <<"token">>)
        mount == Trim(QueryValue(url, "auth_mount"))
        \* the mount the method has by itself is not kept
        kept == IF mount = auth THEN {} ELSE {"auth_mount"}
        role == OrElse(QueryValue(url, "role"), PreferredEnv(RoleEnvs(product)))
        \* given empty, it is none whatever the environment says
        audience == IF "audience" \in DOMAIN url.query THEN url.query["audience"]
                    ELSE PreferredEnv(AudienceEnvs(product))
        first == QueryValue(url, "kv") \in {<<"1">>, <<"v1">>}
    IN IF \/ origin = None \/ Head(origin) \notin {"http", "https"}
          \/ auth \notin {<<"token">>, <<"approle">>, <<"jwt">>}
          \/ "auth_mount" \in DOMAIN url.query /\ (mount = None \/ auth = <<"token">>)
          \/ QueryValue(url, "field") # None
       THEN Rejected
       ELSE Opened(product,
                   <<<<Head(origin)>>, namespace, Tail(origin),
                     OrElse(Trim(url.path), <<"secret">>)>>,
                   None,
                   With(With([auth |-> auth, kv |-> IF first THEN <<"1">> ELSE <<"2">>],
                             Given(url, kept)),
                        IF auth = <<"jwt">> THEN [role |-> role, audience |-> audience]
                        ELSE Nothing))

BaseUri(p) == <<Authority(p.at[2], p.at[3]), p.at[4]>>

KvUri(p) ==
    <<BaseUri(p),
      With(p.options, IF p.at[1] = <<"http">> THEN [tls |-> <<"false">>] ELSE Nothing)>>

KvIdentityOfProduct(p) == <<p.kind, p.at[1], BaseUri(p)>>

\* Neither the product nor how it is signed in to changes the store.
KvStorageIdentity(p) == <<p.at[1], BaseUri(p)>>

KvName(a) ==
    IF None \in {a.project, a.profile, a.key} THEN Rejected
    ELSE Coords(Format(DefaultLayout, a), <<"value">>, None, None, None)

-----------------------------------------------------------------------------
(* Password managers.                                                      *)

\* The organization before "@" or as an option, the collection after it or
\* as an option; anything unknown is refused.
BwConfig(url) ==
    LET there == url.host \notin {None, <<"localhost">>}
        names == {"org", "organization", "collection", "server", "folder", "type", "field"}
        organization ==
            OrElse(OrElse(QueryValue(url, "org"), QueryValue(url, "organization")),
                   IF there THEN url.user ELSE None)
        collection ==
            OrElse(QueryValue(url, "collection"), IF there THEN url.host ELSE None)
    IN IF ~(DOMAIN url.query \subseteq names) THEN Rejected
       ELSE Opened("bw", <<organization, collection>>, None,
                   Given(url, {"folder", "type", "field", "server"}))

BwUriOfCollection(p) ==
    <<IF p.at[2] # None THEN Authority(p.at[1], p.at[2]) ELSE p.at[1], Nothing>>

BwUri(p) ==
    IF p.at[2] # None THEN <<Authority(p.at[1], p.at[2]), p.options>>
    ELSE <<None, With(p.options, [org |-> p.at[1]])>>

\* What decides which secret answers, each overridden by its variable, even
\* when that is empty.
LOCAL BwOverride(name, text) == IF name \in DOMAIN Env THEN Env[name] ELSE text

BwScope(p) ==
    <<BwOverride("BITWARDEN_ORGANIZATION", p.at[1]),
      BwOverride("BITWARDEN_COLLECTION", p.at[2]),
      Option(p, "server"), Option(p, "folder"),
      BwOverride("BITWARDEN_DEFAULT_TYPE", Option(p, "type"))>>

BwField(p, c) ==
    OrElse(c.field, BwOverride("BITWARDEN_DEFAULT_FIELD", Option(p, "field")))

BwsConfig(url) ==
    IF url.host = None THEN Rejected
    ELSE Opened("bws", <<url.user, url.host>>, None, Nothing)

BwsUri(p) == <<Authority(p.at[1], p.at[2]), Nothing>>

\* With the "+token" scheme the user is a service account's token.
OnepasswordConfig(url) ==
    LET there == url.host \notin {None, <<"localhost">>}
        token == url.scheme = "onepassword+token"
        user == IF there THEN url.user ELSE None
    IN IF url.scheme = "op" \/ Trim(url.path) # None THEN Rejected
       ELSE Opened("onepassword",
                   <<IF token THEN None ELSE user, IF there THEN url.host ELSE None>>, None,
                   IF token /\ user # None THEN [token |-> user] ELSE Nothing)

\* A token is a credential: that there is one is printed, not which.
OnepasswordUri(p) ==
    IF Option(p, "token") # None
    THEN <<p.at[2], [scheme |-> <<"onepassword+token">>]>>
    ELSE <<IF p.at = <<None, None>> THEN None ELSE Authority(p.at[1], p.at[2]), Nothing>>

OnepasswordVault(p) == OrElse(p.at[2], <<"Private">>)

OnepasswordName(p, a) ==
    Coords(Fill(DefaultLayout, a), None, OnepasswordVault(p), None, None)

KeeperConfig(url) ==
    IF url.host = None \/ Trim(url.path) # None \/ QueryValue(url, "folder") # None
    THEN Rejected
    ELSE Opened("keeper", url.host, None, Given(url, {"config_file"}))

KeeperUri(p) == <<p.at, p.options>>

KeeperTarget(c) == <<c.item, OrElse(c.field, <<"password">>)>>

DashlaneTypes == << <<"secret">>, <<"password">>, <<"note">> >>

DashlaneConfig(url) ==
    IF ~NoPath(url) \/ url.host \notin {None} \cup {DashlaneTypes[i] : i \in 1..3}
    THEN Rejected
    ELSE Opened("dashlane", url.host, None, Nothing)

DashlaneUri(p) == <<p.at, Nothing>>

\* The kinds of items searched, the first that has the name answering.
TypesToSearch(p) == IF p.at = None THEN DashlaneTypes ELSE <<p.at>>
=============================================================================
