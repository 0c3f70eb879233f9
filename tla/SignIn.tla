------------------------------- MODULE SignIn --------------------------------
(***************************************************************************)
(* Who a provider signs in as: the credentials its alias declares, then    *)
(* the variables of the environment, then what is signed in on this        *)
(* machine already; and, where a probe of the sign-in comes first, the     *)
(* scope in which every instance of the process shares its answer.         *)
(***************************************************************************)
EXTENDS ProviderUrl

CONSTANT Files    \* the files that can be read and are not blank

\* A declared credential that is not blank, else the first variable set.
CredentialOrEnvs(c, e, name, variables) ==
    IF name \in DOMAIN c /\ c[name] # None THEN c[name] ELSE FirstSet(e, variables)

TokenEnvs(product) ==
    IF product = "vault" THEN <<"VAULT_TOKEN">> ELSE <<"BAO_TOKEN", "VAULT_TOKEN">>

TokenPathEnvs(product) ==
    IF product = "vault" THEN <<>> ELSE <<"BAO_TOKEN_PATH", "VAULT_TOKEN_PATH">>

RoleIdEnvs(product) ==
    IF product = "vault" THEN <<"VAULT_ROLE_ID">> ELSE <<"BAO_ROLE_ID", "VAULT_ROLE_ID">>

SecretIdEnvs(product) ==
    IF product = "vault" THEN <<"VAULT_SECRET_ID">> ELSE <<"BAO_SECRET_ID", "VAULT_SECRET_ID">>

JwtEnvs(product) ==
    IF product = "vault" THEN <<"VAULT_JWT">> ELSE <<"BAO_JWT", "VAULT_JWT">>

\* The credentials the provider reads, as it is configured, and the variables
\* each falls back to.
Inputs(p) ==
    CASE p.kind = "akv" /\ p.options["auth"] = <<"env">> ->
             [tenant_id |-> <<"AZURE_TENANT_ID">>, client_id |-> <<"AZURE_CLIENT_ID">>,
              client_secret |-> <<"AZURE_CLIENT_SECRET">>]
      [] p.kind = "infisical" ->
             [token |-> <<"INFISICAL_TOKEN">>, client_id |-> <<"INFISICAL_CLIENT_ID">>,
              client_secret |-> <<"INFISICAL_CLIENT_SECRET">>]
      [] p.kind \in {"vault", "openbao"} /\ p.options["auth"] = <<"token">> ->
             [token |-> TokenEnvs(p.kind)]
      [] p.kind \in {"vault", "openbao"} /\ p.options["auth"] = <<"approle">> ->
             [role_id |-> RoleIdEnvs(p.kind), secret_id |-> SecretIdEnvs(p.kind)]
      [] p.kind = "onepassword" -> [service_account_token |-> <<"OP_SERVICE_ACCOUNT_TOKEN">>]
      [] p.kind = "dashlane" -> [service_device_keys |-> <<"DASHLANE_SERVICE_DEVICE_KEYS">>]
      [] p.kind = "bws"      -> [access_token |-> <<"BWS_ACCESS_TOKEN">>]
      [] p.kind = "scaleway" -> [secret_key |-> <<"SCW_SECRET_KEY">>]
      [] p.kind = "keeper"   -> [config |-> <<"KSM_CONFIG">>, token |-> <<"KSM_TOKEN">>]
      [] p.kind = "kdbx"     -> [password |-> <<"SECRETSPEC_KDBX_PASSWORD">>]
      [] OTHER -> Nothing

\* What else of the environment can decide.
Others(p) ==
    CASE p.kind \in {"vault", "openbao"} /\ p.options["auth"] = <<"token">> ->
             Range(TokenPathEnvs(p.kind)) \cup {"HOME"}
      [] p.kind \in {"vault", "openbao"} /\ p.options["auth"] = <<"jwt">> ->
             Range(JwtEnvs(p.kind))
                \cup {"ACTIONS_ID_TOKEN_REQUEST_URL", "ACTIONS_ID_TOKEN_REQUEST_TOKEN"}
      [] OTHER -> {}

Material(p, c, e, name) == CredentialOrEnvs(c, e, name, Inputs(p)[name])


-----------------------------------------------------------------------------
(* An identity is what kind of sign-in it is and what it presents.  One    *)
(* without material is whatever the tool or the host is signed in as.      *)

Identity(how, material) == [how |-> how, material |-> material]

\* All of a service principal or none of it: part of one is refused, and is
\* not made up for by the session of the Azure CLI.
AkvIdentity(p, c, e) ==
    LET auth == p.options["auth"]
        given == {n \in DOMAIN Inputs(p) : Material(p, c, e, n) # None}
    IN IF auth # <<"env">>              THEN Identity(auth, Nothing)
       ELSE IF given = {}               THEN Identity(<<"cli">>, Nothing)
       ELSE IF given # DOMAIN Inputs(p) THEN Rejected
       ELSE Identity(<<"principal">>, [n \in given |-> Material(p, c, e, n)])

\* A token that is there is used as it is; otherwise both halves of a
\* machine identity are exchanged for one.
InfisicalIdentity(p, c, e) ==
    LET halves == {"client_id", "client_secret"}
    IN IF Material(p, c, e, "token") # None
       THEN Identity(<<"token">>, [token |-> Material(p, c, e, "token")])
       ELSE IF \E n \in halves : Material(p, c, e, n) = None THEN Rejected
       ELSE Identity(<<"login">>, [n \in halves |-> Material(p, c, e, n)])

\* The product's own path of the token file, else the one of the command
\* line tools in the home directory.
TokenPath(p, e) ==
    OrElse(FirstSet(e, TokenPathEnvs(p.kind)),
           IF "HOME" \in DOMAIN e THEN e["HOME"] \o <<"/", ".vault-token">> ELSE None)

KvTokenIdentity(p, c, e) ==
    LET token == Material(p, c, e, "token")
    IN IF token # None                   THEN Identity(<<"token">>, [token |-> token])
       ELSE IF TokenPath(p, e) \in Files THEN Identity(<<"file">>, [path |-> TokenPath(p, e)])
       ELSE Rejected

\* The mount the login goes to, the method's own unless another was given.
LoginMount(p) == OrElse(Option(p, "auth_mount"), p.options["auth"])

\* The role is required, its secret only sent when there is one.
KvApproleIdentity(p, c, e) ==
    LET given == {n \in DOMAIN Inputs(p) : Material(p, c, e, n) # None}
    IN IF "role_id" \notin given THEN Rejected
       ELSE Identity(<<"approle">> \o LoginMount(p),
                     [n \in given |-> Material(p, c, e, n)])

\* A token of the environment, else one the CI job asks its own service for.
Jwt(p, e) ==
    LET jwt == FirstSet(e, JwtEnvs(p.kind))
        url == FirstSet(e, <<"ACTIONS_ID_TOKEN_REQUEST_URL">>)
        request == FirstSet(e, <<"ACTIONS_ID_TOKEN_REQUEST_TOKEN">>)
    IN IF jwt # None                  THEN [jwt |-> jwt]
       ELSE IF None \in {url, request} THEN Nothing
       ELSE [request |-> request, audience |-> p.options["audience"]]

KvJwtIdentity(p, e) ==
    IF Jwt(p, e) = Nothing THEN Rejected
    ELSE Identity(<<"jwt">> \o LoginMount(p), With(Jwt(p, e), [role |-> p.options["role"]]))

KvSignIn(p, c, e) ==
    CASE p.options["auth"] = <<"token">>   -> KvTokenIdentity(p, c, e)
      [] p.options["auth"] = <<"approle">> -> KvApproleIdentity(p, c, e)
      [] p.options["auth"] = <<"jwt">>     -> KvJwtIdentity(p, e)

\* The token of the spec comes before the declared one and the environment's.
OnepasswordToken(p, c, e) ==
    OrElse(Option(p, "token"), Material(p, c, e, "service_account_token"))

\* Sessions of the environment are kept from the tool, which signs in with
\* the token or, without one, on its own.
OnepasswordIdentity(p, c, e) ==
    LET token == OnepasswordToken(p, c, e)
    IN IF token # None THEN Identity(<<"token">> \o p.at[1], [token |-> token])
       ELSE Identity(<<"account">> \o p.at[1], Nothing)

\* Device keys are used in a state directory of their own: in the machine's
\* the tool would ignore them for the device registered there.
DashlaneIdentity(p, c, e) ==
    LET keys == Material(p, c, e, "service_device_keys")
    IN IF keys # None THEN Identity(<<"device">>, [keys |-> keys])
       ELSE Identity(<<"machine">>, Nothing)

\* Held in memory where the configuration is given, else in the file.
KeeperIdentity(p, c, e) ==
    LET config == Material(p, c, e, "config")
        token == Material(p, c, e, "token")
        storage == IF config # None THEN config
                   ELSE <<"file">> \o Option(p, "config_file")
    IN Identity(<<"application">>,
                With([config |-> storage], IF token = None THEN Nothing ELSE [token |-> token]))

\* One value and nothing else: the access token of Bitwarden Secrets Manager,
\* the secret key of Scaleway.
KeyIdentity(p, c, e, name) ==
    IF Material(p, c, e, name) = None THEN Rejected
    ELSE Identity(<<"key">>, [key |-> Material(p, c, e, name)])

\* A database is opened by a password, a key file or both.
KdbxIdentity(p, c, e) ==
    LET password == Material(p, c, e, "password")
        keyfile == Option(p, "keyfile")
        opened == [password |-> password, keyfile |-> keyfile]
    IN IF password = None /\ keyfile = None THEN Rejected
       ELSE Identity(<<"database">>, [n \in {m \in DOMAIN opened : opened[m] # None} |-> opened[n]])

SignsIn == {"akv", "infisical", "vault", "openbao", "onepassword", "dashlane",
            "lastpass", "keeper", "bws", "scaleway", "kdbx"}

SignedInAs(p, c, e) ==
    CASE p.kind = "akv"         -> AkvIdentity(p, c, e)
      [] p.kind = "infisical"   -> InfisicalIdentity(p, c, e)
      [] p.kind \in {"vault", "openbao"} -> KvSignIn(p, c, e)
      [] p.kind = "onepassword" -> OnepasswordIdentity(p, c, e)
      [] p.kind = "dashlane"    -> DashlaneIdentity(p, c, e)
      [] p.kind = "lastpass"    -> Identity(<<"session">>, Nothing)
      [] p.kind = "keeper"      -> KeeperIdentity(p, c, e)
      [] p.kind = "bws"         -> KeyIdentity(p, c, e, "access_token")
      [] p.kind = "scaleway"    -> KeyIdentity(p, c, e, "secret_key")
      [] p.kind = "kdbx"        -> KdbxIdentity(p, c, e)

-----------------------------------------------------------------------------
(* The probe of the sign-in, asked once in a process for every scope.      *)

Probes == {"onepassword", "dashlane", "lastpass"}

\* Mutant of AuthScopeKey: the scope of a probe without the token in effect.
ScopeByAccount(p, c, e) ==
    <<p.kind, IF p.kind = "onepassword" THEN p.at[1] ELSE None>>

AuthScopeKey(p, c, e) ==
    <<p.kind,
      CASE p.kind = "onepassword" -> <<p.at[1], OnepasswordToken(p, c, e)>>
        [] p.kind = "dashlane"    -> <<Material(p, c, e, "service_device_keys")>>
        [] p.kind = "lastpass"    -> None>>
=============================================================================
