---------------------------- MODULE LocalAddress -----------------------------
(***************************************************************************)
(* How the providers of this machine are configured and named: the CLI     *)
(* password stores (keyring, pass, gopass, LastPass, Proton Pass), whose   *)
(* spec is a layout of item names, and the files (.env, age, KeePass,      *)
(* SOPS), whose spec is a path, with the two read-only environments.       *)
(* For each kind: XConfig reads the spec, XUri prints it back as the text  *)
(* and the query of the provider's uri(), and the places a get looks in.   *)
(***************************************************************************)
EXTENDS ProviderUrl

CONSTANTS Base,    \* the directory of the manifest, a text
          Home,    \* the home directory, a text
          Inode    \* path -> the file it leads to, for the paths that alias

LOCAL HostLayout(url) == IF url.host = None THEN None ELSE HostAndPath(url)

-----------------------------------------------------------------------------
(* Stores whose spec is a layout.                                          *)

KeyringConfig(url) == Opened("keyring", None, HostLayout(url), Nothing)

KeyringUri(p) == <<p.layout, Nothing>>

\* An account is given by the ref or is the user's own.
KeyringEntry(c) == <<c.item, OrElse(c.field, Variable("USER"))>>

PassConfig(url) ==
    Opened("pass", QueryValue(url, "store_dir"), HostLayout(url), Nothing)

PassUri(p) == <<p.layout, [store_dir |-> p.at]>>

PassStore(p) == OrElse(p.at, Variable("PASSWORD_STORE_DIR"))

GopassConfig(url) == Opened("gopass", None, HostLayout(url), Nothing)

GopassUri(p) == <<p.layout, Nothing>>

LastpassConfig(url) == Opened("lastpass", None, HostLayout(url), Nothing)

\* Only the first folder of the layout is printed, and "Shared" not at all.
LastpassUri(p) ==
    LET folder == Before(p.layout, "/")
    IN <<IF folder = <<"Shared">> THEN None ELSE folder, Nothing>>

ProtonpassConfig(url) ==
    Opened("protonpass", url.host, TrimLeft(url.path), Nothing)

\* A layout without a vault is not printed.
ProtonpassUri(p) ==
    <<IF p.at = None THEN None
      ELSE IF p.layout = None THEN p.at ELSE p.at \o <<"/">> \o p.layout,
      Nothing>>

ProtonpassLayout(p) ==
    OrElse(p.layout, <<"{project}", "/", "{profile}", "/", "{key}">>)

ProtonpassVault(p) == OrElse(p.at, <<"secretspec">>)

-----------------------------------------------------------------------------
(* Stores whose spec is a path.                                            *)

PathOr(url, default) ==
    IF url.path \notin {None, <<"/">>} THEN HostAndPath(url) ELSE OrElse(url.host, default)

ExpandTilde(path) ==
    IF path # None /\ Head(path) = "~" THEN Home \o Tail(path) ELSE path

DotenvConfig(url) ==
    Opened("dotenv", Rebased(ExpandTilde(PathOr(url, <<".env">>)), Base), None, Nothing)

DotenvUri(p) == <<IF p.at = <<".env">> THEN None ELSE p.at, Nothing>>

\* The same file, whatever its path.
PhysicalFile(path) == IF path \in DOMAIN Inode THEN Inode[path] ELSE path

\* A variable's name holds no "-", no "/" and no brace.
EnvKey(text) ==
    text # None /\ \A i \in DOMAIN text : text[i] \notin Placeholders \cup {"/", "-"}

AgeConfig(url) ==
    LET options == Given(url, {"recipients-file"})
        plain == QueryValue(url, "armor") = <<"false">>
    IN Opened("age", Rebased(PathOr(url, <<"secrets.age">>), Base), None,
              With([n \in DOMAIN options |-> Rebased(options[n], Base)],
                   IF plain THEN [armor |-> <<"false">>] ELSE Nothing))

\* The identity opens the file; it is a credential and is not printed.
AgeUri(p) == <<p.at, p.options>>

KdbxConfig(url) ==
    IF \/ HostAndPath(url) \in {None, <<"/">>}
       \/ ~(DOMAIN url.query \subseteq {"keyfile", "prefix"})
       \/ \E n \in DOMAIN url.query : url.query[n] = None
    THEN Rejected
    ELSE LET prefix == QueryValue(url, "prefix")
             options == Given(url, {"keyfile"})
         IN Opened("kdbx", Rebased(HostAndPath(url), Base),
                   IF prefix = DefaultLayout THEN None ELSE prefix,
                   [n \in DOMAIN options |-> Rebased(options[n], Base)])

KdbxUri(p) == <<p.at, With(p.options, [prefix |-> p.layout])>>

\* Group and entry names of a path in the database may not be empty.
KdbxLocation(c) ==
    LET empty(i) == c.item[i] = "/" /\ (i \in {1, Len(c.item)} \/ c.item[i + 1] = "/")
    IN IF c.item = None \/ \E i \in DOMAIN c.item : empty(i)
       THEN Rejected
       ELSE <<c.item, OrElse(c.field, <<"Password">>)>>

-----------------------------------------------------------------------------
(* SOPS.                                                                   *)

\* The options of the SOPS command a spec may set, all printed back.
SopsOptions ==
    {"age_key_cmd", "age_recipients", "age_ssh_private_key_cmd", "kms_arn",
     "aws_profile", "aws_access_key_id", "aws_region", "azure_client_id",
     "azure_tenant_id", "azure_keyvault_urls", "gcp_kms_client_type",
     "gcp_kms_endpoint", "gcp_kms_ids", "gcp_kms_universe_domain", "pgp_fp",
     "gpg_exec", "hc_vault_addr", "hc_vault_allowlist", "huawei_sdk_project_id",
     "huawei_kms_ids", "sops_decryption_order", "sops_editor",
     "sops_enable_local_keyservice", "sops_keyservice", "age_key_file",
     "age_ssh_private_key_file", "sops_config"}

LOCAL Extension(path) ==
    LET last == IF path = None THEN "" ELSE Last(path)
    IN CASE last \in {".yaml", ".yml"} -> <<"yaml">>
         [] last = ".json"             -> <<"json">>
         [] last \in {".env", ".dotenv"} -> <<"env">>
         [] last = ".ini"              -> <<"ini">>
         [] OTHER                      -> None

SopsRawPath(url) ==
    LET host == IF url.host = <<"localhost">> THEN None ELSE url.host
    IN IF url.path \in {None, <<"/">>} THEN OrElse(host, <<"secrets.enc", ".yaml">>)
       ELSE IF host = None THEN url.path
       ELSE host \o <<"/">> \o TrimLeft(url.path)

\* With placeholders, all up to the "/" before the first is the directory,
\* and both placeholders must be there.
SopsPattern(raw) ==
    LET first == SelectInSeq(raw, LAMBDA t : t \in Placeholders)
        prefix == SubSeq(raw, 1, first - 1)
    IN IF Holds(prefix, "/")
       THEN <<Folder(prefix), SubSeq(raw, LastSlash(prefix) + 1, Len(raw))>>
       ELSE <<None, raw>>

SopsConfig(url) ==
    LET raw == SopsRawPath(url)
        asked == QueryValue(url, "format")
        format == OrElse(asked, Extension(raw))
        templated == \E i \in DOMAIN raw : raw[i] \in Placeholders
    IN IF \/ ~(DOMAIN url.query \subseteq SopsOptions \cup {"format"})
          \/ format = None
          \/ asked = <<"ini">> /\ Extension(raw) # <<"ini">>
          \/ templated /\ (~Holds(raw, "{project}") \/ ~Holds(raw, "{profile}")
                            \/ Holds(raw, "{key}"))
       THEN Rejected
       ELSE Opened("sops", IF templated THEN SopsPattern(raw)[1] ELSE raw,
                   IF templated THEN SopsPattern(raw)[2] ELSE None,
                   With([format |-> format], Given(url, SopsOptions)))

SopsUri(p) ==
    <<IF p.layout = None THEN p.at
      ELSE IF p.at = None THEN p.layout ELSE p.at \o <<"/">> \o p.layout,
      p.options>>

SopsFile(p, a) ==
    Rebased(IF p.layout = None THEN p.at
            ELSE IF p.at = None THEN Format(p.layout, a)
            ELSE p.at \o <<"/">> \o Format(p.layout, a), Base)

\* Where a get looks inside the file, in this order; a set writes the first.
SopsLookupPaths(p, a) ==
    LET format == p.options["format"]
        default == <<"DEFAULT">>
        native == a.form = "native"
        key == IF native THEN a.item ELSE a.key
    IN IF p.layout # None /\ format = <<"ini">> THEN << <<default, key>> >>
       ELSE IF p.layout # None \/ format = <<"env">> THEN << <<key>> >>
       ELSE IF format = <<"ini">> THEN
                << <<IF native THEN default ELSE a.profile, key>>, <<key>> >>
       ELSE IF native THEN << <<key>> >>
       ELSE << <<a.project, a.profile, key>>, <<a.profile, key>>, <<key>> >>

\* A ref names no project and no profile, so a pattern has no file for it.
SopsPlaces(p, a) ==
    IF a.form = "native" /\ (p.layout # None \/ ~Supported(a, {}))
    THEN Rejected
    ELSE LET paths == SopsLookupPaths(p, a)
         IN [i \in DOMAIN paths |-> << <<"sops", SopsFile(p, a)>>, paths[i]>>]

-----------------------------------------------------------------------------
(* Read-only environments.                                                 *)

EnvConfig(url) == IF url.host # None THEN Rejected ELSE Opened("env", None, None, Nothing)

SystemdConfig(url) ==
    IF url.user # None \/ url.host # None \/ Trim(url.path) # None \/ DOMAIN url.query # {}
    THEN Rejected
    ELSE Opened("systemd-credential", None, None, Nothing)

\* One file name inside the directory systemd passed.
SystemdName(c) ==
    IF c.item = None \/ Holds(c.item, "/") \/ Variable("CREDENTIALS_DIRECTORY") = None
    THEN Rejected
    ELSE Variable("CREDENTIALS_DIRECTORY") \o <<"/">> \o c.item
=============================================================================
