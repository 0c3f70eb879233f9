---------------------------- MODULE MCAddressing -----------------------------
(* Specs of every kind, the equivalent spellings among them, and names with *)
(* the joints and the braces of the layouts, for TLC.                       *)
EXTENDS Addressing

S(scheme, text, query) == [scheme |-> scheme, text |-> text, query |-> query]
Bare(scheme) == S(scheme, None, Nothing)
Q(name, text) == [n \in {name} |-> text]

\* An empty BAO_ADDR hides VAULT_ADDR from openbao.
MCEnv ==
    [USER |-> <<"me">>, PASSWORD_STORE_DIR |-> <<"/", "store">>,
     CREDENTIALS_DIRECTORY |-> <<"/", "run">>, SCW_DEFAULT_PROJECT_ID |-> <<"i">>,
     VAULT_ADDR |-> <<"https", "host">>, BAO_ADDR |-> None, BAO_NAMESPACE |-> <<"team">>,
     VAULT_JWT_ROLE |-> <<"reader">>, BITWARDEN_DEFAULT_TYPE |-> <<"login">>]

MCBase == <<"/", "app">>
MCHome == <<"/", "home">>
MCInode == [path \in { <<"/", "app", "/", "link">>, <<"/", "link", "/", "store">> } |->
               IF path = <<"/", "app", "/", "link">> THEN <<"/", "app", "/", ".env">>
               ELSE <<"/", "store">>]

ByProfile == <<"team", "/", "{profile}", "/", "{key}">>
Shared == <<"Shared", "/", "{key}">>

LayoutSpecs ==
    {S(k, t, Nothing) : k \in {"keyring", "pass", "gopass"},
                        t \in {None, DefaultLayout, ByProfile, <<"/", "app">>}}
    \cup {S("pass", t, Q("store_dir", d)) : t \in {None, ByProfile},
              d \in { <<"/", "store">>, <<"/", "link", "/", "store">>, <<"/", "own">> }}
    \cup {S("lastpass", t, Nothing) : t \in {None, ByProfile, Shared}}
    \cup {S("protonpass", t, Nothing) : t \in {None, <<"Team">>, <<"Team", "/", "{profile}", "/", "{key}">>,
                                          <<"Team", "/", "{project}", "-", "{profile}", "/", "{key}">>}}

FileSpecs ==
    {S(k, t, Nothing) : k \in {"dotenv", "age", "kdbx"},
         t \in {None, <<"/", "app", "/", ".env">>, <<"link">>, <<"~", "/", "s">>}}
    \cup {S("age", <<"s">>, Q("recipients-file", <<"r">>)), S("age", <<"s">>, Q("armor", <<"false">>)),
          S("kdbx", <<"s">>, Q("prefix", ByProfile)), S("kdbx", <<"s">>, Q("prefix", DefaultLayout)),
          S("kdbx", <<"s">>, Q("keyfile", <<"k">>)), S("kdbx", <<"s">>, Q("other", <<"k">>))}
    \cup {S("sops", t, q) :
              t \in { <<"s", ".yaml">>, <<"s", ".ini">>, <<"s", ".env">>, <<"s">>,
                      <<"d", "/", "{project}", "/", "{profile}", ".yaml">>,
                      <<"{profile}", "-", "{project}", ".ini">>, <<"d", "/", "{project}", ".yaml">> },
              q \in {Nothing, Q("format", <<"json">>), Q("age_key_file", <<"k">>)}}
    \cup {Bare("env"), Bare("systemd-credential"), S("env", <<"x">>, Nothing)}

CloudSpecs ==
    {S(k, t, Nothing) : k \in {"awsps", "awssm"}, t \in {None, <<"eu">>, <<"dev", "@", "eu">>}}
    \cup {S("awsps", None, q) :
              q \in { Q("prefix", <<"/", "team", "/">>), Q("prefix", <<"aws">>), Q("tier", <<"advanced">>),
                      Q("tier", <<"other">>), Q("template", <<"/">> \o ByProfile),
                      Q("template", <<"/", "t", "/", "{profile}", "{project}", "/", "{key}">>),
                      Q("template", ByProfile)}}
    \cup {S("awssm", None, Q("prefix", <<"team">>)), S("awssm", None, Q("kms_key_id", <<"k">>))}
    \cup {S("akv", t, q) : t \in { <<"v">>, <<"v", ".", "vault.azure.net">>, None },
              q \in {Nothing, Q("auth", <<"cli">>), Q("suffix", <<"vault.azure.cn">>)}}
    \cup {S("gcsm", t, Nothing) : t \in { <<"p">>, <<"p", "/", "q">>, <<"p", "-">> }}
    \cup {S("scaleway", t, q) : t \in {None, <<"fr-par">>},
              q \in {Nothing, Q("path", <<"team", "/">>), Q("project_id", <<"i">>)}}

ServerSpecs ==
    {S("infisical", t, q) : t \in {None, <<"host">>, <<"/", "p">>, <<"host", "/", "p">>, <<"p", "/", "q", "/", "r">>},
         q \in {Nothing, Q("env", <<"prod">>), Q("path", <<"/">>), Q("tls", <<"false">>),
                Q("tls", <<"no">>)}}
    \cup {S(k, t, q) : k \in {"vault", "openbao"},
              t \in {None, <<"host">>, <<"team", "@", "host">>, <<"host", "/", "kv">>, <<"@">>},
              q \in {Nothing, Q("kv", <<"1">>), Q("tls", <<"0">>), Q("auth", <<"jwt">>),
                     [auth |-> <<"approle">>, auth_mount |-> <<"/", "approle">>],
                     [auth |-> <<"jwt">>, role |-> <<"reader">>], Q("auth_mount", <<"m">>)}}

ManagerSpecs ==
    {S("bw", t, Nothing) : t \in {None, <<"localhost">>, <<"c">>, <<"o", "@", "c">>}}
    \cup {S("bw", None, q) :
              q \in {Q("org", <<"o">>), Q("organization", <<"o">>), Q("folder", <<"f">>),
                     Q("field", <<"f">>), [org |-> <<"o">>, collection |-> <<"c">>],
                     Q("type", <<"login">>), Q("server", <<"s">>), Q("other", <<"s">>)}}
    \cup {S("bws", t, Nothing) : t \in {None, <<"p">>, <<"s", "@", "p">>}}
    \cup {S(k, t, Nothing) : k \in {"onepassword", "onepassword+token", "op"},
              t \in {None, <<"V">>, <<"a", "@", "V">>, <<"b", "@", "V">>, <<"V", "/", "x">>}}
    \cup {S("keeper", t, q) : t \in {None, <<"f">>, <<"g">>}, q \in {Nothing, Q("config_file", <<"c">>)}}
    \cup {S("dashlane", t, Nothing) : t \in {None, <<"password">>, <<"note">>, <<"other">>}}

MCSpecs == LayoutSpecs \cup FileSpecs \cup CloudSpecs \cup ServerSpecs \cup ManagerSpecs
              \cup {Bare("nosuch")}

Key == <<"KEY">>

MCAddresses ==
    {Convention(a, b, Key) :
        a \in { <<"app">>, <<"app", "-", "-", "web">>, <<"{profile}">> },
        b \in { <<"dev">>, <<"web", "-", "-", "dev">>, <<"app">> }}
    \cup { Convention(<<"app">>, <<"dev">>, <<"OTHER">>),
           Convention(<<"app", "/", "dev">>, <<"dev">>, Key),
           Convention(<<"app">>, <<"dev", "/", "dev">>, Key),
           Item(Key), Item(<<"secretspec", "/", "app", "/", "dev", "/", "KEY">>),
           Coords(<<"secretspec", "/", "app", "/", "dev", "/", "KEY">>, <<"value">>,
                  None, None, None),
           Item(<<"KEY", "/">>),
           Coords(Key, <<"me">>, None, None, None), Coords(Key, <<"f">>, <<"V">>, <<"s">>, None),
           Coords(<<"/", "KEY">>, None, None, None, <<"2">>) }

\* A declared token may be the very one a 1Password spec spells out.
MCDeclared == {<<"mine">>, <<"a">>, None}
MCAmbient == {<<"theirs">>, None}
MCFiles == { <<"theirs", "/", ".vault-token">> }
=============================================================================
