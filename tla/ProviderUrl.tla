----------------------------- MODULE ProviderUrl -----------------------------
(***************************************************************************)
(* The texts provider specs are made of, a spec read as a URL, the layout  *)
(* templates that turn a secret's project, profile and key into the name   *)
(* of an item, and the two forms an address takes.                         *)
(*                                                                         *)
(* A text is a sequence of tokens: words, the delimiters "/", "@" and "-"  *)
(* and the placeholders of a layout.  An absent text is the empty one, as  *)
(* the code filters empty values out before it uses them.                  *)
(***************************************************************************)
EXTENDS Naturals, Sequences, SequencesExt

CONSTANTS Rejected,   \* what a spec or an address that is refused yields
          Env         \* the environment: a variable that is set -> its text

None == <<>>

Placeholders == {"{project}", "{profile}", "{key}"}

Holds(text, token) == \E i \in DOMAIN text : text[i] = token

\* The text before the first token of that kind, and what follows it.
Until(text, token) == SelectInSeq(text, LAMBDA t : t = token)
Before(text, token) ==
    IF Holds(text, token) THEN SubSeq(text, 1, Until(text, token) - 1) ELSE text
StartingAt(text, token) == SubSeq(text, Len(Before(text, token)) + 1, Len(text))

\* The text before the last "/", and what follows it.
LastSlash(text) == SelectLastInSeq(text, LAMBDA t : t = "/")
Folder(text) == SubSeq(text, 1, LastSlash(text) - 1)
Leaf(text) == SubSeq(text, LastSlash(text) + 1, Len(text))

\* Without the "/" at either end.
NotSlash(text) == {i \in DOMAIN text : text[i] # "/"}
TrimLeft(text) ==
    IF NotSlash(text) = {} THEN None ELSE SubSeq(text, Min(NotSlash(text)), Len(text))
TrimRight(text) ==
    IF NotSlash(text) = {} THEN None ELSE SubSeq(text, 1, Max(NotSlash(text)))
Trim(text) == TrimRight(TrimLeft(text))

OrElse(text, default) == IF text = None THEN default ELSE text

Variable(name) == IF name \in DOMAIN Env THEN Env[name] ELSE None

\* The first of the variables that is set, though it be empty.
FirstSet(env, names) ==
    LET set == {i \in DOMAIN names : names[i] \in DOMAIN env}
    IN IF set = {} THEN None ELSE env[names[Min(set)]]

PreferredEnv(names) == FirstSet(Env, names)

-----------------------------------------------------------------------------
(* Specs.                                                                  *)

\* Every way to write a spec, "kind:rest", "kind:/rest" and "kind://rest",
\* is read as kind://rest: the authority up to the first "/", a user before
\* its last "@".  A user without a host is no URL.
Url(scheme, text, query) ==
    LET authority == Before(text, "/")
        at == SelectLastInSeq(authority, LAMBDA t : t = "@")
        user == SubSeq(authority, 1, at - 1)
        host == SubSeq(authority, at + 1, Len(authority))
    IN IF Holds(authority, "@") /\ host = None
       THEN Rejected
       ELSE [scheme |-> scheme, user |-> user, host |-> host,
             path |-> StartingAt(text, "/"), query |-> query]

QueryValue(url, name) == IF name \in DOMAIN url.query THEN url.query[name] ELSE None

HostAndPath(url) == url.host \o url.path

\* The options among names that the query gives.
Given(url, names) == [n \in {m \in names : QueryValue(url, m) # None} |-> QueryValue(url, n)]

Nothing == [n \in {} |-> None]

(***************************************************************************)
(* A provider as its spec configured it: where its container is, the       *)
(* layout of its names when one is configured, and the other options its   *)
(* own URI repeats.                                                        *)
(***************************************************************************)
Opened(kind, at, layout, options) ==
    [kind |-> kind, at |-> at, layout |-> layout, options |-> options]

\* Every option of the first, and of the second those it does not have.
With(f, g) ==
    [n \in DOMAIN f \cup DOMAIN g |-> IF n \in DOMAIN f THEN f[n] ELSE g[n]]

Option(p, name) == IF name \in DOMAIN p.options THEN p.options[name] ELSE None

\* A relative path is taken from the directory of the manifest.
Rebased(path, base) ==
    IF path = None \/ Head(path) = "/" THEN path ELSE base \o <<"/">> \o path

-----------------------------------------------------------------------------
(* Layouts and addresses.                                                  *)

DefaultLayout ==
    <<"secretspec", "/", "{project}", "/", "{profile}", "/", "{key}">>

Replace(text, placeholder, value) ==
    FlattenSeq([i \in DOMAIN text |->
                    IF text[i] = placeholder THEN value ELSE <<text[i]>>])

\* One placeholder after the other, each in what the one before it left.
Fill(layout, a) ==
    Replace(Replace(Replace(layout, "{project}", a.project),
                    "{profile}", a.profile),
            "{key}", a.key)

\* All placeholders at once, so that a substituted name is not looked at again.
Format(layout, a) ==
    FlattenSeq([i \in DOMAIN layout |->
                    CASE layout[i] = "{project}" -> a.project
                      [] layout[i] = "{profile}" -> a.profile
                      [] layout[i] = "{key}"     -> a.key
                      [] OTHER                   -> <<layout[i]>>])

Convention(project, profile, key) ==
    [form |-> "convention", project |-> project, profile |-> profile, key |-> key]

Coords(item, field, vault, section, version) ==
    [form |-> "native", item |-> item, field |-> field, vault |-> vault,
     section |-> section, version |-> version]

Item(text) == Coords(text, None, None, None, None)

CoordNames == {"field", "vault", "section", "version"}

\* Only what the provider understands may be given besides the item.
Supported(coords, names) ==
    coords # Rejected => \A c \in CoordNames \ names : coords[c] = None

\* Letters, digits, "_" and "-".
Word(text) ==
    text # None /\ \A i \in DOMAIN text : text[i] \notin Placeholders \cup {"/", "."}
=============================================================================
