----------------------------- MODULE MCManifest -----------------------------
(***************************************************************************)
(* Small instances of Manifest for TLC: inheritance graphs of four files    *)
(* that define the same secret, and single files with all combinations of   *)
(* a few ways to declare two secrets in two profiles, with scopes or not.   *)
(***************************************************************************)
EXTENDS Manifest, TLC

CONSTANTS app, left, right, common, default, prod, url, key, grp

Plain == [described |-> TRUE, required |-> Unset, at_least |-> {}, exactly |-> {},
          default |-> FALSE, generate |-> Unset, composed |-> {}, providers |-> Unset]
Bare  == [Plain EXCEPT !.described = FALSE]

Tbl(d, u, k) == [defaults |-> d, secrets |-> (url :> u @@ key :> k)]

(* Ways to declare a secret, here and where it overrides another.           *)
Ways == {Unset, Plain, [Plain EXCEPT !.required = TRUE], [Plain EXCEPT !.required = FALSE],
         [Plain EXCEPT !.default = TRUE], [Plain EXCEPT !.generate = TRUE],
         [Plain EXCEPT !.composed = {key}], [Plain EXCEPT !.composed = {url}],
         [Plain EXCEPT !.at_least = {grp}], [Plain EXCEPT !.exactly = {grp}]}
Overrides == {Unset, [Bare EXCEPT !.default = TRUE], [Bare EXCEPT !.required = FALSE],
              [Plain EXCEPT !.composed = {url}], [Bare EXCEPT !.exactly = {grp}]}
SomeDefaults == {Unset, [required |-> FALSE, default |-> FALSE], [required |-> Unset, default |-> TRUE]}

Blank == [p \in Profiles |-> Unset]
Alone == [d \in Docs |-> <<>>]
NoScope == [d \in Docs |-> Unset]

Declared ==
    {[extends |-> Alone, scope |-> NoScope,
      text |-> [d \in Docs |-> IF d = app THEN (default :> Tbl(Unset, u, k) @@ prod :> t) ELSE Blank]] :
        u \in Ways, k \in Ways,
        t \in {Unset} \cup {Tbl(d, ou, ok) : d \in SomeDefaults, ou \in Overrides, ok \in Overrides}}

(* A scope over them, also one that lists nothing, a name twice, a blank    *)
(* name or one that nothing declares.                                       *)
Scopes == {<<>>, <<url>>, <<key>>, <<url, key>>, <<url, url>>, <<url, Unset>>}
Scoped ==
    {[extends |-> Alone, scope |-> [d \in Docs |-> IF d = app THEN s ELSE Unset],
      text |-> [d \in Docs |-> IF d = app THEN (default :> Tbl(Unset, u, Unset) @@ prod :> t) ELSE Blank]] :
        s \in Scopes, u \in Ways,
        t \in {Unset} \cup {Tbl(d, ou, ok) : d \in SomeDefaults, ou \in {Unset, Bare}, ok \in Ways}}

(* Each file defines url in default and says so in `providers`.             *)
Lists == {<<>>} \cup {<<d>> : d \in Docs \cup {Unset}}
               \cup {<<d, e>> : d \in Docs \ {app}, e \in Docs \ {app}}
ScopeAbove == [d \in Docs |-> IF d \in {left, common} THEN <<url>> ELSE Unset]
Few   == {<<>>, <<common>>, <<left>>, <<app>>, <<common, right>>, <<right, left>>}
Graphs ==
    {[extends |-> (app :> a @@ left :> l @@ right :> r @@ common :> c), scope |-> ScopeAbove,
      text |-> [d \in Docs |->
                 default :> Tbl(Unset, [Plain EXCEPT !.providers = d], Unset) @@ prod :> Unset]] :
        a \in Lists, l \in Few, r \in Few, c \in Few}

AllWorlds == Declared \cup Scoped \cup Graphs
=============================================================================
