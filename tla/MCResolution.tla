--------------------------- MODULE MCResolution ---------------------------
(***************************************************************************)
(* Small instances of Resolution for TLC: two provider-backed secrets, a   *)
(* composition of them and a composition of that one, over two stores.     *)
(***************************************************************************)
EXTENDS Resolution, TLC

CONSTANTS p1, p2,               \* processes
          vault, keyring,       \* stores
          host, password,       \* provider-backed secrets
          dsn, url              \* composed secrets

AllNames == <<dsn, host, password, url>>

OnRoutes(forHost, forPassword) ==
    (host :> forHost) @@ (password :> forPassword) @@ (dsn :> <<>>) @@ (url :> <<>>)

IfMissing(h, w, d, u) == (host :> h) @@ (password :> w) @@ (dsn :> d) @@ (url :> u)

Parts == (host :> {}) @@ (password :> {}) @@ (dsn :> {host, password}) @@ (url :> {dsn})

(* A chain in front of a store that may generate. *)
Generated ==
    [route |-> OnRoutes(<<vault, keyring>>, <<vault>>), parts |-> Parts,
     missing |-> IfMissing("error", "generate", "error", "omit"),
     atLeastOne |-> {}, exactlyOne |-> {}, scopes |-> {{dsn}},
     tooLarge |-> {}, unfit |-> {}]

(* Two chains in opposite orders, a default, and one of two required. *)
Crossed ==
    [Generated EXCEPT !.route = OnRoutes(<<vault, keyring>>, <<keyring, vault>>),
                      !.missing = IfMissing("default", "omit", "omit", "omit"),
                      !.exactlyOne = {{password, url}}, !.tooLarge = {url},
                      !.scopes = {{host, url}}]

(* A `ref` the first store of its chain cannot express. *)
Unfit ==
    [Generated EXCEPT !.missing = IfMissing("generate", "error", "omit", "omit"),
                      !.atLeastOne = {{host, password}}, !.unfit = {<<vault, host>>},
                      !.scopes = {{password, dsn}}]

(* A `ref` its only store cannot express. *)
Misfit ==
    [Generated EXCEPT !.unfit = {<<vault, password>>}, !.scopes = {{}}]

(* Two secrets to prompt for, and a `ref` that fails the group of both. *)
Misled ==
    [Generated EXCEPT !.route = OnRoutes(<<vault, keyring>>, <<vault, keyring>>),
                      !.missing = IfMissing("error", "error", "omit", "omit"),
                      !.unfit = {<<vault, password>>}, !.scopes = {{host}}]

AllProfiles == {Generated, Crossed, Unfit, Misfit, Misled}

OneMayPrompt == (p1 :> {"report", "run", "get"}) @@ (p2 :> {"check"})
=============================================================================
