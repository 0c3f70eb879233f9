---------------------------- MODULE MCItemVault ----------------------------
(***************************************************************************)
(* Small instances of ItemVault for TLC: an item n that an older bw search *)
(* does not find, and m, whose search also finds n.                        *)
(***************************************************************************)
EXTENDS ItemVault, TLC

CONSTANTS app, ci, n, m, v1, v2, ours, theirs, team, ops, unset, placeholder

At3(k, item, type, field, org, coll, native) ==
    [kind |-> k, item |-> item, type |-> type, field |-> field, org |-> org, coll |-> coll,
     native |-> native]

(* ours has the collections team (id 1) and ops (id 2), theirs a team (3);  *)
(* 4 is a 1Password vault.                                                  *)
SomeCollections ==
    {[id |-> 1, name |-> team, org |-> ours], [id |-> 2, name |-> ops, org |-> ours],
     [id |-> 3, name |-> team, org |-> theirs], [id |-> 4, name |-> unset, org |-> unset]}

SomeAddrs ==
    {At3("bw", n, unset, unset, ours, team, FALSE),
     At3("bw", n, "note", "key", unset, 1, TRUE),
     At3("bw", m, "ssh", unset, unset, unset, FALSE),
     At3("bw", m, unset, unset, unset, team, FALSE),
     At3("op", n, unset, unset, unset, 4, FALSE),
     At3("op", n, unset, "api_key", unset, 4, TRUE)}

Of(name, type, org, coll, field, v) ==
    [name |-> name, type |-> type, org |-> org, coll |-> coll,
     fields |-> [Blanks EXCEPT ![field] = v]]

Empty == [i \in Ids |-> NoItem]

SomeVaults ==
    {Empty, [Empty EXCEPT ![1] = Of(n, "note", ours, 2, "value", v2)],
     [Empty EXCEPT ![1] = Of(n, "note", ours, 1, "api_key", v2)],
     [Empty EXCEPT ![1] = Of(n, "card", ours, 1, "number", v2)],
     [Empty EXCEPT ![1] = Of(n, "identity", ours, 1, "username", v2)],
     [Empty EXCEPT ![1] = Of(n, "op", unset, 4, "password", v2)]}

SomePartial  == {<<"api_key", "key">>}
SomeSimilar  == {<<n, m>>}

(* Where reads miss what writes find: a search for n finds m, and n is read *)
(* in the whole vault.                                                      *)
BothSimilar == {<<n, m>>, <<m, n>>}
MoreAddrs   == SomeAddrs \cup {At3("bw", n, unset, unset, unset, unset, FALSE)}

TwoProcs == Permutations(Procs)
=============================================================================
