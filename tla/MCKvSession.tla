---------------------------- MODULE MCKvSession ----------------------------
(* Instances of KvSession for TLC.                                         *)
EXTENDS KvSession, TLC

CONSTANTS p1, p2, a, b, c, d

ThePathOf == (a :> p1) @@ (b :> p2) @@ (c :> p1) @@ (d :> p2)

TheBatches == {{a, b, c}, {a, d}}

Said(uses, lease) == [uses |-> uses, lease |-> lease, saysUses |-> TRUE, saysLease |-> TRUE]

(* Unlimited and limited tokens, with and without a lease, and responses    *)
(* that leave out what was granted.                                         *)
TheGrants == {Said(0, 0), Said(1, 10), Said(2, 10),
              [Said(3, 1) EXCEPT !.saysLease = FALSE]}
=============================================================================
