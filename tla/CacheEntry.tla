----------------------------- MODULE CacheEntry -----------------------------
(***************************************************************************)
(* What can sit at one address of a cache store, and what a stored entry   *)
(* is worth to the operation that finds it (cache.rs, and `cached_entry`   *)
(* in secrets.rs).                                                         *)
(*                                                                         *)
(* An entry SecretSpec wrote for this project and profile carries the      *)
(* fingerprint of the route it answers for, the wall-clock time it was     *)
(* written and the value.  Three history fields follow it so that          *)
(* properties can speak of how it came to be: `asked`, the real time at    *)
(* which the operation that wrote it began; `stored`, the real time at     *)
(* which it was encoded; `skipped`, the links of the chain that operation  *)
(* passed over because they failed.  No definition below reads them.       *)
(*                                                                         *)
(* Definitions whose name says what they leave out (ExpiredNoAge, ...) are *)
(* altered forms of the one that follows; no specification uses them.      *)
(***************************************************************************)
EXTENDS Integers

CONSTANTS Fingerprints,   \* what `stable_fingerprint` can yield
          Values          \* what a secret can be set to

Absent   == [kind |-> "absent"]    \* nothing is stored
Foreign  == [kind |-> "foreign"]   \* an envelope naming another project or profile
Torn     == [kind |-> "torn"]      \* our marker, an unreadable payload
Unmarked == [kind |-> "unmarked"]  \* a value with no SecretSpec marker

Envelope == [kind : {"ours"}, route_fingerprint : Fingerprints, cached_at : Nat,
             value : Values, asked : Nat, stored : Nat, skipped : SUBSET Nat]

Entry == {Absent, Foreign, Torn, Unmarked} \cup Envelope

(* `ownership`: decided by the marker and the envelope alone. *)
Ownership(e) ==
    CASE e.kind = "ours"     -> "Ours"
      [] e.kind = "torn"     -> "OursUnreadable"
      [] e.kind = "foreign"  -> "Foreign"
      [] e.kind = "unmarked" -> "Unrecognized"

(* `inspect_owned_entry_at`: an entry from the future is as useless as one *)
(* past its age.                                                           *)
ExpiredNoAge(e, maxAge, wall) == e.cached_at > wall

Expired(e, maxAge, wall) == e.cached_at > wall \/ wall - e.cached_at > maxAge

(* `cached_entry` over `inspect_entry`: what the read may do with it.  The  *)
(* clock is consulted last, and a clock that cannot be read makes the entry *)
(* unusable rather than fresh.                                              *)
CachedEntryAnyRoute(e, fingerprint, maxAge, wall, clockOk) ==
    IF e.kind = "ours" /\ clockOk /\ ~Expired(e, maxAge, wall) THEN "Fresh"
    ELSE IF e.kind \in {"ours", "torn"} THEN "Stale" ELSE "Foreign"

CachedEntryPlainMiss(e, fingerprint, maxAge, wall, clockOk) ==
    IF /\ e.kind = "ours" /\ e.route_fingerprint = fingerprint
       /\ clockOk /\ ~Expired(e, maxAge, wall) THEN "Fresh" ELSE "Foreign"

CachedEntry(e, fingerprint, maxAge, wall, clockOk) ==
    CASE Ownership(e) \in {"Foreign", "Unrecognized"} -> "Foreign"
      [] Ownership(e) = "OursUnreadable"              -> "Stale"
      [] Ownership(e) = "Ours" ->
           IF \/ e.route_fingerprint # fingerprint
              \/ ~clockOk
              \/ Expired(e, maxAge, wall)
           THEN "Stale" ELSE "Fresh"

(* `check_cache_address_is_ours` on what its read returned: an address is   *)
(* refused only on evidence that somebody else's value is there.            *)
MayChangeUnmarked(e) == e # Absent => Ownership(e) # "Foreign"

MayChange(e) == e # Absent => Ownership(e) \in {"Ours", "OursUnreadable"}
=============================================================================
