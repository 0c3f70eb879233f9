--------------------------- MODULE CredentialMemo ---------------------------
(***************************************************************************)
(* `ProviderCredentialsCache` of secrets.rs: the credentials a provider    *)
(* alias declares are fetched once per alias and profile (`get_or_try_init`*)
(* over `resolve_provider_credentials`), shared by every thread of one     *)
(* `Secrets`, and forgotten when `store_provider_credential` rotates one.  *)
(*                                                                         *)
(* A key's slot is a mutex around the memoized credentials; the map from   *)
(* keys to slots has a mutex of its own, held only for a look or a change, *)
(* so a step that takes it is atomic.  A slot is an `Arc`: one that has    *)
(* left the map lives on in the calls that still hold it, and is free for  *)
(* reuse here when none does.                                              *)
(*                                                                         *)
(* ForgottenAlways and the like are altered forms of the definition that   *)
(* follows; the specification does not use them.                           *)
(***************************************************************************)
EXTENDS Integers, Sequences, Functions

CONSTANTS
    Callers,     \* threads that build providers from one `Secrets`
    Keys,        \* (alias, profile) pairs
    Slots,       \* identities of slots
    Names,       \* the declared credentials, in the order they are read
    Faults,      \* the failures that may happen, a subset of FaultKinds
    MaxVersion   \* bound: rotations of each credential

FaultKinds == {"read", "store", "ack"}
Credential == Range(Names)
Fetched    == [Credential -> 0..MaxVersion]
NoValue    == <<>>       \* nothing is memoized
NoSlot     == "no slot"
Nobody     == "nobody"

ASSUME ConstantsAssumption ==
    /\ Names \in Seq(Credential) \ {<<>>}
    /\ Keys # {}
    /\ NoSlot \notin Slots
    /\ Nobody \notin Callers
    /\ Faults \subseteq FaultKinds
    /\ MaxVersion \in Nat

VARIABLES
    entries,  \* the map: the slot of each key, or NoSlot
    slot,     \* what each slot memoizes and which call holds its mutex
    call,     \* where each thread is in `get_or_try_init`
    login,    \* where the login is in its list of credentials
    source,   \* the version of each credential in its source store
    settled   \* history: the version of each whose rotation was reported done

vars == <<entries, slot, call, login, source, settled>>
-----------------------------------------------------------------------------
Fails(kind) == kind \in Faults
Empty == [owner |-> Nobody, credentials |-> NoValue]

Idle == [pc |-> "idle", key |-> CHOOSE k \in Keys : TRUE, slot |-> NoSlot, next |-> 1,
         read |-> [n \in Credential |-> 0], asked |-> [n \in Credential |-> 0],
         result |-> "none"]

CallType ==
    [pc : {"idle", "lock", "resolve", "fail", "forget", "done"}, key : Keys,
     slot : Slots \cup {NoSlot}, next : 1..Len(Names) + 1, read : Fetched,
     asked : Fetched, result : {"none", "ok", "error"}]

Held(c) == slot[call[c].slot]

Free(s) == s \notin Range(entries) /\ \A c \in Callers : call[c].slot # s

Init ==
    /\ entries = [k \in Keys |-> NoSlot]
    /\ slot = [s \in Slots |-> Empty]
    /\ call = [c \in Callers |-> Idle]
    /\ login = [pc |-> "store", at |-> 1]
    /\ source = [n \in Credential |-> 0]
    /\ settled = [n \in Credential |-> 0]
-----------------------------------------------------------------------------
(* A call takes its key's slot, a new one if the map has none.              *)
Reused(k) == entries[k] # NoSlot

LookUp(c, k) ==
    /\ call[c].pc = "idle"
    /\ \E s \in Slots :
         /\ IF Reused(k) THEN s = entries[k]
            ELSE Free(s) /\ s = CHOOSE f \in Slots : Free(f)
         /\ call' = [call EXCEPT ![c] = [Idle EXCEPT !.pc = "lock", !.key = k, !.slot = s,
                                                     !.asked = settled]]
         /\ entries' = [entries EXCEPT ![k] = s]
         /\ slot' = IF Reused(k) THEN slot ELSE [slot EXCEPT ![s] = Empty]
    /\ UNCHANGED <<login, source, settled>>

(* Populated, the slot answers at once; empty, it is held while resolving.  *)
Acquire(c) ==
    /\ call[c].pc = "lock"
    /\ Held(c).owner = Nobody
    /\ \/ /\ Held(c).credentials # NoValue
          /\ call' = [call EXCEPT ![c].pc = "done", ![c].slot = NoSlot,
                                  ![c].read = Held(c).credentials, ![c].result = "ok"]
          /\ UNCHANGED slot
       \/ /\ Held(c).credentials = NoValue
          /\ call' = [call EXCEPT ![c].pc = "resolve"]
          /\ slot' = [slot EXCEPT ![call[c].slot].owner = c]
    /\ UNCHANGED <<entries, login, source, settled>>

(* `resolve_provider_credentials`: the sources are read one after another;  *)
(* the first failure, or missing value, ends it.                            *)
ReadCredential(c) ==
    /\ call[c].pc = "resolve"
    /\ call[c].next \in DOMAIN Names
    /\ LET n == Names[call[c].next]
       IN \/ call' = [call EXCEPT ![c].read[n] = source[n], ![c].next = @ + 1]
          \/ /\ Fails("read")
             /\ call' = [call EXCEPT ![c].pc = "fail", ![c].next = 1, ![c].read = Idle.read]
    /\ UNCHANGED <<entries, slot, login, source, settled>>

(* Success is memoized in the slot this call holds, wherever the map points *)
(* by now, and the slot is released.                                        *)
Memoize(c) ==
    /\ call[c].pc = "resolve"
    /\ call[c].next \notin DOMAIN Names
    /\ slot' = [slot EXCEPT ![call[c].slot] = [owner |-> Nobody, credentials |-> call[c].read]]
    /\ call' = [call EXCEPT ![c].pc = "done", ![c].next = 1, ![c].slot = NoSlot,
                            ![c].result = "ok"]
    /\ UNCHANGED <<entries, login, source, settled>>

(* Failure is not memoized: the slot is released first, and then leaves the *)
(* map if the map still has it.                                             *)
Release(c) ==
    /\ call[c].pc = "fail"
    /\ slot' = [slot EXCEPT ![call[c].slot].owner = Nobody]
    /\ call' = [call EXCEPT ![c].pc = "forget"]
    /\ UNCHANGED <<entries, login, source, settled>>

Forgotten(c) == entries[call[c].key] = call[c].slot

Forget(c) ==
    /\ call[c].pc = "forget"
    /\ entries' = [entries EXCEPT ![call[c].key] = IF Forgotten(c) THEN NoSlot ELSE @]
    /\ call' = [call EXCEPT ![c].pc = "done", ![c].slot = NoSlot, ![c].result = "error"]
    /\ UNCHANGED <<slot, login, source, settled>>

Return(c) ==
    /\ call[c].pc = "done"
    /\ call' = [call EXCEPT ![c] = Idle]
    /\ UNCHANGED <<entries, slot, login, source, settled>>
-----------------------------------------------------------------------------
(* `config provider login` stores the declared credentials one by one       *)
(* (`store_provider_credential`).  A store that fails, applied or not, ends *)
(* the login before the memo is cleared; the user may start it again, or    *)
(* skip a credential.                                                       *)
NextName(at) == IF at = Len(Names) THEN 1 ELSE at + 1

StoreCredential ==
    /\ login.pc = "store"
    /\ LET n == Names[login.at]
           Applied == source' = [source EXCEPT ![n] = @ + 1]
       IN /\ source[n] < MaxVersion
          /\ \/ Applied /\ login' = [login EXCEPT !.pc = "clear"]
             \/ Fails("ack") /\ Applied /\ login' = [login EXCEPT !.at = 1]
             \/ Fails("store") /\ UNCHANGED source /\ login' = [login EXCEPT !.at = 1]
    /\ UNCHANGED <<entries, slot, call, settled>>

SkipCredential ==
    /\ login.pc = "store"
    /\ login' = [login EXCEPT !.at = NextName(@)]
    /\ UNCHANGED <<entries, slot, call, source, settled>>

ClearedNothing == entries

Cleared == [k \in Keys |-> NoSlot]

ClearMemo ==
    /\ login.pc = "clear"
    /\ entries' = Cleared
    /\ settled' = [settled EXCEPT ![Names[login.at]] = source[Names[login.at]]]
    /\ login' = [pc |-> "store", at |-> NextName(login.at)]
    /\ UNCHANGED <<slot, call, source>>

Step(c) ==
    \/ Acquire(c) \/ ReadCredential(c) \/ Memoize(c) \/ Release(c) \/ Forget(c) \/ Return(c)

Next ==
    \/ \E c \in Callers : (\E k \in Keys : LookUp(c, k)) \/ Step(c)
    \/ StoreCredential \/ SkipCredential
    \/ ClearMemo

Spec == Init /\ [][Next]_vars

(* Each thread runs; a mutex is granted to some waiter, not to each in turn. *)
FairSpec == Spec /\ \A c \in Callers : WF_vars(Step(c))
-----------------------------------------------------------------------------
(* Properties *)

(* Every variable stays in its type; in particular a login never runs past  *)
(* the credentials the alias declares.                                      *)
TypeOK ==
    /\ entries \in [Keys -> Slots \cup {NoSlot}]
    /\ slot \in [Slots -> [owner : Callers \cup {Nobody},
                           credentials : Fetched \cup {NoValue}]]
    /\ call \in [Callers -> CallType]
    /\ login \in [pc : {"store", "clear"}, at : DOMAIN Names]
    /\ source \in Fetched
    /\ settled \in Fetched

(* A call that begins after a rotation was reported done is given no older  *)
(* credential, whatever was being resolved when the memo was cleared ("a    *)
(* credential rotated through this instance is re-read instead of resolving *)
(* to the stale cached value").                                             *)
FreshCredentials ==
    \A c \in Callers : (call[c].pc = "done" /\ call[c].result = "ok") =>
        \A n \in Credential : call[c].asked[n] <= call[c].read[n]

(* What was memoized stays so until a rotation clears the map or a call     *)
(* that failed in this very slot forgets it, which may be after a waiter    *)
(* populated it: a late failure takes no other slot away.                   *)
Populated(k) == entries[k] # NoSlot /\ slot[entries[k]].credentials # NoValue

MemoKept ==
    [][\A k \in Keys : (Populated(k) /\ login' = login) =>
         \/ entries'[k] = entries[k] /\ slot'[entries[k]] = slot[entries[k]]
         \/ \E c \in Callers : call[c].pc = "forget" /\ call[c].slot = entries[k]]_vars

(* Every call comes back, even when every resolution fails and no mutex is  *)
(* fair: a slot that failed leaves the map, so only finitely many calls     *)
(* ever wait for it.                                                        *)
EveryCallReturns == \A c \in Callers : call[c].pc = "lock" ~> call[c].pc = "idle"
=============================================================================
