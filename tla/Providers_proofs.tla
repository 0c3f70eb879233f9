-------------------------- MODULE Providers_proofs --------------------------
(***************************************************************************)
(* Proofs about what the providers share, for any threads, keys, entries,  *)
(* credentials and failures.                                               *)
(*                                                                         *)
(* CredentialMemo and ProviderAuth.  First the memo: the types, that no    *)
(* call is given a credential older than a rotation it began after, and    *)
(* that no late failure takes a memo away.  Then its composition with the  *)
(* probes: what holds of the memo holds of it too, an operation goes ahead *)
(* only with probed credentials, a failure that was handed on is given to  *)
(* no later check, and no success is thrown away.                          *)
(*                                                                         *)
(* StoreAdapters, of every store and any number of processes.  The         *)
(* inductive invariant `IInv` says of the store that it is in order, that  *)
(* what is known to be stored is there and that what is held is readable;  *)
(* and of each call where it may be (`Placed`), what it may remember       *)
(* (`Lacks`, `Agrees`), what it watches (`Watches`) and what a write has   *)
(* found (`Found`, `Writes`).  The promises follow from it.                *)
(***************************************************************************)
EXTENDS ProviderAuth, StoreAdapters, FiniteSetTheorems, WellFoundedInduction, TLAPS

AtMost(a, b) == \A n \in Credential : a[n] <= b[n]

(* The credentials a resolving call has read so far. *)
ReadBy(c) == {n \in Credential : \E i \in 1..call[c].next - 1 : Names[i] = n}

(* A call holds a slot exactly while it is under way, and a slot that is    *)
(* being resolved, or whose resolution has just failed, has that call for   *)
(* its owner and memoizes nothing.                                          *)
Locked ==
    \A c \in Callers :
        /\ call[c].pc \in {"lock", "resolve", "fail", "forget"} <=> call[c].slot # NoSlot
        /\ call[c].pc \in {"resolve", "fail"} =>
              Held(c).owner = c /\ Held(c).credentials = NoValue
        /\ call[c].pc = "lock" => call[c].next = 1

(* Rotations are reported done after they were made, and a call asks for    *)
(* what was reported when it began.                                         *)
Ordered ==
    /\ AtMost(settled, source)
    /\ \A c \in Callers : AtMost(call[c].asked, settled)

(* What the map leads to is as new as what was reported; a slot that has    *)
(* left the map is as new as what its remaining callers asked for.          *)
MapFresh ==
    \A k \in Keys : (entries[k] # NoSlot /\ slot[entries[k]].credentials # NoValue) =>
        AtMost(settled, slot[entries[k]].credentials)

HeldFresh ==
    \A c \in Callers : (call[c].slot # NoSlot /\ Held(c).credentials # NoValue) =>
        AtMost(call[c].asked, Held(c).credentials)

(* The same of what a resolving call has read so far. *)
ReadFresh ==
    \A c \in Callers : call[c].pc = "resolve" =>
        /\ \A k \in Keys : entries[k] = call[c].slot =>
              \A n \in ReadBy(c) : settled[n] <= call[c].read[n]
        /\ \A d \in Callers : call[d].slot = call[c].slot =>
              \A n \in ReadBy(c) : call[d].asked[n] <= call[c].read[n]

Inv == TypeOK /\ Locked /\ Ordered /\ MapFresh /\ HeldFresh /\ ReadFresh /\ FreshCredentials

LEMMA Constants ==
    /\ Len(Names) \in Nat \ {0} /\ Names \in [1..Len(Names) -> Credential]
    /\ \A n \in Credential : \E i \in 1..Len(Names) : Names[i] = n
    /\ Idle \in CallType /\ Empty.credentials = NoValue /\ NoValue \notin Fetched
<1>1. Names \in Seq(Credential) /\ Names # <<>> BY ConstantsAssumption
<1>2. Len(Names) \in Nat /\ DOMAIN Names = 1..Len(Names) /\ Names \in [1..Len(Names) -> Credential]
  BY <1>1
<1>3. Len(Names) # 0 BY <1>1, <1>2
<1>4. \A n \in Credential : \E i \in 1..Len(Names) : Names[i] = n
  BY <1>2 DEF Credential, Range
<1>5. [n \in Credential |-> 0] \in Fetched BY ConstantsAssumption DEF Fetched
<1>6. (CHOOSE k \in Keys : TRUE) \in Keys BY ConstantsAssumption
<1>7. Idle \in CallType BY <1>2, <1>3, <1>5, <1>6 DEF Idle, CallType
<1>8. NoValue \notin Fetched
  <2>1. 1 \in DOMAIN Names /\ Names[1] \in Credential BY <1>2, <1>3
  <2>2. DOMAIN NoValue = {} BY DEF NoValue
  <2> QED BY <2>1, <2>2 DEF Fetched
<1> QED BY <1>2, <1>3, <1>4, <1>7, <1>8 DEF Empty

LEMMA InitInv == Init => Inv
<1> SUFFICES ASSUME Init PROVE Inv OBVIOUS
<1>1. [n \in Credential |-> 0] \in Fetched BY ConstantsAssumption DEF Fetched
<1>2. Idle.pc = "idle" /\ Idle.slot = NoSlot /\ Idle.asked = [n \in Credential |-> 0]
  BY DEF Idle
<1>3. TypeOK
  <2>1. slot \in [Slots -> [owner : Callers \cup {Nobody}, credentials : Fetched \cup {NoValue}]]
    BY DEF Init, Empty
  <2>2. call \in [Callers -> CallType] BY Constants DEF Init
  <2>3. login \in [pc : {"store", "clear"}, at : DOMAIN Names] BY Constants DEF Init
  <2> QED BY <2>1, <2>2, <2>3, <1>1 DEF Init, TypeOK
<1>4. Locked BY <1>2 DEF Init, Locked
<1>5. Ordered BY <1>2 DEF Init, Ordered, AtMost
<1>6. MapFresh /\ HeldFresh BY <1>2 DEF Init, MapFresh, HeldFresh
<1>7. ReadFresh /\ FreshCredentials BY <1>2 DEF Init, ReadFresh, FreshCredentials
<1> QED BY <1>3, <1>4, <1>5, <1>6, <1>7 DEF Inv

(* What one thread does leaves the records of the others as they are. *)
LEMMA OneCall ==
    ASSUME TypeOK, NEW c \in Callers, NEW r \in CallType, call' = [call EXCEPT ![c] = r]
    PROVE  /\ call' \in [Callers -> CallType] /\ call'[c] = r
           /\ \A d \in Callers : d # c => call'[d] = call[d]
BY DEF TypeOK

LEMMA LookUpInv == ASSUME Inv, NEW c \in Callers, NEW k \in Keys, LookUp(c, k) PROVE Inv'
<1>1. PICK s \in Slots :
        /\ IF Reused(k) THEN s = entries[k] ELSE Free(s)
        /\ call' = [call EXCEPT ![c] = [Idle EXCEPT !.pc = "lock", !.key = k, !.slot = s,
                                                    !.asked = settled]]
        /\ entries' = [entries EXCEPT ![k] = s]
        /\ slot' = IF Reused(k) THEN slot ELSE [slot EXCEPT ![s] = Empty]
  BY DEF LookUp
<1> DEFINE r == [Idle EXCEPT !.pc = "lock", !.key = k, !.slot = s, !.asked = settled]
<1>2. r \in CallType /\ r.pc = "lock" /\ r.slot = s /\ r.asked = settled /\ r.result = "none" /\ r.next = 1
  BY Constants DEF Inv, TypeOK, Idle, CallType
<1>3. /\ call' \in [Callers -> CallType] /\ call'[c] = r
      /\ \A d \in Callers : d # c => call'[d] = call[d]
  BY <1>1, <1>2, OneCall DEF Inv
<1> HIDE DEF r
<1>4. UNCHANGED <<login, source, settled>> /\ call[c].pc = "idle" BY DEF LookUp
<1>5. s # NoSlot BY ConstantsAssumption
<1>6. TypeOK'
  <2>1. slot' \in [Slots -> [owner : Callers \cup {Nobody}, credentials : Fetched \cup {NoValue}]]
    BY <1>1 DEF Inv, TypeOK, Empty
  <2> QED BY <2>1, <1>1, <1>3, <1>4 DEF Inv, TypeOK
<1>7. \A d \in Callers : d # c /\ call[d].slot # NoSlot => Held(d)' = Held(d)
  BY <1>1, <1>3 DEF Inv, TypeOK, Held, Free, CallType
<1>8. Locked'
  <2>1. \A d \in Callers : d # c =>
          /\ call'[d].pc \in {"lock", "resolve", "fail", "forget"} <=> call'[d].slot # NoSlot
          /\ call'[d].pc \in {"resolve", "fail"} => Held(d)'.owner = d /\ Held(d)'.credentials = NoValue
          /\ call'[d].pc = "lock" => call'[d].next = 1
    BY <1>3, <1>7 DEF Inv, Locked
  <2> QED BY <2>1, <1>2, <1>3, <1>5 DEF Locked
<1>9. Ordered'
  BY <1>2, <1>3, <1>4 DEF Inv, Ordered, AtMost, TypeOK, Fetched
<1>10. \A j \in Keys : (entries'[j] # NoSlot /\ slot'[entries'[j]].credentials # NoValue) =>
          entries'[j] = entries[j] /\ slot'[entries'[j]] = slot[entries[j]]
  <2>1. CASE Reused(k) BY <2>1, <1>1 DEF Inv, TypeOK
  <2>2. CASE ~Reused(k)
    <3>1. \A j \in Keys : entries[j] # s
      BY <2>2, <1>1 DEF Inv, TypeOK, Free, Range
    <3>2. slot'[s].credentials = NoValue BY <2>2, <1>1, Constants DEF Inv, TypeOK
    <3> QED BY <3>1, <3>2, <2>2, <1>1 DEF Inv, TypeOK
  <2> QED BY <2>1, <2>2
<1>11. MapFresh'
  BY <1>4, <1>10 DEF Inv, MapFresh, AtMost
<1>12. HeldFresh'
  <2>1. \A d \in Callers : d # c => (call'[d].slot # NoSlot /\ Held(d)'.credentials # NoValue =>
                                       AtMost(call'[d].asked, Held(d)'.credentials))
    BY <1>3, <1>7 DEF Inv, HeldFresh
  <2>2. Held(c)' = slot'[s] /\ entries'[k] = s
    BY <1>1, <1>2, <1>3 DEF Held, Inv, TypeOK
  <2>3. Held(c)'.credentials # NoValue => AtMost(settled, Held(c)'.credentials)
    BY <2>2, <1>5, <1>10 DEF Inv, MapFresh
  <2> QED BY <2>1, <2>3, <1>2, <1>3 DEF HeldFresh, AtMost
<1>13. ReadFresh'
  <2> SUFFICES ASSUME NEW d \in Callers, call'[d].pc = "resolve"
               PROVE  /\ \A j \in Keys : entries'[j] = call'[d].slot =>
                            \A n \in ReadBy(d)' : settled'[n] <= call'[d].read[n]
                      /\ \A e \in Callers : call'[e].slot = call'[d].slot =>
                            \A n \in ReadBy(d)' : call'[e].asked[n] <= call'[d].read[n]
    BY DEF ReadFresh
  <2>1. d # c /\ call'[d] = call[d] /\ call[d].pc = "resolve" /\ ReadBy(d)' = ReadBy(d)
    BY <1>2, <1>3 DEF ReadBy
  <2>2. call[d].slot # NoSlot BY <2>1 DEF Inv, Locked
  <2>3. \A j \in Keys : entries'[j] = call[d].slot => entries[j] = call[d].slot
    BY <1>1, <2>1, <2>2 DEF Inv, TypeOK, Reused, Free
  <2>4. s = call[d].slot => entries[k] = s
    BY <1>1, <2>1 DEF Free
  <2>5. \A n \in ReadBy(d) : s = call[d].slot => settled[n] <= call[d].read[n]
    BY <2>1, <2>4 DEF Inv, ReadFresh
  <2>6. ASSUME NEW e \in Callers, call'[e].slot = call[d].slot, NEW n \in ReadBy(d)
        PROVE  call'[e].asked[n] <= call[d].read[n]
    <3>1. CASE e = c BY <3>1, <2>5, <2>6, <1>2, <1>3
    <3>2. CASE e # c BY <3>2, <2>1, <2>6, <1>3 DEF Inv, ReadFresh
    <3> QED BY <3>1, <3>2
  <2> QED BY <2>1, <2>3, <2>6, <1>4 DEF Inv, ReadFresh
<1>14. FreshCredentials'
  BY <1>2, <1>3 DEF Inv, FreshCredentials
<1> QED BY <1>6, <1>8, <1>9, <1>11, <1>12, <1>13, <1>14 DEF Inv

(* A thread moves on without memoizing anything: it may take or return the  *)
(* slot it holds, give it up, take slots out of the map, and read sources.  *)
SlotType == [owner : Callers \cup {Nobody}, credentials : Fetched \cup {NoValue}]

LEMMA MovesOn ==
    ASSUME Inv, NEW c \in Callers, NEW r \in CallType, call' = [call EXCEPT ![c] = r],
           UNCHANGED <<login, source, settled>>,
           entries' \in [Keys -> Slots \cup {NoSlot}],
           \A k \in Keys : entries'[k] \in {entries[k], NoSlot},
           slot' \in [Slots -> SlotType],
           \A s \in Slots : slot'[s].credentials = slot[s].credentials,
           \A d \in Callers : d # c /\ call[d].pc \in {"resolve", "fail"} =>
                slot'[call[d].slot].owner = d,
           r.slot \in {call[c].slot, NoSlot}, AtMost(r.asked, settled),
           r.slot # NoSlot => r.asked = call[c].asked,
           r.pc \in {"lock", "resolve", "fail", "forget"} <=> r.slot # NoSlot,
           r.pc = "lock" => r.next = 1,
           r.pc \in {"resolve", "fail"} =>
                slot'[r.slot].owner = c /\ slot'[r.slot].credentials = NoValue,
           r.pc = "resolve" => \A n \in Credential : \A i \in 1..r.next - 1 : Names[i] = n =>
                \/ r.read[n] = source[n]
                \/ call[c].pc = "resolve" /\ n \in ReadBy(c) /\ r.read[n] = call[c].read[n],
           r.pc = "done" /\ r.result = "ok" => AtMost(r.asked, r.read)
    PROVE  Inv'
<1>1. /\ call' \in [Callers -> CallType] /\ call'[c] = r
      /\ \A d \in Callers : d # c => call'[d] = call[d]
  BY OneCall DEF Inv
<1>2. TypeOK' BY <1>1 DEF Inv, TypeOK, SlotType
<1>3. \A d \in Callers : call[d].slot \in Slots \cup {NoSlot}
  BY DEF Inv, TypeOK, CallType
<1>4. Locked' BY <1>1, <1>3 DEF Inv, Locked, Held
<1>5. Ordered' BY <1>1 DEF Inv, Ordered, AtMost
<1>6. MapFresh' BY <1>1 DEF Inv, TypeOK, MapFresh, AtMost
<1>7. HeldFresh' BY <1>1, <1>3 DEF Inv, HeldFresh, Held, AtMost
<1>8. ReadFresh'
  <2> SUFFICES ASSUME NEW d \in Callers, call'[d].pc = "resolve", NEW n \in ReadBy(d)'
               PROVE  /\ \A j \in Keys : entries'[j] = call'[d].slot => settled[n] <= call'[d].read[n]
                      /\ \A e \in Callers : call'[e].slot = call'[d].slot =>
                            call'[e].asked[n] <= call'[d].read[n]
    BY DEF ReadFresh
  <2>1. n \in Credential BY DEF ReadBy
  <2>2. call'[d].slot # NoSlot BY <1>1 DEF Inv, Locked
  <2>3. call'[d].slot = call[d].slot BY <1>1, <2>2
  <2>4. \A j \in Keys : entries'[j] = call[d].slot => entries[j] = call[d].slot BY <2>2, <2>3
  <2>5. \A e \in Callers : call'[e].slot = call[d].slot =>
          call[e].slot = call[d].slot /\ call'[e].asked = call[e].asked
    BY <1>1, <2>2, <2>3
  <2>6. CASE call'[d].read[n] = source[n]
    <3>1. settled[n] <= source[n] /\ settled[n] \in Int /\ source[n] \in Int
      BY <2>1, ConstantsAssumption DEF Inv, Ordered, AtMost, TypeOK, Fetched
    <3>2. \A e \in Callers : call[e].asked[n] <= settled[n] /\ call[e].asked[n] \in Int
      BY <2>1, ConstantsAssumption DEF Inv, Ordered, AtMost, TypeOK, CallType, Fetched
    <3> QED BY <2>5, <2>3, <2>6, <3>1, <3>2
  <2>7. CASE call[d].pc = "resolve" /\ n \in ReadBy(d) /\ call'[d].read[n] = call[d].read[n]
    BY <2>7, <2>3, <2>4, <2>5 DEF Inv, ReadFresh
  <2>8. CASE d # c
    <3>1. n \in ReadBy(d) BY <2>8, <1>1 DEF ReadBy
    <3> QED BY <3>1, <2>7, <2>8, <1>1
  <2>9. CASE d = c BY <2>9, <2>6, <2>7, <1>1 DEF ReadBy
  <2> QED BY <2>8, <2>9
<1>9. FreshCredentials' BY <1>1 DEF Inv, FreshCredentials, AtMost
<1> QED BY <1>2, <1>4, <1>5, <1>6, <1>7, <1>8, <1>9 DEF Inv

(* What is known of a thread's call, and that its types survive updates.    *)
LEMMA OwnCall ==
    ASSUME Inv, NEW c \in Callers
    PROVE  /\ call[c] \in CallType /\ AtMost(call[c].asked, settled)
           /\ slot \in [Slots -> SlotType] /\ entries \in [Keys -> Slots \cup {NoSlot}]
           /\ \A d \in Callers : call[d].pc \in {"resolve", "fail"} =>
                 call[d].slot \in Slots /\ slot[call[d].slot].owner = d
BY DEF Inv, TypeOK, SlotType, Ordered, Locked, Held, CallType

LEMMA AcquireInv == ASSUME Inv, NEW c \in Callers, Acquire(c) PROVE Inv'
<1>0. call[c] \in CallType /\ AtMost(call[c].asked, settled) BY OwnCall
<1>1. /\ call[c].pc = "lock" /\ Held(c).owner = Nobody
      /\ UNCHANGED <<entries, login, source, settled>>
  BY DEF Acquire
<1>2. call[c].slot \in Slots BY <1>1 DEF Inv, TypeOK, Locked, CallType
<1>3. \A d \in Callers : call[d].pc \in {"resolve", "fail"} => call[d].slot # call[c].slot
  BY <1>1, ConstantsAssumption DEF Inv, Locked, Held
<1>4. CASE Held(c).credentials # NoValue
  <2> DEFINE r == [call[c] EXCEPT !.pc = "done", !.slot = NoSlot,
                                  !.read = Held(c).credentials, !.result = "ok"]
  <2>1. call' = [call EXCEPT ![c] = r] /\ UNCHANGED slot BY <1>4 DEF Acquire, Inv, TypeOK, CallType
  <2>2. Held(c).credentials \in Fetched BY <1>2, <1>4, OwnCall DEF Held, SlotType
  <2>3. r \in CallType /\ r.pc = "done" /\ r.slot = NoSlot /\ r.asked = call[c].asked
        /\ r.read = Held(c).credentials
    BY <1>0, <2>2 DEF CallType
  <2>4. AtMost(r.asked, r.read)
    BY <1>2, <1>4, <2>3, ConstantsAssumption DEF Inv, HeldFresh
  <2> HIDE DEF r
  <2> QED BY <1>1, <2>1, <2>3, <2>4, OwnCall, MovesOn
<1>5. CASE Held(c).credentials = NoValue
  <2> DEFINE r == [call[c] EXCEPT !.pc = "resolve"]
  <2>1. /\ call' = [call EXCEPT ![c] = r]
        /\ slot' = [slot EXCEPT ![call[c].slot].owner = c]
    BY <1>5 DEF Acquire, Inv, TypeOK, CallType
  <2>2. r \in CallType /\ r.pc = "resolve" /\ r.slot = call[c].slot /\ r.asked = call[c].asked
        /\ r.next = call[c].next
    BY <1>0 DEF CallType
  <2>3. slot' \in [Slots -> SlotType] /\ slot'[call[c].slot].owner = c
        /\ \A s \in Slots : slot'[s].credentials = slot[s].credentials
    BY <2>1, <1>2, OwnCall DEF SlotType
  <2>4. \A d \in Callers : d # c /\ call[d].pc \in {"resolve", "fail"} =>
          slot'[call[d].slot].owner = d
    BY <2>1, <1>2, <1>3, OwnCall
  <2>5. r.next = 1 /\ slot'[r.slot].credentials = NoValue /\ r.slot # NoSlot
    BY <1>1, <1>2, <1>5, <2>2, <2>3, ConstantsAssumption DEF Inv, Locked, Held
  <2>6. 1..r.next - 1 = {} BY <2>5
  <2>7. entries' \in [Keys -> Slots \cup {NoSlot}] /\ \A k \in Keys : entries'[k] = entries[k]
    BY <1>1, OwnCall
  <2>8. AtMost(r.asked, settled) BY <1>0, <2>2
  <2> HIDE DEF r
  <2> QED BY <1>1, <2>1, <2>2, <2>3, <2>4, <2>5, <2>6, <2>7, <2>8, MovesOn
<1> QED BY <1>4, <1>5

LEMMA ReadCredentialInv == ASSUME Inv, NEW c \in Callers, ReadCredential(c) PROVE Inv'
<1>0. call[c] \in CallType /\ AtMost(call[c].asked, settled) /\ source \in Fetched
  BY OwnCall DEF Inv, TypeOK
<1>1. /\ call[c].pc = "resolve" /\ call[c].next \in 1..Len(Names)
      /\ UNCHANGED <<entries, slot, login, source, settled>>
  BY Constants DEF ReadCredential
<1>2. /\ call[c].slot \in Slots /\ slot[call[c].slot].owner = c
      /\ slot[call[c].slot].credentials = NoValue
  BY <1>1, OwnCall DEF Inv, Locked, Held
<1>3. call[c].slot # NoSlot BY <1>2, ConstantsAssumption
<1> DEFINE n == Names[call[c].next]
<1>4. n \in Credential BY <1>1, Constants
<1>5. CASE call' = [call EXCEPT ![c].read[n] = source[n], ![c].next = @ + 1]
  <2> DEFINE r == [call[c] EXCEPT !.read = [@ EXCEPT ![n] = source[n]], !.next = @ + 1]
  <2>1. call' = [call EXCEPT ![c] = r] BY <1>5 DEF Inv, TypeOK, CallType
  <2>2. [call[c].read EXCEPT ![n] = source[n]] \in Fetched
    BY <1>0, <1>4 DEF CallType, Fetched
  <2>3. call[c].next + 1 \in 1..Len(Names) + 1 BY <1>1, Constants
  <2>4. /\ r \in CallType /\ r.pc = "resolve" /\ r.slot = call[c].slot
        /\ r.asked = call[c].asked /\ r.next = call[c].next + 1
        /\ r.read = [call[c].read EXCEPT ![n] = source[n]]
    BY <1>0, <1>1, <2>2, <2>3 DEF CallType
  <2>5. ASSUME NEW m \in Credential, NEW i \in 1..r.next - 1, Names[i] = m
        PROVE  \/ r.read[m] = source[m]
               \/ call[c].pc = "resolve" /\ m \in ReadBy(c) /\ r.read[m] = call[c].read[m]
    <3>1. CASE m = n BY <3>1, <2>4, <1>0, <1>4 DEF CallType, Fetched
    <3>2. CASE m # n
      <4>1. i # call[c].next BY <2>5, <3>2
      <4>2. i \in 1..call[c].next - 1 BY <4>1, <2>4, <1>1, Constants
      <4>3. r.read[m] = call[c].read[m] BY <3>2, <2>4, <1>0 DEF CallType, Fetched
      <4> QED BY <4>2, <4>3, <2>5, <1>1 DEF ReadBy
    <3> QED BY <3>1, <3>2
  <2> HIDE DEF r
  <2> QED BY <1>0, <1>1, <1>2, <1>3, <2>1, <2>4, <2>5, OwnCall, MovesOn
<1>6. CASE call' = [call EXCEPT ![c].pc = "fail", ![c].next = 1, ![c].read = Idle.read]
  <2> DEFINE r == [call[c] EXCEPT !.pc = "fail", !.next = 1, !.read = Idle.read]
  <2>1. call' = [call EXCEPT ![c] = r] BY <1>6 DEF Inv, TypeOK, CallType
  <2>2. Idle.read \in Fetched /\ 1 \in 1..Len(Names) + 1 BY Constants DEF CallType
  <2>3. /\ r \in CallType /\ r.pc = "fail" /\ r.slot = call[c].slot /\ r.asked = call[c].asked
    BY <1>0, <2>2 DEF CallType
  <2> HIDE DEF r
  <2> QED BY <1>0, <1>1, <1>2, <1>3, <2>1, <2>3, OwnCall, MovesOn
<1> QED BY <1>5, <1>6 DEF ReadCredential

LEMMA ReleaseInv == ASSUME Inv, NEW c \in Callers, Release(c) PROVE Inv'
<1>0. call[c] \in CallType /\ AtMost(call[c].asked, settled) BY OwnCall
<1>1. /\ call[c].pc = "fail" /\ UNCHANGED <<entries, login, source, settled>>
      /\ slot' = [slot EXCEPT ![call[c].slot].owner = Nobody]
  BY DEF Release
<1>2. call[c].slot \in Slots /\ slot[call[c].slot].owner = c BY <1>1, OwnCall
<1>3. call[c].slot # NoSlot BY <1>2, ConstantsAssumption
<1> DEFINE r == [call[c] EXCEPT !.pc = "forget"]
<1>4. call' = [call EXCEPT ![c] = r] BY DEF Release, Inv, TypeOK, CallType
<1>5. r \in CallType /\ r.pc = "forget" /\ r.slot = call[c].slot /\ r.asked = call[c].asked
  BY <1>0 DEF CallType
<1>6. slot' \in [Slots -> SlotType] /\ \A s \in Slots : slot'[s].credentials = slot[s].credentials
  BY <1>1, <1>2, OwnCall DEF SlotType
<1>7. \A d \in Callers : d # c /\ call[d].pc \in {"resolve", "fail"} =>
        slot'[call[d].slot].owner = d
  BY <1>1, <1>2, OwnCall
<1> HIDE DEF r
<1> QED BY <1>0, <1>1, <1>3, <1>4, <1>5, <1>6, <1>7, OwnCall, MovesOn

LEMMA ForgetInv == ASSUME Inv, NEW c \in Callers, Forget(c) PROVE Inv'
<1>0. call[c] \in CallType /\ AtMost(call[c].asked, settled) BY OwnCall
<1>1. /\ entries' \in [Keys -> Slots \cup {NoSlot}]
      /\ \A k \in Keys : entries'[k] \in {entries[k], NoSlot}
      /\ UNCHANGED <<slot, login, source, settled>>
  BY OwnCall DEF Forget
<1> DEFINE r == [call[c] EXCEPT !.pc = "done", !.slot = NoSlot, !.result = "error"]
<1>2. call' = [call EXCEPT ![c] = r] BY DEF Forget, Inv, TypeOK, CallType
<1>3. r \in CallType /\ r.pc = "done" /\ r.slot = NoSlot /\ r.asked = call[c].asked
      /\ r.result = "error"
  BY <1>0 DEF CallType
<1> HIDE DEF r
<1> QED BY <1>0, <1>1, <1>2, <1>3, OwnCall, MovesOn

LEMMA ReturnInv == ASSUME Inv, NEW c \in Callers, Return(c) PROVE Inv'
<1>1. call' = [call EXCEPT ![c] = Idle] /\ UNCHANGED <<entries, slot, login, source, settled>>
  BY DEF Return
<1>2. Idle \in CallType /\ Idle.pc = "idle" /\ Idle.slot = NoSlot BY Constants DEF Idle
<1>3. AtMost(Idle.asked, settled)
  BY ConstantsAssumption DEF Idle, AtMost, Inv, TypeOK, Fetched
<1>4. /\ entries' \in [Keys -> Slots \cup {NoSlot}] /\ slot' \in [Slots -> SlotType]
      /\ \A k \in Keys : entries'[k] = entries[k]
      /\ \A s \in Slots : slot'[s].credentials = slot[s].credentials
      /\ \A d \in Callers : d # c /\ call[d].pc \in {"resolve", "fail"} =>
            slot'[call[d].slot].owner = d
  BY <1>1, OwnCall
<1> QED BY <1>1, <1>2, <1>3, <1>4, MovesOn

LEMMA MemoizeInv == ASSUME Inv, NEW c \in Callers, Memoize(c) PROVE Inv'
<1>0. /\ call[c] \in CallType /\ AtMost(call[c].asked, settled)
      /\ slot \in [Slots -> SlotType] /\ entries \in [Keys -> Slots \cup {NoSlot}]
  BY OwnCall
<1>1. /\ call[c].pc = "resolve" /\ call[c].next \notin 1..Len(Names)
      /\ UNCHANGED <<entries, login, source, settled>>
  BY Constants DEF Memoize
<1> DEFINE s == call[c].slot
<1>2. s \in Slots /\ s # NoSlot /\ slot[s].owner = c
  BY <1>1, OwnCall, ConstantsAssumption
<1>3. ReadBy(c) = Credential
  <2>1. call[c].next = Len(Names) + 1 BY <1>0, <1>1, Constants DEF CallType
  <2> QED BY <2>1, Constants DEF ReadBy
<1> DEFINE r == [call[c] EXCEPT !.pc = "done", !.next = 1, !.slot = NoSlot, !.result = "ok"]
<1>4. call' = [call EXCEPT ![c] = r] BY DEF Memoize, Inv, TypeOK, CallType
<1>5. /\ r \in CallType /\ r.pc = "done" /\ r.slot = NoSlot /\ r.asked = call[c].asked
      /\ r.read = call[c].read
  <2>1. 1 \in 1..Len(Names) + 1 BY Constants
  <2> QED BY <1>0, <2>1 DEF CallType
<1> HIDE DEF r
<1>6. /\ call' \in [Callers -> CallType] /\ call'[c] = r
      /\ \A d \in Callers : d # c => call'[d] = call[d]
  BY <1>4, <1>5, OneCall DEF Inv
<1>7. slot' = [slot EXCEPT ![s] = [owner |-> Nobody, credentials |-> call[c].read]]
  BY DEF Memoize
<1>8. slot' \in [Slots -> SlotType] /\ slot'[s].credentials = call[c].read
      /\ \A t \in Slots : t # s => slot'[t] = slot[t]
  BY <1>0, <1>2, <1>7 DEF SlotType, CallType
<1> HIDE DEF s
<1>9. TypeOK' BY <1>1, <1>6, <1>8 DEF Inv, TypeOK, SlotType
<1>10. \A d \in Callers : d # c /\ call[d].pc \in {"resolve", "fail"} =>
         call[d].slot # s /\ call[d].slot \in Slots
  BY <1>2, OwnCall
<1>11. Locked' BY <1>5, <1>6, <1>8, <1>10 DEF Inv, Locked, Held
<1>12. Ordered' BY <1>1, <1>5, <1>6 DEF Inv, Ordered, AtMost
<1>13. \A k \in Keys : entries[k] = s => AtMost(settled, call[c].read)
  BY <1>1, <1>3 DEF Inv, ReadFresh, AtMost, s
<1>14. \A d \in Callers : call[d].slot = s => AtMost(call[d].asked, call[c].read)
  BY <1>1, <1>3 DEF Inv, ReadFresh, AtMost, s
<1>15. MapFresh'
  <2> SUFFICES ASSUME NEW k \in Keys, entries[k] # NoSlot, slot'[entries[k]].credentials # NoValue
               PROVE  AtMost(settled, slot'[entries[k]].credentials)
    BY <1>1 DEF MapFresh, AtMost
  <2>1. CASE entries[k] = s BY <2>1, <1>8, <1>13
  <2>2. CASE entries[k] # s BY <2>2, <1>0, <1>8 DEF Inv, MapFresh
  <2> QED BY <2>1, <2>2
<1>16. HeldFresh'
  <2> SUFFICES ASSUME NEW d \in Callers, d # c, call[d].slot # NoSlot,
                      slot'[call[d].slot].credentials # NoValue
               PROVE  AtMost(call[d].asked, slot'[call[d].slot].credentials)
    BY <1>5, <1>6 DEF HeldFresh, Held, AtMost
  <2>1. CASE call[d].slot = s BY <2>1, <1>8, <1>14
  <2>2. CASE call[d].slot # s
    <3>1. call[d].slot \in Slots BY DEF Inv, TypeOK, CallType
    <3> QED BY <3>1, <2>2, <1>8 DEF Inv, HeldFresh, Held
  <2> QED BY <2>1, <2>2
<1>17. ReadFresh'
  <2> SUFFICES ASSUME NEW d \in Callers, call'[d].pc = "resolve", NEW n \in ReadBy(d)'
               PROVE  /\ \A j \in Keys : entries[j] = call'[d].slot => settled[n] <= call'[d].read[n]
                      /\ \A e \in Callers : call'[e].slot = call'[d].slot =>
                            call'[e].asked[n] <= call'[d].read[n]
    BY <1>1 DEF ReadFresh
  <2>1. d # c /\ call'[d] = call[d] /\ n \in ReadBy(d) BY <1>5, <1>6 DEF ReadBy
  <2>2. call[d].slot # NoSlot BY <2>1 DEF Inv, Locked
  <2>3. \A e \in Callers : call'[e].slot = call[d].slot => e # c /\ call'[e] = call[e]
    BY <2>2, <1>5, <1>6
  <2> QED BY <2>1, <2>3 DEF Inv, ReadFresh
<1>18. FreshCredentials'
  <2>1. AtMost(r.asked, r.read) BY <1>5, <1>14 DEF s
  <2> QED BY <2>1, <1>6 DEF Inv, FreshCredentials, AtMost
<1> QED BY <1>9, <1>11, <1>12, <1>15, <1>16, <1>17, <1>18 DEF Inv

LEMMA StoreCredentialInv == ASSUME Inv, StoreCredential PROVE Inv'
<1> DEFINE n == Names[login.at]
<1>1. UNCHANGED <<entries, slot, call, settled>> /\ login' \in [pc : {"store", "clear"}, at : DOMAIN Names]
  <2>1. 1 \in DOMAIN Names BY Constants
  <2> QED BY <2>1 DEF StoreCredential, Inv, TypeOK
<1>2. n \in Credential BY Constants DEF Inv, TypeOK
<1>3. source' \in Fetched /\ \A m \in Credential : source[m] <= source'[m]
  <2>1. CASE UNCHANGED source BY <2>1, ConstantsAssumption DEF Inv, TypeOK, Fetched
  <2>2. CASE source' = [source EXCEPT ![n] = @ + 1]
    <3>1. source[n] < MaxVersion BY DEF StoreCredential
    <3> QED BY <2>2, <3>1, <1>2, ConstantsAssumption DEF Inv, TypeOK, Fetched
  <2> QED BY <2>1, <2>2 DEF StoreCredential
<1>4. TypeOK' BY <1>1, <1>3 DEF Inv, TypeOK
<1>5. AtMost(settled, source')
  BY <1>3, ConstantsAssumption DEF Inv, TypeOK, Ordered, AtMost, Fetched
<1>6. Ordered' BY <1>1, <1>5 DEF Inv, Ordered, AtMost
<1>7. Locked' /\ MapFresh' /\ HeldFresh'
  BY <1>1 DEF Inv, Locked, MapFresh, HeldFresh, Held, AtMost
<1>8. ReadFresh' /\ FreshCredentials' BY <1>1 DEF Inv, ReadFresh, ReadBy, FreshCredentials
<1> QED BY <1>4, <1>6, <1>7, <1>8 DEF Inv

LEMMA SkipCredentialInv == ASSUME Inv, SkipCredential PROVE Inv'
<1>1. /\ UNCHANGED <<entries, slot, call, source, settled>>
      /\ login' = [login EXCEPT !.at = NextName(@)]
  BY DEF SkipCredential
<1>2. NextName(login.at) \in DOMAIN Names BY Constants DEF Inv, TypeOK, NextName
<1>3. TypeOK' BY <1>1, <1>2 DEF Inv, TypeOK
<1>4. Ordered' /\ Locked' /\ MapFresh' /\ HeldFresh'
  BY <1>1 DEF Inv, Ordered, Locked, MapFresh, HeldFresh, Held, AtMost
<1>5. ReadFresh' /\ FreshCredentials' BY <1>1 DEF Inv, ReadFresh, ReadBy, FreshCredentials
<1> QED BY <1>3, <1>4, <1>5 DEF Inv

LEMMA ClearMemoInv == ASSUME Inv, ClearMemo PROVE Inv'
<1> DEFINE n == Names[login.at]
<1>1. /\ UNCHANGED <<slot, call, source>> /\ entries' = [k \in Keys |-> NoSlot]
      /\ settled' = [settled EXCEPT ![n] = source[n]]
      /\ login' = [pc |-> "store", at |-> NextName(login.at)]
  BY DEF ClearMemo, Cleared
<1>2. n \in Credential BY Constants DEF Inv, TypeOK
<1>3. NextName(login.at) \in DOMAIN Names BY Constants DEF Inv, TypeOK, NextName
<1>4. settled' \in Fetched BY <1>1, <1>2 DEF Inv, TypeOK, Fetched
<1>5. TypeOK' BY <1>1, <1>3, <1>4 DEF Inv, TypeOK
<1>6. Ordered'
  <2>1. AtMost(settled', source)
    BY <1>1, <1>2, ConstantsAssumption DEF Inv, TypeOK, Ordered, AtMost, Fetched
  <2>2. AtMost(settled, settled')
    BY <1>1, <1>2, ConstantsAssumption DEF Inv, TypeOK, Ordered, AtMost, Fetched
  <2>3. ASSUME NEW c \in Callers PROVE AtMost(call[c].asked, settled')
    <3>1. call[c].asked \in Fetched /\ AtMost(call[c].asked, settled)
      BY OwnCall DEF CallType
    <3>2. ASSUME NEW m \in Credential PROVE call[c].asked[m] <= settled'[m]
      <4>1. call[c].asked[m] \in Int /\ settled[m] \in Int /\ settled'[m] \in Int
        BY <3>1, <1>4, ConstantsAssumption DEF Inv, TypeOK, Fetched
      <4>2. call[c].asked[m] <= settled[m] /\ settled[m] <= settled'[m]
        BY <3>1, <2>2 DEF AtMost
      <4> QED BY <4>1, <4>2
    <3> QED BY <3>2 DEF AtMost
  <2> QED BY <2>1, <2>3, <1>1 DEF Ordered, AtMost
<1>7. Locked' /\ MapFresh' /\ HeldFresh'
  BY <1>1 DEF Inv, Locked, MapFresh, HeldFresh, Held, AtMost
<1>8. ReadFresh'
  <2>1. \A c \in Callers : call[c].pc = "resolve" => call[c].slot # NoSlot BY DEF Inv, Locked
  <2> QED BY <2>1, <1>1 DEF Inv, ReadFresh, ReadBy
<1>9. FreshCredentials' BY <1>1 DEF Inv, FreshCredentials
<1> QED BY <1>5, <1>6, <1>7, <1>8, <1>9 DEF Inv

LEMMA NextInv == Inv /\ [Next]_vars => Inv'
<1> SUFFICES ASSUME Inv, [Next]_vars PROVE Inv' OBVIOUS
<1>1. CASE UNCHANGED vars
  <2>1. UNCHANGED <<entries, slot, call, login, source, settled>> BY <1>1 DEF vars
  <2>2. TypeOK' /\ Ordered' /\ Locked' /\ MapFresh' /\ HeldFresh'
    BY <2>1 DEF Inv, TypeOK, Ordered, Locked, MapFresh, HeldFresh, Held, AtMost
  <2>3. ReadFresh' /\ FreshCredentials' BY <2>1 DEF Inv, ReadFresh, ReadBy, FreshCredentials
  <2> QED BY <2>2, <2>3 DEF Inv
<1>2. CASE \E c \in Callers, k \in Keys : LookUp(c, k) BY <1>2, LookUpInv
<1>3. CASE \E c \in Callers : Step(c)
  BY <1>3, AcquireInv, ReadCredentialInv, MemoizeInv, ReleaseInv, ForgetInv, ReturnInv DEF Step
<1>4. CASE StoreCredential BY <1>4, StoreCredentialInv
<1>5. CASE SkipCredential BY <1>5, SkipCredentialInv
<1>6. CASE ClearMemo BY <1>6, ClearMemoInv
<1> QED BY <1>1, <1>2, <1>3, <1>4, <1>5, <1>6 DEF Next

LEMMA Invariance == Spec => []Inv
BY InitInv, NextInv, PTL DEF Spec

(* Every variable stays in its type (TypeOK).                               *)
THEOREM TypeCorrect == Spec => []TypeOK
<1>1. Inv => TypeOK BY DEF Inv
<1> QED BY <1>1, Invariance, PTL

(* A call of `get_or_try_init` begun after `store_provider_credential`      *)
(* reported a rotation is given no older credential.                        *)
THEOREM RotationsAreSeen == Spec => []FreshCredentials
<1>1. Inv => FreshCredentials BY DEF Inv
<1> QED BY <1>1, Invariance, PTL

(* A memo leaves the map only by a rotation or by the failure of a call     *)
(* that resolved in its very slot (`Arc::ptr_eq`).                          *)
THEOREM MemosAreKept == Spec => MemoKept
<1> DEFINE Remembered(k) ==
      \/ entries'[k] = entries[k] /\ slot'[entries[k]] = slot[entries[k]]
      \/ \E c \in Callers : call[c].pc = "forget" /\ call[c].slot = entries[k]
<1>1. ASSUME Inv, [Next]_vars, NEW k \in Keys, Populated(k), login' = login PROVE Remembered(k)
  <2>1. PICK s \in Slots : s = entries[k] /\ slot[s].credentials # NoValue
    BY <1>1 DEF Inv, TypeOK, Populated
  <2>2. ASSUME NEW c \in Callers, call[c].pc \in {"resolve", "fail"} PROVE call[c].slot # s
    <3>1. slot[call[c].slot].credentials = NoValue BY <1>1, <2>2 DEF Inv, Locked, Held
    <3> QED BY <3>1, <2>1
  <2>3. CASE UNCHANGED <<entries, slot>> BY <2>3
  <2>4. CASE \E c \in Callers, j \in Keys : LookUp(c, j)
    <3>1. PICK c \in Callers, j \in Keys : LookUp(c, j) BY <2>4
    <3>2. PICK t \in Slots :
            /\ IF Reused(j) THEN t = entries[j] ELSE Free(t)
            /\ entries' = [entries EXCEPT ![j] = t]
            /\ slot' = IF Reused(j) THEN slot ELSE [slot EXCEPT ![t] = Empty]
      BY <3>1 DEF LookUp
    <3>3. CASE Reused(j) BY <3>2, <3>3 DEF Inv, TypeOK
    <3>4. CASE ~Reused(j)
      <4>1. \A i \in Keys : entries[i] # t
        BY <3>2, <3>4, <1>1 DEF Inv, TypeOK, Free, Range
      <4>2. j # k BY <3>4, <1>1 DEF Populated, Reused
      <4> QED BY <4>1, <4>2, <3>2, <3>4, <2>1 DEF Inv, TypeOK
    <3> QED BY <3>3, <3>4
  <2>5. CASE \E c \in Callers : Acquire(c)
    <3>1. PICK c \in Callers : Acquire(c) BY <2>5
    <3>2. CASE UNCHANGED slot BY <3>1, <3>2, <2>3 DEF Acquire
    <3>3. CASE Held(c).credentials = NoValue /\ slot' = [slot EXCEPT ![call[c].slot].owner = c]
      BY <3>1, <3>3, <2>1 DEF Acquire, Inv, TypeOK, Held
    <3> QED BY <3>1, <3>2, <3>3 DEF Acquire
  <2>6. CASE \E c \in Callers : Memoize(c) \/ Release(c)
    <3>1. PICK c \in Callers : Memoize(c) \/ Release(c) BY <2>6
    <3>2. call[c].slot # s BY <2>2, <3>1 DEF Memoize, Release
    <3>3. slot'[s] = slot[s] /\ entries' = entries
      BY <1>1, <2>1, <3>1, <3>2 DEF Memoize, Release, Inv, TypeOK
    <3> QED BY <2>1, <3>3
  <2>7. CASE \E c \in Callers : Forget(c)
    BY <2>7 DEF Forget, Forgotten, Inv, TypeOK
  <2>8. CASE \E c \in Callers : ReadCredential(c) \/ Return(c)
    BY <2>3, <2>8 DEF ReadCredential, Return
  <2>9. ~ClearMemo BY <1>1 DEF ClearMemo, Inv, TypeOK
  <2> QED BY <1>1, <2>3, <2>4, <2>5, <2>6, <2>7, <2>8, <2>9
          DEF Next, Step, StoreCredential, SkipCredential, vars
<1>2. Inv /\ [Next]_vars =>
        [\A k \in Keys : (Populated(k) /\ login' = login) => Remembered(k)]_vars
  BY <1>1
<1> QED BY <1>2, Invariance, PTL DEF Spec, MemoKept

-----------------------------------------------------------------------------
(* The memo together with the probe cells. *)

(* A cell serves one scope: that of the threads that hold it and of the key *)
(* under which the map has it.                                              *)
OneScope ==
    /\ \A c, d \in Callers : (guard[c].cell # NoCell /\ guard[c].cell = guard[d].cell) =>
          guard[c].with = guard[d].with
    /\ \A c \in Callers, s \in Scopes : (cells[s] # NoCell /\ cells[s] = guard[c].cell) =>
          guard[c].with = s
    /\ \A s, t \in Scopes : (cells[s] # NoCell /\ cells[s] = cells[t]) => s = t

(* One thread at most runs a cell's probe. *)
OneProbe ==
    \A c \in Callers : guard[c].pc = "probe" =>
        /\ Own(c).state = "running"
        /\ \A d \in Callers : (guard[d].pc = "probe" /\ guard[d].cell = guard[c].cell) => d = c

(* A success is one of the scope it is kept for. *)
Backed ==
    /\ \A c \in Callers : (guard[c].cell # NoCell /\ Own(c).state = "ok") => guard[c].with \in proven
    /\ \A s \in Scopes : (cells[s] # NoCell /\ cell[cells[s]].state = "ok") => s \in proven

AuthInv ==
    GuardsOK /\ OneScope /\ OneProbe /\ Backed /\ ProbedBeforeUse /\ FailuresAreNotKept

CellType == [state : {"empty", "running", "ok", "error"}, told : BOOLEAN]

LEMMA AuthInitInv == AuthInit => AuthInv
<1> SUFFICES ASSUME AuthInit PROVE AuthInv OBVIOUS
<1>1. Idle.read \in Scopes BY Constants DEF Scopes, CallType
<1>2. NoInstance \in GuardType /\ NoInstance.pc = "out" /\ NoInstance.cell = NoCell
      /\ ~NoInstance.passed
  BY <1>1 DEF NoInstance, GuardType
<1>3. GuardsOK BY <1>2 DEF AuthInit, GuardsOK, Unprobed
<1>4. OneScope /\ OneProbe /\ Backed BY <1>2 DEF AuthInit, OneScope, OneProbe, Backed
<1>5. ProbedBeforeUse /\ FailuresAreNotKept
  BY <1>2 DEF AuthInit, ProbedBeforeUse, FailuresAreNotKept
<1> QED BY <1>3, <1>4, <1>5 DEF AuthInv

(* A thread moves on with the cells as they are: it has no cell any more,   *)
(* and what it passed was probed.                                           *)
LEMMA Settles ==
    ASSUME AuthInv, NEW c \in Callers, NEW g \in GuardType, guard' = [guard EXCEPT ![c] = g],
           UNCHANGED <<cells, cell, signedIn, proven>>,
           g.pc \in {"out", "ready"}, g.cell = NoCell, g.passed => g.with \in proven
    PROVE  AuthInv'
<1>1. guard'[c] = g /\ \A d \in Callers : d # c => guard'[d] = guard[d]
  BY DEF AuthInv, GuardsOK
<1>2. GuardsOK' BY <1>1 DEF AuthInv, GuardsOK
<1>3. OneScope' BY <1>1 DEF AuthInv, OneScope
<1>4. OneProbe' /\ Backed' BY <1>1 DEF AuthInv, OneProbe, Backed, Own
<1>5. ProbedBeforeUse' /\ FailuresAreNotKept'
  BY <1>1 DEF AuthInv, ProbedBeforeUse, FailuresAreNotKept
<1> QED BY <1>2, <1>3, <1>4, <1>5 DEF AuthInv

LEMMA BuildInv == ASSUME TypeOK, AuthInv, NEW c \in Callers, Build(c) PROVE AuthInv'
<1> DEFINE g == [NoInstance EXCEPT !.pc = "ready", !.with = call[c].read]
<1>1. call[c].read \in Scopes /\ Idle.read \in Scopes
  BY Constants DEF TypeOK, CallType, Scopes
<1>2. g \in GuardType /\ g.pc = "ready" /\ g.cell = NoCell /\ ~g.passed
  BY <1>1 DEF NoInstance, GuardType
<1> HIDE DEF g
<1> QED BY <1>2, Settles DEF Build, g

LEMMA DiscardInv == ASSUME AuthInv, NEW c \in Callers, Discard(c) PROVE AuthInv'
<1>1. Idle.read \in Scopes BY Constants DEF Scopes, CallType
<1>2. NoInstance \in GuardType /\ NoInstance.pc = "out" /\ NoInstance.cell = NoCell
      /\ ~NoInstance.passed
  BY <1>1 DEF NoInstance, GuardType
<1> QED BY <1>2, Settles DEF Discard

LEMMA PassInv == ASSUME AuthInv, NEW c \in Callers, Pass(c) PROVE AuthInv'
<1> DEFINE g == [guard[c] EXCEPT !.pc = "ready", !.cell = NoCell, !.passed = TRUE]
<1>1. guard[c] \in GuardType /\ guard[c].cell # NoCell BY DEF AuthInv, GuardsOK, Pass
<1>2. guard' = [guard EXCEPT ![c] = g] /\ UNCHANGED <<cells, cell, signedIn, proven>>
  BY DEF Pass, AuthInv, GuardsOK, GuardType
<1>3. g \in GuardType /\ g.pc = "ready" /\ g.cell = NoCell /\ g.with = guard[c].with
  BY <1>1 DEF GuardType
<1>4. guard[c].with \in proven BY <1>1 DEF AuthInv, Backed, Pass
<1> HIDE DEF g
<1> QED BY <1>2, <1>3, <1>4, Settles

LEMMA CheckInv == ASSUME AuthInv, NEW c \in Callers, Check(c) PROVE AuthInv'
<1>0. guard[c] \in GuardType /\ guard[c].cell = NoCell BY DEF AuthInv, GuardsOK, Check
<1> DEFINE w == guard[c].with
<1>1. w \in Scopes BY <1>0 DEF GuardType
<1>2. PICK x \in Cells :
        /\ IF cells[w] # NoCell THEN x = cells[w] ELSE Spare(x)
        /\ guard' = [guard EXCEPT ![c].pc = "wait", ![c].cell = x, ![c].passed = FALSE]
        /\ cell' = IF cells[w] # NoCell THEN cell ELSE [cell EXCEPT ![x] = Unprobed]
        /\ cells' = [cells EXCEPT ![w] = x]
  BY DEF Check, Scope
<1> DEFINE g == [guard[c] EXCEPT !.pc = "wait", !.cell = x, !.passed = FALSE]
<1>3. guard' = [guard EXCEPT ![c] = g] BY <1>2 DEF AuthInv, GuardsOK, GuardType
<1>4. g \in GuardType /\ g.pc = "wait" /\ g.cell = x /\ ~g.passed /\ g.with = w
  BY <1>0 DEF GuardType
<1> HIDE DEF g
<1>5. guard'[c] = g /\ \A d \in Callers : d # c => guard'[d] = guard[d]
  BY <1>3 DEF AuthInv, GuardsOK
<1>6. x # NoCell BY CellsAssumption
<1>7. cells'[w] = x /\ \A s \in Scopes : s # w => cells'[s] = cells[s]
  BY <1>1, <1>2 DEF AuthInv, GuardsOK
<1>8. UNCHANGED <<signedIn, proven>> BY DEF Check
<1>9. GuardsOK'
  <2>1. cell' \in [Cells -> CellType] BY <1>2 DEF AuthInv, GuardsOK, Unprobed, CellType
  <2> QED BY <2>1, <1>1, <1>2, <1>4, <1>5, <1>6, <1>8 DEF AuthInv, GuardsOK, CellType
<1>10. \A d \in Callers : (d # c /\ guard[d].cell = x) => guard[d].with = w
  <2>1. CASE cells[w] # NoCell BY <2>1, <1>1, <1>2 DEF AuthInv, OneScope
  <2>2. CASE cells[w] = NoCell BY <2>2, <1>2 DEF Spare
  <2> QED BY <2>1, <2>2
<1>11. \A s \in Scopes : cells[s] = x => s = w
  <2>1. CASE cells[w] # NoCell BY <2>1, <1>1, <1>2, <1>6 DEF AuthInv, OneScope
  <2>2. CASE cells[w] = NoCell
    BY <2>2, <1>2 DEF Spare, Range, AuthInv, GuardsOK
  <2> QED BY <2>1, <2>2
<1>12. OneScope'
  <2>1. ASSUME NEW d \in Callers, NEW e \in Callers, guard'[d].cell # NoCell,
               guard'[d].cell = guard'[e].cell
        PROVE  guard'[d].with = guard'[e].with
    BY <2>1, <1>4, <1>5, <1>10 DEF AuthInv, OneScope
  <2>2. ASSUME NEW d \in Callers, NEW s \in Scopes, cells'[s] # NoCell, cells'[s] = guard'[d].cell
        PROVE  guard'[d].with = s
    BY <2>2, <1>4, <1>5, <1>7, <1>10, <1>11 DEF AuthInv, OneScope
  <2>3. ASSUME NEW s \in Scopes, NEW t \in Scopes, cells'[s] # NoCell, cells'[s] = cells'[t]
        PROVE  s = t
    BY <2>3, <1>7, <1>11 DEF AuthInv, OneScope
  <2> QED BY <2>1, <2>2, <2>3 DEF OneScope
<1>13. \A y \in Cells : y = x \/ cell'[y] = cell[y] BY <1>2 DEF AuthInv, GuardsOK
<1>14. cells[w] = NoCell => cell'[x] = Unprobed /\ \A d \in Callers : guard[d].cell # x
  BY <1>2 DEF AuthInv, GuardsOK, Spare
<1>15. cells[w] # NoCell => cell' = cell /\ cells[w] = x BY <1>2
<1>16. \A d \in Callers : d # c => guard[d].cell = NoCell \/ cell'[guard[d].cell] = cell[guard[d].cell]
  BY <1>13, <1>14, <1>15 DEF AuthInv, GuardsOK, GuardType
<1>17. OneProbe'
  <2> SUFFICES ASSUME NEW d \in Callers, guard'[d].pc = "probe"
               PROVE  /\ Own(d)'.state = "running"
                      /\ \A e \in Callers : (guard'[e].pc = "probe" /\ guard'[e].cell = guard'[d].cell) => e = d
    BY DEF OneProbe
  <2>1. d # c /\ guard'[d] = guard[d] BY <1>4, <1>5
  <2>2. guard[d].cell # NoCell BY <2>1 DEF AuthInv, GuardsOK
  <2> QED BY <2>1, <2>2, <1>4, <1>5, <1>16 DEF AuthInv, OneProbe, Own
<1>18. Backed'
  <2>1. cell'[x].state = "ok" => w \in proven
    BY <1>1, <1>6, <1>14, <1>15 DEF AuthInv, Backed, Unprobed
  <2>2. ASSUME NEW d \in Callers, guard'[d].cell # NoCell, Own(d)'.state = "ok"
        PROVE  guard'[d].with \in proven
    BY <2>1, <2>2, <1>4, <1>5, <1>16 DEF AuthInv, Backed, Own
  <2>3. ASSUME NEW s \in Scopes, cells'[s] # NoCell, cell'[cells'[s]].state = "ok"
        PROVE  s \in proven
    <3>1. CASE s = w BY <3>1, <2>1, <2>3, <1>7
    <3>2. CASE s # w
      <4>1. cells[s] \in Cells /\ cells[s] # x BY <3>2, <2>3, <1>7, <1>11 DEF AuthInv, GuardsOK
      <4> QED BY <4>1, <3>2, <2>3, <1>7, <1>13 DEF AuthInv, Backed
    <3> QED BY <3>1, <3>2
  <2> QED BY <2>2, <2>3, <1>8 DEF Backed
<1>19. ProbedBeforeUse' BY <1>4, <1>5, <1>8 DEF AuthInv, ProbedBeforeUse
<1>20. FailuresAreNotKept'
  <2>1. ~cell'[x].told BY <1>1, <1>6, <1>14, <1>15 DEF AuthInv, FailuresAreNotKept, Unprobed
  <2>2. ASSUME NEW s \in Scopes, s # w, cells'[s] # NoCell PROVE ~cell'[cells'[s]].told
    <3>1. cells[s] \in Cells /\ cells[s] # x BY <2>2, <1>7, <1>11 DEF AuthInv, GuardsOK
    <3> QED BY <3>1, <2>2, <1>7, <1>13 DEF AuthInv, FailuresAreNotKept
  <2> QED BY <2>1, <2>2, <1>7 DEF FailuresAreNotKept
<1> QED BY <1>9, <1>12, <1>17, <1>18, <1>19, <1>20 DEF AuthInv

LEMMA ProbeInv == ASSUME AuthInv, NEW c \in Callers, Probe(c) PROVE AuthInv'
<1> DEFINE g == [guard[c] EXCEPT !.pc = "probe"]
           x == guard[c].cell
<1>1. guard[c] \in GuardType /\ x \in Cells /\ x # NoCell /\ cell[x].state = "empty"
  BY DEF AuthInv, GuardsOK, GuardType, Probe, Own
<1>2. /\ guard' = [guard EXCEPT ![c] = g] /\ cell' = [cell EXCEPT ![x].state = "running"]
      /\ UNCHANGED <<cells, signedIn, proven>>
  BY DEF Probe, AuthInv, GuardsOK, GuardType
<1>3. g \in GuardType /\ g.pc = "probe" /\ g.cell = x /\ g.passed = guard[c].passed
      /\ g.with = guard[c].with
  BY <1>1 DEF GuardType
<1> HIDE DEF g
<1>4. guard'[c] = g /\ \A d \in Callers : d # c => guard'[d] = guard[d]
  BY <1>2 DEF AuthInv, GuardsOK
<1>5. /\ cell' \in [Cells -> CellType] /\ cell'[x].state = "running" /\ cell'[x].told = cell[x].told
      /\ \A y \in Cells : y # x => cell'[y] = cell[y]
  BY <1>1, <1>2 DEF AuthInv, GuardsOK, CellType
<1>6. GuardsOK' BY <1>1, <1>2, <1>3, <1>4, <1>5 DEF AuthInv, GuardsOK, CellType
<1>7. OneScope' BY <1>2, <1>3, <1>4 DEF AuthInv, OneScope
<1>8. OneProbe'
  <2>1. \A d \in Callers : guard[d].pc = "probe" => guard[d].cell # x /\ guard[d].cell \in Cells
    BY <1>1 DEF AuthInv, OneProbe, Own, GuardsOK, GuardType
  <2> QED BY <2>1, <1>3, <1>4, <1>5 DEF AuthInv, OneProbe, Own
<1>9. \A d \in Callers : guard[d].cell \in Cells \cup {NoCell} BY DEF AuthInv, GuardsOK, GuardType
<1>10. Backed'
  <2>1. \A y \in Cells : cell'[y].state = "ok" => cell[y].state = "ok" BY <1>5
  <2>2. \A s \in Scopes : cells[s] \in Cells \cup {NoCell} BY DEF AuthInv, GuardsOK
  <2> QED BY <2>1, <2>2, <1>2, <1>3, <1>4, <1>9 DEF AuthInv, Backed, Own
<1>11. ProbedBeforeUse' BY <1>2, <1>3, <1>4 DEF AuthInv, ProbedBeforeUse
<1>12. FailuresAreNotKept'
  <2>1. \A y \in Cells : cell'[y].told = cell[y].told BY <1>5
  <2> QED BY <2>1, <1>2 DEF AuthInv, GuardsOK, FailuresAreNotKept
<1> QED BY <1>6, <1>7, <1>8, <1>10, <1>11, <1>12 DEF AuthInv

LEMMA ProbedInv == ASSUME AuthInv, NEW c \in Callers, Probed(c) PROVE AuthInv'
<1> DEFINE g == [guard[c] EXCEPT !.pc = "wait"]
           x == guard[c].cell
           w == guard[c].with
<1>1. guard[c] \in GuardType /\ x \in Cells /\ x # NoCell /\ w \in Scopes /\ guard[c].pc = "probe"
  BY DEF AuthInv, GuardsOK, GuardType, Probed
<1>2. guard' = [guard EXCEPT ![c] = g] /\ UNCHANGED <<cells, signedIn>>
  BY DEF Probed, AuthInv, GuardsOK, GuardType
<1>3. g \in GuardType /\ g.pc = "wait" /\ g.cell = x /\ g.passed = guard[c].passed /\ g.with = w
  BY <1>1 DEF GuardType
<1> HIDE DEF g
<1>4. guard'[c] = g /\ \A d \in Callers : d # c => guard'[d] = guard[d]
  BY <1>2 DEF AuthInv, GuardsOK
<1>5. \/ cell' = [cell EXCEPT ![x].state = "ok"] /\ proven' = proven \cup {w}
      \/ cell' = [cell EXCEPT ![x].state = "error"] /\ proven' = proven
  BY DEF Probed, Recorded
<1>6. /\ cell' \in [Cells -> CellType] /\ cell'[x].told = cell[x].told
      /\ \A y \in Cells : y # x => cell'[y] = cell[y]
      /\ cell'[x].state = "ok" => w \in proven'
      /\ proven \subseteq proven' /\ proven' \subseteq Scopes
  BY <1>1, <1>5 DEF AuthInv, GuardsOK, CellType
<1>7. GuardsOK' BY <1>1, <1>2, <1>3, <1>4, <1>6 DEF AuthInv, GuardsOK, CellType
<1>8. OneScope' BY <1>2, <1>3, <1>4 DEF AuthInv, OneScope
<1>9. OneProbe'
  <2>1. \A d \in Callers : d # c /\ guard[d].pc = "probe" => guard[d].cell # x /\ guard[d].cell \in Cells
    BY <1>1 DEF AuthInv, OneProbe, GuardsOK, GuardType
  <2> QED BY <2>1, <1>3, <1>4, <1>6 DEF AuthInv, OneProbe, Own
<1>10. Backed'
  <2>1. ASSUME NEW d \in Callers, guard'[d].cell # NoCell, Own(d)'.state = "ok"
        PROVE  guard'[d].with \in proven'
    <3>1. guard'[d].cell = guard[d].cell /\ guard'[d].with = guard[d].with BY <1>3, <1>4
    <3>2. CASE guard[d].cell = x
      <4>1. guard[d].with = w BY <3>2, <1>1 DEF AuthInv, OneScope
      <4> QED BY <4>1, <3>1, <3>2, <2>1, <1>6 DEF Own
    <3>3. CASE guard[d].cell # x
      <4>1. guard[d].cell \in Cells BY <2>1, <3>1 DEF AuthInv, GuardsOK, GuardType
      <4> QED BY <4>1, <3>1, <3>3, <2>1, <1>6 DEF AuthInv, Backed, Own
    <3> QED BY <3>2, <3>3
  <2>2. ASSUME NEW s \in Scopes, cells[s] # NoCell, cell'[cells[s]].state = "ok" PROVE s \in proven'
    <3>1. CASE cells[s] = x
      <4>1. w = s BY <3>1, <1>1 DEF AuthInv, OneScope
      <4> QED BY <4>1, <3>1, <2>2, <1>6
    <3>2. CASE cells[s] # x
      <4>1. cells[s] \in Cells BY <2>2 DEF AuthInv, GuardsOK
      <4> QED BY <4>1, <3>2, <2>2, <1>6 DEF AuthInv, Backed
    <3> QED BY <3>1, <3>2
  <2> QED BY <2>1, <2>2, <1>2 DEF Backed
<1>11. ProbedBeforeUse' BY <1>3, <1>4, <1>6 DEF AuthInv, ProbedBeforeUse
<1>12. FailuresAreNotKept'
  <2>1. \A y \in Cells : cell'[y].told = cell[y].told BY <1>6
  <2> QED BY <2>1, <1>2 DEF AuthInv, GuardsOK, FailuresAreNotKept
<1> QED BY <1>7, <1>8, <1>9, <1>10, <1>11, <1>12 DEF AuthInv

LEMMA RefuseInv == ASSUME AuthInv, NEW c \in Callers, Refuse(c) PROVE AuthInv'
<1> DEFINE g == [guard[c] EXCEPT !.pc = "ready", !.cell = NoCell]
           x == guard[c].cell
           w == guard[c].with
<1>1. /\ guard[c] \in GuardType /\ x \in Cells /\ x # NoCell /\ w \in Scopes
      /\ cell[x].state = "error"
  BY DEF AuthInv, GuardsOK, GuardType, Refuse, Own
<1>2. /\ guard' = [guard EXCEPT ![c] = g] /\ cell' = [cell EXCEPT ![x].told = TRUE]
      /\ cells' = [cells EXCEPT ![w] = IF cells[w] = x THEN NoCell ELSE @]
      /\ UNCHANGED <<signedIn, proven>>
  BY DEF Refuse, Dropped, Scope, AuthInv, GuardsOK, GuardType
<1>3. g \in GuardType /\ g.pc = "ready" /\ g.cell = NoCell /\ g.passed = guard[c].passed
      /\ g.with = w
  BY <1>1 DEF GuardType
<1> HIDE DEF g
<1>4. guard'[c] = g /\ \A d \in Callers : d # c => guard'[d] = guard[d]
  BY <1>2 DEF AuthInv, GuardsOK
<1>5. /\ cell' \in [Cells -> CellType] /\ cell'[x].state = cell[x].state
      /\ \A y \in Cells : y # x => cell'[y] = cell[y]
  BY <1>1, <1>2 DEF AuthInv, GuardsOK, CellType
<1>6. /\ cells' \in [Scopes -> Cells \cup {NoCell}]
      /\ \A s \in Scopes : cells'[s] # NoCell => cells'[s] = cells[s] /\ cells[s] # x
  BY <1>1, <1>2 DEF AuthInv, GuardsOK, OneScope
<1>7. GuardsOK' BY <1>1, <1>2, <1>3, <1>4, <1>5, <1>6 DEF AuthInv, GuardsOK, CellType
<1>8. OneScope' BY <1>3, <1>4, <1>6 DEF AuthInv, OneScope
<1>9. OneProbe'
  <2>1. \A d \in Callers : guard[d].pc = "probe" => guard[d].cell \in Cells
    BY DEF AuthInv, GuardsOK, GuardType
  <2> QED BY <2>1, <1>3, <1>4, <1>5 DEF AuthInv, OneProbe, Own
<1>10. Backed'
  <2>1. \A y \in Cells : cell'[y].state = cell[y].state BY <1>5
  <2>2. \A d \in Callers : guard[d].cell \in Cells \cup {NoCell} BY DEF AuthInv, GuardsOK, GuardType
  <2> QED BY <2>1, <2>2, <1>2, <1>3, <1>4, <1>6 DEF AuthInv, Backed, Own
<1>11. ProbedBeforeUse' BY <1>2, <1>3, <1>4 DEF AuthInv, ProbedBeforeUse
<1>12. FailuresAreNotKept' BY <1>5, <1>6 DEF AuthInv, GuardsOK, FailuresAreNotKept
<1> QED BY <1>7, <1>8, <1>9, <1>10, <1>11, <1>12 DEF AuthInv

LEMMA KeptInv == ASSUME AuthInv, UNCHANGED <<cells, cell, guard, proven>>, signedIn' \subseteq Scopes
                 PROVE  AuthInv'
BY DEF AuthInv, GuardsOK, OneScope, OneProbe, Backed, Own, ProbedBeforeUse, FailuresAreNotKept

(* The composition takes the memo's steps only: what is proved of the memo  *)
(* holds of it.                                                             *)
LEMMA StepsAreMemoSteps == [AuthNext]_allVars => [Next]_vars
BY DEF AuthNext, Next, Step, Ask, Resolving, Guarding, Build, Discard, Check, Probe, Probed, Pass,
       Refuse, SignInOrOut, Rotation, allVars, authVars, vars

LEMMA AuthNextInv == TypeOK /\ AuthInv /\ [AuthNext]_allVars => AuthInv'
<1> SUFFICES ASSUME TypeOK, AuthInv, [AuthNext]_allVars PROVE AuthInv' OBVIOUS
<1>1. CASE UNCHANGED authVars
  <2>1. UNCHANGED <<cells, cell, guard, signedIn, proven>> BY <1>1 DEF authVars
  <2> QED BY <2>1, KeptInv DEF AuthInv, GuardsOK
<1>2. CASE \E c \in Callers : Guarding(c) \/ Check(c) \/ Discard(c)
  BY <1>2, BuildInv, ProbeInv, ProbedInv, PassInv, RefuseInv, CheckInv, DiscardInv DEF Guarding
<1>3. CASE \E s \in Scopes : SignInOrOut(s)
  <2>1. signedIn' \subseteq Scopes BY <1>3 DEF SignInOrOut, AuthInv, GuardsOK
  <2> QED BY <2>1, <1>3, KeptInv DEF SignInOrOut
<1> QED BY <1>1, <1>2, <1>3 DEF AuthNext, Ask, Resolving, Rotation, allVars

(* The composition implements the memo: every behaviour of the threads that *)
(* build and probe is one of `get_or_try_init`.                             *)
THEOREM MemoRefined == AuthSpec => Spec
<1>1. AuthInit => Init BY DEF AuthInit
<1> QED BY <1>1, StepsAreMemoSteps, PTL DEF AuthSpec, Spec

LEMMA AuthInvariance == AuthSpec => [](TypeOK /\ AuthInv)
<1>1. AuthSpec => []TypeOK BY MemoRefined, TypeCorrect, PTL
<1> QED BY <1>1, AuthInitInv, AuthNextInv, PTL DEF AuthSpec

(* Every variable of the composition stays in its type (AuthTypeOK).        *)
THEOREM AuthTypeCorrect == AuthSpec => []AuthTypeOK
<1>1. TypeOK /\ AuthInv => AuthTypeOK BY DEF AuthInv, AuthTypeOK
<1> QED BY <1>1, AuthInvariance, PTL

(* With instances built and probed as well, a call begun after a reported   *)
(* rotation is given no older credential.                                   *)
THEOREM RotationsAreSeenByAll == AuthSpec => []FreshCredentials
BY MemoRefined, RotationsAreSeen, PTL

(* `PreflightGuard::check` passes an operation only with credentials that a *)
(* probe of this process found accepted.                                    *)
THEOREM ProbesComeFirst == AuthSpec => []ProbedBeforeUse
<1>1. AuthInv => ProbedBeforeUse BY DEF AuthInv
<1> QED BY <1>1, AuthInvariance, PTL

(* A failure `AuthCheckCache::check` handed to a caller is out of the map.  *)
THEOREM FailuresPass == AuthSpec => []FailuresAreNotKept
<1>1. AuthInv => FailuresAreNotKept BY DEF AuthInv
<1> QED BY <1>1, AuthInvariance, PTL

(* Both at once: `PreflightGuard::check` over `AuthCheckCache::check`.      *)
THEOREM ProbesHold == AuthSpec => []ProbesCount
BY ProbesComeFirst, FailuresPass, PTL DEF ProbesCount

(* No caller that is late with a failure takes a success out of the map     *)
(* (`Arc::ptr_eq` in `AuthCheckCache::check`).                              *)
THEOREM SuccessStays == AuthSpec => SuccessIsKept
<1>1. ASSUME AuthInv, [AuthNext]_allVars, NEW s \in Scopes, Succeeded(s) PROVE Succeeded(s)'
  <2>1. PICK x \in Cells : x = cells[s] /\ cell[x].state = "ok" /\ x # NoCell
    BY <1>1, CellsAssumption DEF Succeeded, AuthInv, GuardsOK
  <2>2. CASE UNCHANGED <<cells, cell>> BY <2>2, <1>1 DEF Succeeded
  <2>3. ASSUME NEW c \in Callers, Check(c) PROVE Succeeded(s)'
    <3> DEFINE w == guard[c].with
    <3>1. w \in Scopes BY <1>1 DEF AuthInv, GuardsOK, GuardType
    <3>2. PICK y \in Cells :
            /\ IF cells[w] # NoCell THEN y = cells[w] ELSE Spare(y)
            /\ cell' = IF cells[w] # NoCell THEN cell ELSE [cell EXCEPT ![y] = Unprobed]
            /\ cells' = [cells EXCEPT ![w] = y]
      BY <2>3 DEF Check, Scope
    <3>3. CASE cells[w] # NoCell
      <4>1. cell' = cell /\ cells' = cells BY <3>1, <3>2, <3>3, <1>1 DEF AuthInv, GuardsOK
      <4> QED BY <4>1, <2>2
    <3>4. CASE cells[w] = NoCell
      <4>1. y # x BY <3>2, <3>4, <2>1, <1>1 DEF Spare, Range, AuthInv, GuardsOK
      <4>2. w # s BY <3>4, <2>1
      <4> QED BY <4>1, <4>2, <3>2, <3>4, <2>1, <1>1 DEF Succeeded, AuthInv, GuardsOK
    <3> QED BY <3>3, <3>4
  <2>4. ASSUME NEW c \in Callers, Probe(c) \/ Probed(c) PROVE Succeeded(s)'
    <3> DEFINE y == guard[c].cell
    <3>1. y # x /\ cells' = cells BY <2>1, <2>4, <1>1 DEF Probe, Probed, Own, AuthInv, OneProbe
    <3>2. cell'[x] = cell[x]
      BY <2>1, <2>4, <3>1, <1>1 DEF Probe, Probed, AuthInv, GuardsOK
    <3> QED BY <3>1, <3>2, <2>1 DEF Succeeded
  <2>5. ASSUME NEW c \in Callers, Refuse(c) PROVE Succeeded(s)'
    <3> DEFINE y == guard[c].cell
               w == guard[c].with
    <3>1. y # x BY <2>1, <2>5 DEF Refuse, Own
    <3>2. cell'[x] = cell[x] BY <2>1, <2>5, <3>1, <1>1 DEF Refuse, AuthInv, GuardsOK
    <3>3. cells'[s] = cells[s]
      BY <2>1, <2>5, <3>1, <1>1 DEF Refuse, Dropped, Scope, AuthInv, GuardsOK
    <3> QED BY <3>2, <3>3, <2>1 DEF Succeeded
  <2> QED BY <1>1, <2>2, <2>3, <2>4, <2>5
          DEF AuthNext, Guarding, Build, Pass, Discard, SignInOrOut, Ask, Resolving, Rotation,
              allVars, authVars
<1>2. AuthInv /\ [AuthNext]_allVars => [\A s \in Scopes : Succeeded(s) => Succeeded(s)']_allVars
  BY <1>1
<1> QED BY <1>2, AuthInvariance, PTL DEF AuthSpec, SuccessIsKept

(* Neither a memo nor a success is lost to the failure of another thread.   *)
THEOREM GoodIsKept == AuthSpec => KeptOnceGood
BY MemoRefined, MemosAreKept, SuccessStays, PTL DEF KeptOnceGood
-----------------------------------------------------------------------------
(* What an entry reads as, as a function of what it holds.                  *)
Rendered == [v \in Values |-> ReadAs(v)]

Readable(its, n) == \E i \in Of(its, n) : i.value \in Values \cup {"hidden"}

Numbered(its) == \A i, j \in its : i.id = j.id => i = j
OnePath(its)  == \A i, j \in its : i.name = j.name /\ i.rank = j.rank => i = j
Flat(its)     == \A i \in its : i.rank = 1
Tidy(k, its)  ==
    /\ IsFiniteSet(its) /\ Numbered(its)
    /\ k = "sops" => OnePath(its)
    /\ k \notin Ranked => Flat(its)

(* n holds v and nothing else, unless it cannot be read.                    *)
Holds(k, its, n, v) ==
    IF k = "sops" THEN \E i \in Of(its, n) : i.rank = 1 /\ i.value \in {v, "hidden"}
    ELSE \E i \in its : Of(its, n) = {i} /\ i.value \in {v, "hidden"}

StoreFits ==
    /\ Tidy(kind, items)
    /\ place = "missing" => items = {} /\ kind \in {"infisical", "sops"}
    /\ kind # "protonpass" => \A n \in held : Readable(items, n)
    /\ \A n \in EntryNames :
           stored[n] # Unknown => kind # "dashlane" /\ Holds(kind, items, n, stored[n])

Points(k, op) ==
    CASE op = "get"    -> IF k = "dashlane" THEN {"type"} ELSE {"read"}
      [] op = "batch"  -> IF k = "dashlane" THEN {"type"}
                          ELSE IF k = "protonpass" THEN {"list", "view"} ELSE {"read"}
      [] op = "delete" -> IF k = "keeper" THEN {"look", "drop"}
                          ELSE IF k \in {"keyring", "pass", "gopass"} THEN {"remove"} ELSE {}
      [] op = "set"    ->
            IF k = "awssm" THEN {"create", "put"}
            ELSE IF k = "gcsm" THEN {"create", "version"}
            ELSE IF k = "scaleway" THEN {"create", "lookup", "post"}
            ELSE IF k = "infisical" THEN {"patch", "post", "folder", "repost"}
            ELSE IF k \in {"bws", "keeper", "lastpass"} THEN {"look", "edit", "add"}
            ELSE IF k = "protonpass" THEN {"look", "drop", "add"}
            ELSE IF k = "sops" THEN {"lock", "copy", "persist"}
            ELSE IF k = "dashlane" THEN {} ELSE {"put"}
      [] OTHER -> {}

(* A call under way is at a point of its operation.                         *)
Placed(k, c) ==
    c.pc # "done" =>
        /\ c.pc \in Points(k, c.op) /\ c.out = "none" /\ ~c.failed
        /\ c.op = "set" => c.value \in Values

(* What a read has learnt, and what it has yet to ask for.                  *)
Lacks(k, c) ==
    \A n \in EntryNames \ (IF c.pc = "done" THEN {} ELSE c.todo) :
        /\ Reads(c) /\ c.out # "error" /\ c.got[n] = "nothing"
        /\ ~(k = "bws" /\ c.cached) /\ ~(k = "protonpass" /\ c.op = "batch")
        /\ ~(k = "dashlane" /\ ~c.clean)
        => n \in c.gaps

Agrees(k, rd, c) ==
    \A n \in EntryNames \ (IF c.pc = "done" THEN {} ELSE c.todo) :
        /\ Reads(c) /\ c.out # "error" /\ c.got[n] # "unasked" /\ c.expect[n] # Unknown
        /\ ~(k = "bws" /\ c.cached)
        /\ ~(k = "protonpass" /\ c.op = "batch" /\ c.got[n] = "nothing")
        => c.got[n] = rd[c.expect[n]]

Blank(its, n) ==
    {i \in Of(its, n) : i.rank = 1} = {}
    \/ \E i \in its : {j \in Of(its, n) : j.rank = 1} = {i} /\ i.value \in {"empty", "scheduled"}

Watches(k, c, its, pl, st, ls) ==
    c.pc # "done" /\ Reads(c) =>
        /\ c.todo # {}
        /\ Bare(its, pl) \cap c.todo \subseteq c.gaps
        /\ \A n \in EntryNames : c.expect[n] # Unknown => c.expect[n] = st[n]
        /\ k = "bws" /\ ~c.cached => ls = Unlisted
        /\ k = "dashlane" /\ c.rank = 2 /\ c.clean => \A n \in c.todo : Blank(its, n)
        /\ k = "protonpass" => \A i \in c.seen, j \in its : i.id = j.id => i.name = j.name

(* The entry a write has found.                                             *)
Found(k, c, its) ==
    <<k, c.pc>> \in {<<"scaleway", "post">>, <<"bws", "edit">>, <<"keeper", "edit">>,
                     <<"keeper", "drop">>, <<"protonpass", "drop">>}
    => \A i \in By(its, c.id) : i.name = c.name

Ahead(k, c, its) ==
    /\ <<k, c.pc>> \in {<<"awssm", "put">>, <<"gcsm", "version">>, <<"scaleway", "lookup">>}
       => Of(its, c.name) # {}
    /\ <<k, c.pc>> \in {<<"scaleway", "post">>, <<"bws", "edit">>, <<"keeper", "edit">>,
                        <<"protonpass", "drop">>}
       => By(its, c.id) # {}
    /\ k = "infisical" /\ c.pc \in {"post", "folder", "repost"} => Of(its, c.name) = {}
    /\ <<k, c.pc>> = <<"lastpass", "edit">> => \E i \in its : Of(its, c.name) = {i}

Writes(k, c, its, pl, hl) ==
    /\ c.pc # "done" /\ c.op = "set" /\ c.clean => Ahead(k, c, its)
    /\ k = "infisical" /\ c.pc = "repost" => pl # "missing"
    /\ k = "sops" /\ c.pc = "persist" =>
           Tidy(k, c.seen) /\ \A n \in hl : Readable(c.seen, n)

CallFits(p) ==
    /\ Placed(kind, calls[p])
    /\ Lacks(kind, calls[p])
    /\ Agrees(kind, Rendered, calls[p])
    /\ Watches(kind, calls[p], items, place, stored, listing[p])
    /\ Found(kind, calls[p], items)
    /\ Writes(kind, calls[p], items, place, held)

OneWriter ==
    \A p, q \in Procs : /\ calls[p].pc \in {"copy", "persist"} /\ calls[q].pc \in {"copy", "persist"}
                        => p = q

IInv == StoresTypeOK /\ StoreFits /\ (\A p \in Procs : CallFits(p)) /\ OneWriter
-----------------------------------------------------------------------------
(* A set of numbers has a smallest one.                                     *)
LEMMA SmallestOf ==
    ASSUME NEW S, S \subseteq Nat, S # {}
    PROVE  \E k \in S : \A j \in S : k <= j
<1> DEFINE R == OpToRel(<, Nat)
<1>1. IsWellFoundedOn(R, Nat) BY NatLessThanWellFounded
<1>2. PICK k \in S : \A j \in S : <<j, k>> \notin R
  <2> HIDE DEF R
  <2> QED BY <1>1, WFMin, Zenon
<1>3. \A j \in S : ~(j < k)
  BY <1>2 DEF OpToRel
<1> QED BY <1>3

(* The identity a new entry is given is a free one.                         *)
LEMMA FreshIs ==
    ASSUME NEW its, Room(its)
    PROVE  Min(Fresh(its)) \in Fresh(its)
<1>1. Fresh(its) \subseteq Nat /\ Fresh(its) # {}
  BY AdaptersAssumption DEF Fresh, Room
<1>2. PICK k \in Fresh(its) : \A j \in Fresh(its) : k <= j
  BY <1>1, SmallestOf
<1> QED BY <1>2 DEF Min

(* Among finitely many entries there are one of the smallest and one of the *)
(* largest identity.                                                        *)
LEMMA ExtremesOf ==
    ASSUME NEW its, its \subseteq Item, IsFiniteSet(its), its # {}
    PROVE  /\ \E i \in its : \A j \in its : i.id <= j.id
           /\ \E i \in its : \A j \in its : i.id >= j.id
<1>1. \A i \in its : i.id \in Nat
  BY AdaptersAssumption DEF Item
<1>2. \E i \in its : \A j \in its : i.id <= j.id
  <2> DEFINE S == {i.id : i \in its}
  <2>1. S \subseteq Nat /\ S # {} BY <1>1
  <2>2. PICK k \in S : \A j \in S : k <= j
    <3> HIDE DEF S
    <3> QED BY <2>1, SmallestOf
  <2>3. PICK i \in its : k = i.id BY <2>2
  <2> QED BY <2>2, <2>3
<1>3. \E i \in its : \A j \in its : i.id >= j.id
  <2> DEFINE Over(i) == {j \in its : j.id > i.id}
             S == {Cardinality(Over(i)) : i \in its}
  <2>1. \A i \in its : IsFiniteSet(Over(i)) /\ Cardinality(Over(i)) \in Nat
    <3> SUFFICES ASSUME NEW i \in its PROVE IsFiniteSet(Over(i)) /\ Cardinality(Over(i)) \in Nat OBVIOUS
    <3>1. Over(i) \in SUBSET its OBVIOUS
    <3> HIDE DEF Over
    <3>2. IsFiniteSet(Over(i)) BY <3>1, FS_Subset
    <3> QED BY <3>2, FS_CardinalityType
  <2>2. S \subseteq Nat /\ S # {} BY <2>1
  <2>3. PICK k \in S : \A j \in S : k <= j
    <3> HIDE DEF S
    <3> QED BY <2>2, SmallestOf
  <2>4. PICK i \in its : k = Cardinality(Over(i)) BY <2>3
  <2>5. ASSUME NEW j \in its, ~(i.id >= j.id) PROVE FALSE
    <3>1. j.id > i.id BY <2>5, <1>1
    <3>2. Over(j) \in SUBSET Over(i) BY <3>1, <1>1
    <3>3. j \in Over(i) /\ j \notin Over(j) BY <3>1, <1>1
    <3>4. Cardinality(Over(i)) <= Cardinality(Over(j)) BY <2>3, <2>4
    <3> HIDE DEF Over
    <3>5. Cardinality(Over(j)) <= Cardinality(Over(i))
          /\ (Cardinality(Over(i)) = Cardinality(Over(j)) => Over(i) = Over(j))
      BY <3>2, <2>1, FS_Subset
    <3> QED BY <3>3, <3>4, <3>5, <2>1
  <2> QED BY <2>5
<1> QED BY <1>2, <1>3

(* How many entries a name has. *)
LEMMA CountOf ==
    ASSUME NEW its, IsFiniteSet(its), NEW n
    PROVE  /\ IsFiniteSet(Of(its, n))
           /\ Cardinality(Of(its, n)) \in Nat
           /\ Cardinality(Of(its, n)) = 0 <=> Of(its, n) = {}
           /\ Cardinality(Of(its, n)) = 1 <=> \E i \in its : Of(its, n) = {i}
<1>1. Of(its, n) \in SUBSET its BY DEF Of
<1>2. IsFiniteSet(Of(its, n)) BY <1>1, FS_Subset
<1>3. Cardinality(Of(its, n)) \in Nat BY <1>2, FS_CardinalityType
<1>4. Cardinality(Of(its, n)) = 0 <=> Of(its, n) = {} BY <1>2, FS_EmptySet
<1>5. Cardinality(Of(its, n)) = 1 <=> \E i : Of(its, n) = {i} BY <1>2, FS_Singleton
<1>6. ASSUME NEW i, Of(its, n) = {i} PROVE i \in its BY <1>1, <1>6
<1> QED BY <1>2, <1>3, <1>4, <1>5, <1>6

-----------------------------------------------------------------------------
(* What `Becomes` does, part by part.                                       *)
Settled(c, its) == Acks(c) /\ c.clean /\ (kind = "sops" \/ Cardinality(Of(its, c.name)) = 1)

StoredAfter(c, its) ==
    [n \in EntryNames |->
        IF n = c.name /\ Settled(c, its) THEN c.value
        ELSE IF n \in Touched(its) \/ (c.op \in {"set", "delete"} /\ n = c.name) THEN Unknown
        ELSE stored[n]]

Watched(own, d, its, pl, st) ==
    [d EXCEPT !.gaps = IF Reads(d) THEN @ \cup (Bare(its, pl) \cap d.todo) ELSE @,
              !.clean = @ /\ (own \/ (d.todo \cup {d.name}) \cap Touched(its) = {}),
              !.expect = [n \in EntryNames |-> IF st[n] = @[n] THEN @[n] ELSE Unknown]]

LEMMA BecomesMeans ==
    ASSUME NEW p, NEW c, NEW its, NEW pl, Becomes(p, c, its, pl)
    PROVE  /\ items' = its /\ place' = pl /\ kind' = kind /\ guarded' = guarded
           /\ stored' = StoredAfter(c, its)
           /\ held' = CASE Acks(c) -> held \cup {c.name}
                        [] c.op = "delete" -> held \ {c.name}
                        [] c = NoCall -> held \ {n \in Touched(its) : ~(Of(items, n) \subseteq Of(its, n))}
                        [] OTHER -> held
BY DEF Becomes, StoredAfter, Settled

CallsAfter(p, c, its, pl) ==
    [q \in Procs |->
        IF q = p THEN IF c.pc = "done" THEN c ELSE Watched(TRUE, c, its, pl, StoredAfter(c, its))
        ELSE IF calls[q].pc = "done" THEN NoCall
        ELSE Watched(FALSE, calls[q], its, pl, StoredAfter(c, its))]

LEMMA CallsBecome ==
    ASSUME NEW p, NEW c, NEW its, NEW pl, Becomes(p, c, its, pl)
    PROVE  calls' = CallsAfter(p, c, its, pl)
BY DEF Becomes, StoredAfter, Settled, Watched, CallsAfter

Tracks(w, d, own, its, pl, st) ==
    /\ w \in Operation
    /\ w.pc = d.pc /\ w.op = d.op /\ w.out = d.out /\ w.name = d.name /\ w.value = d.value
    /\ w.todo = d.todo /\ w.got = d.got /\ w.rank = d.rank /\ w.seen = d.seen /\ w.id = d.id
    /\ w.cached = d.cached /\ w.failed = d.failed
    /\ w.gaps = IF Reads(d) THEN d.gaps \cup (Bare(its, pl) \cap d.todo) ELSE d.gaps
    /\ w.clean = (d.clean /\ (own \/ (d.todo \cup {d.name}) \cap Touched(its) = {}))
    /\ w.expect = [n \in EntryNames |-> IF st[n] = d.expect[n] THEN d.expect[n] ELSE Unknown]

LEMMA WatchedIs ==
    ASSUME NEW own \in BOOLEAN, NEW d \in Operation, NEW its, NEW pl,
           NEW st \in [EntryNames -> Values \cup {Unknown}]
    PROVE  Tracks(Watched(own, d, its, pl, st), d, own, its, pl, st)
<1> DEFINE w == Watched(own, d, its, pl, st)
           g == IF Reads(d) THEN d.gaps \cup (Bare(its, pl) \cap d.todo) ELSE d.gaps
           cl == d.clean /\ (own \/ (d.todo \cup {d.name}) \cap Touched(its) = {})
           ex == [n \in EntryNames |-> IF st[n] = d.expect[n] THEN d.expect[n] ELSE Unknown]
<1>1. w = [d EXCEPT !.gaps = g, !.clean = cl, !.expect = ex]
  BY Zenon DEF Watched
<1>2. g \in SUBSET EntryNames
  BY DEF Bare, Operation
<1>3. cl \in BOOLEAN
  OBVIOUS
<1>4. ex \in [EntryNames -> Values \cup {Unknown}]
  BY DEF Operation
<1> HIDE DEF g, cl, ex
<1>5. [d EXCEPT !.gaps = g, !.clean = cl, !.expect = ex] \in Operation
  BY <1>2, <1>3, <1>4 DEF Operation
<1>6. /\ w.pc = d.pc /\ w.op = d.op /\ w.out = d.out /\ w.name = d.name /\ w.value = d.value
      /\ w.todo = d.todo /\ w.got = d.got /\ w.rank = d.rank /\ w.seen = d.seen /\ w.id = d.id
      /\ w.cached = d.cached /\ w.failed = d.failed /\ w.gaps = g /\ w.clean = cl /\ w.expect = ex
  BY <1>1 DEF Operation
<1> QED BY <1>1, <1>5, <1>6 DEF g, cl, ex, Tracks

LEMMA NoCallIs ==
    /\ NoCall \in Operation /\ NoCall.pc = "done" /\ NoCall.op = "none" /\ NoCall.out = "none"
    /\ NoCall.clean /\ ~NoCall.failed /\ NoCall.todo = {} /\ NoCall.id = 0 /\ NoCall.seen = {}
    /\ NoCall.rank = 1 /\ ~NoCall.cached /\ NoCall.gaps = {}
    /\ NoCall.got = [n \in EntryNames |-> "unasked"]
    /\ NoCall.expect = [n \in EntryNames |-> Unknown]
<1>1. (CHOOSE n \in EntryNames : TRUE) \in EntryNames
  BY AdaptersAssumption
<1> DEFINE x == CHOOSE n \in EntryNames : TRUE
<1> HIDE DEF x
<1>2. /\ [n \in EntryNames |-> "unasked"] \in [EntryNames -> Values \cup {"unasked", "nothing", "error"}]
      /\ [n \in EntryNames |-> Unknown] \in [EntryNames -> Values \cup {Unknown}]
  OBVIOUS
<1>3. NoCall = [pc |-> "done", op |-> "none", out |-> "none", name |-> x,
     value |-> "empty", todo |-> {}, got |-> [n \in EntryNames |-> "unasked"], rank |-> 1,
     seen |-> {}, id |-> 0, cached |-> FALSE, clean |-> TRUE, failed |-> FALSE,
     gaps |-> {}, expect |-> [n \in EntryNames |-> Unknown]]
  BY DEF NoCall, x
<1>4. x \in EntryNames BY <1>1 DEF x
<1> QED BY <1>2, <1>3, <1>4 DEF Operation

(* A call nobody is making, and one that is over, know nothing that could   *)
(* become false.                                                            *)
LEMMA OverFits ==
    ASSUME NEW k, NEW rd, NEW c \in Operation, c.pc = "done",
           NEW its, NEW pl, NEW st, NEW ls, NEW hl
    PROVE  /\ Placed(k, c) /\ Watches(k, c, its, pl, st, ls) /\ Found(k, c, its)
           /\ Writes(k, c, its, pl, hl)
           /\ ~Reads(c) => Lacks(k, c) /\ Agrees(k, rd, c)
<1>1. Placed(k, c) /\ Watches(k, c, its, pl, st, ls)
  BY DEF Placed, Watches
<1>2. Found(k, c, its)
  BY DEF Found
<1>3. Writes(k, c, its, pl, hl)
  BY DEF Writes
<1>4. ~Reads(c) => Lacks(k, c) /\ Agrees(k, rd, c)
  BY DEF Lacks, Agrees
<1> QED BY <1>1, <1>2, <1>3, <1>4
-----------------------------------------------------------------------------
HeldAfter(c, its) ==
    CASE Acks(c) -> held \cup {c.name}
      [] c.op = "delete" -> held \ {c.name}
      [] c = NoCall -> held \ {n \in Touched(its) : ~(Of(items, n) \subseteq Of(its, n))}
      [] OTHER -> held

(* Identities stay with their names, and new ones are nobody's.             *)
Known(its) ==
    \A j \in its : (\E i \in items : i.id = j.id /\ i.name = j.name) \/ j.id \in Fresh(items)

(* Only a write that is acknowledged makes the store hold another value.    *)
LEMMA HeldOnly ==
    ASSUME NEW c, NEW its, ~Acks(c) PROVE HeldAfter(c, its) \subseteq held
BY DEF HeldAfter

(* An entry another call has found by its identity keeps its name.          *)
LEMMA KnownById ==
    ASSUME NEW its, Known(its), NEW q \in Procs, NEW j \in its, NEW n,
           j.id = calls[q].id \/ \E s \in calls[q].seen : s.id = j.id,
           \A i \in items : i.id = j.id => i.name = n
    PROVE  j.name = n
<1>1. j.id \notin Fresh(items)
  BY DEF Fresh, By
<1> QED BY <1>1 DEF Known

(* A step of one process keeps what the invariant says of the calls of the  *)
(* others.                                                                  *)
LEMMA OthersFit ==
    ASSUME StoresTypeOK, NEW q \in Procs, CallFits(q), calls[q].pc # "done",
           NEW its, its \subseteq Item, NEW pl, NEW c, NEW st \in [EntryNames -> Values \cup {Unknown}],
           kind = "sops" \/ Known(its),
           pl = "missing" => place = "missing",
           Acks(c) /\ kind = "sops" => calls[q].pc # "persist"
    PROVE  LET w == Watched(FALSE, calls[q], its, pl, st) IN
           /\ Placed(kind, w) /\ Lacks(kind, w) /\ Agrees(kind, Rendered, w)
           /\ Watches(kind, w, its, pl, st, listing[q])
           /\ Found(kind, w, its) /\ Writes(kind, w, its, pl, HeldAfter(c, its))
<1> DEFINE d == calls[q]
           w == Watched(FALSE, d, its, pl, st)
<1>0. d \in Operation
  BY DEF StoresTypeOK
<1>w. /\ w \in Operation
      /\ w.pc = d.pc /\ w.op = d.op /\ w.out = d.out /\ w.name = d.name /\ w.value = d.value
      /\ w.todo = d.todo /\ w.got = d.got /\ w.rank = d.rank /\ w.seen = d.seen /\ w.id = d.id
      /\ w.cached = d.cached /\ w.failed = d.failed
      /\ w.gaps = IF Reads(d) THEN d.gaps \cup (Bare(its, pl) \cap d.todo) ELSE d.gaps
      /\ w.clean = (d.clean /\ (d.todo \cup {d.name}) \cap Touched(its) = {})
      /\ w.expect = [n \in EntryNames |-> IF st[n] = d.expect[n] THEN d.expect[n] ELSE Unknown]
  <2> HIDE DEF d
  <2>1. Tracks(w, d, FALSE, its, pl, st)
    BY <1>0, WatchedIs, Zenon
  <2> HIDE DEF w
  <2> QED BY <2>1 DEF Tracks
<1>r. Reads(w) <=> Reads(d)
  BY <1>w DEF Reads
<1>c. w.clean => d.clean /\ d.todo \cap Touched(its) = {} /\ d.name \notin Touched(its)
  BY <1>w
<1>s. \A n \in EntryNames : n \notin Touched(its) => Of(its, n) = Of(items, n)
  BY DEF Touched
<1>o. /\ Placed(kind, d) /\ Lacks(kind, d) /\ Agrees(kind, Rendered, d)
      /\ Watches(kind, d, items, place, stored, listing[q])
      /\ Found(kind, d, items) /\ Writes(kind, d, items, place, held)
      /\ d.pc # "done"
  BY DEF CallFits
<1>k. ASSUME NEW j \in its, kind # "sops", NEW n, j.id = d.id \/ (\E s \in d.seen : s.id = j.id),
             \A i \in items : i.id = j.id => i.name = n
      PROVE  j.name = n
  <2>1. Known(its)
    BY <1>k
  <2> QED BY <1>k, <2>1, KnownById
<1> HIDE DEF d, w
<1>1. Placed(kind, w)
  BY <1>o, <1>w DEF Placed
<1>2. Lacks(kind, w)
  <2>1. \A n \in EntryNames : n \in d.gaps => n \in w.gaps
    BY <1>w
  <2> QED BY <1>o, <1>w, <1>r, <2>1 DEF Lacks
<1>3. Agrees(kind, Rendered, w)
  <2>1. \A n \in EntryNames : w.expect[n] # Unknown => w.expect[n] = d.expect[n]
    BY <1>w
  <2> QED BY <1>o, <1>w, <1>r, <2>1 DEF Agrees
<1>4. Watches(kind, w, its, pl, st, listing[q])
  <2> SUFFICES ASSUME Reads(w)
               PROVE  /\ w.todo # {}
                      /\ Bare(its, pl) \cap w.todo \subseteq w.gaps
                      /\ \A n \in EntryNames : w.expect[n] # Unknown => w.expect[n] = st[n]
                      /\ kind = "bws" /\ ~w.cached => listing[q] = Unlisted
                      /\ kind = "dashlane" /\ w.rank = 2 /\ w.clean => \A n \in w.todo : Blank(its, n)
                      /\ kind = "protonpass" =>
                             \A i \in w.seen, j \in its : i.id = j.id => i.name = j.name
    BY DEF Watches
  <2>0. /\ d.todo # {}
        /\ kind = "bws" /\ ~d.cached => listing[q] = Unlisted
        /\ kind = "dashlane" /\ d.rank = 2 /\ d.clean => \A n \in d.todo : Blank(items, n)
        /\ kind = "protonpass" => \A i \in d.seen, j \in items : i.id = j.id => i.name = j.name
    BY <1>o, <1>r DEF Watches
  <2>1. w.todo # {} /\ Bare(its, pl) \cap w.todo \subseteq w.gaps
    BY <2>0, <1>w, <1>r
  <2>2. \A n \in EntryNames : w.expect[n] # Unknown => w.expect[n] = st[n]
    BY <1>w
  <2>3. ASSUME kind = "dashlane", w.rank = 2, w.clean, NEW n \in w.todo PROVE Blank(its, n)
    <3>1. Blank(items, n) /\ n \in EntryNames /\ n \notin Touched(its)
      BY <1>0, <1>w, <1>c, <2>0, <2>3 DEF Operation
    <3>2. Of(its, n) = Of(items, n)
      BY <3>1, <1>s
    <3>3. \A i : i \in Of(its, n) => i \in its
      BY DEF Of
    <3> QED BY <3>1, <3>2, <3>3 DEF Blank
  <2>4. ASSUME kind = "protonpass", NEW i \in w.seen, NEW j \in its, i.id = j.id PROVE i.name = j.name
    <3>1. i \in d.seen /\ kind # "sops"
      BY <1>w, <2>4
    <3>2. \A x \in items : x.id = j.id => x.name = i.name
      BY <2>0, <2>4, <3>1
    <3> QED BY <3>1, <3>2, <2>4, <1>k
  <2> QED BY <2>0, <2>1, <2>2, <2>3, <2>4, <1>w
<1>5. Found(kind, w, its)
  <2> SUFFICES ASSUME <<kind, w.pc>> \in {<<"scaleway", "post">>, <<"bws", "edit">>, <<"keeper", "edit">>,
                                          <<"keeper", "drop">>, <<"protonpass", "drop">>},
                      NEW j \in By(its, w.id)
               PROVE  j.name = w.name
    BY DEF Found
  <2>1. kind # "sops" /\ j \in its /\ j.id = d.id
    BY <1>w DEF By
  <2>2. \A i \in items : i.id = j.id => i.name = d.name
    BY <1>o, <1>w, <2>1 DEF Found, By
  <2> QED BY <1>w, <1>k, <2>1, <2>2
<1>6. Writes(kind, w, its, pl, HeldAfter(c, its))
  <2>1. ASSUME w.op = "set", w.clean PROVE Ahead(kind, w, its)
    <3>1. Ahead(kind, d, items)
      BY <1>o, <1>w, <1>c, <2>1 DEF Writes
    <3>2. Of(its, d.name) = Of(items, d.name)
      BY <1>0, <1>c, <1>s, <2>1 DEF Operation
    <3>3. ASSUME <<kind, d.pc>> \in {<<"scaleway", "post">>, <<"bws", "edit">>, <<"keeper", "edit">>,
                                    <<"protonpass", "drop">>}
          PROVE  By(its, d.id) # {}
      <4>1. PICK i \in By(items, d.id) : TRUE
        BY <3>1, <3>3 DEF Ahead
      <4>2. i.name = d.name
        BY <1>o, <3>3, <4>1 DEF Found
      <4>3. i \in Of(items, d.name) /\ i.id = d.id
        BY <4>1, <4>2 DEF Of, By
      <4> QED BY <3>2, <4>3 DEF Of, By
    <3>4. \A i : i \in Of(its, d.name) => i \in its
      BY DEF Of
    <3> QED BY <1>w, <3>1, <3>2, <3>3, <3>4 DEF Ahead
  <2>2. kind = "infisical" /\ w.pc = "repost" => pl # "missing"
    BY <1>o, <1>w DEF Writes
  <2>3. ASSUME kind = "sops", w.pc = "persist"
        PROVE  Tidy(kind, w.seen) /\ \A n \in HeldAfter(c, its) : Readable(w.seen, n)
    <3>1. ~Acks(c) /\ Tidy(kind, d.seen) /\ \A n \in held : Readable(d.seen, n)
      BY <1>o, <1>w, <2>3 DEF Writes, d
    <3>2. HeldAfter(c, its) \subseteq held
      BY <3>1, HeldOnly
    <3> QED BY <1>w, <3>1, <3>2
  <2> QED BY <1>w, <2>1, <2>2, <2>3 DEF Writes
<1> QED BY <1>1, <1>2, <1>3, <1>4, <1>5, <1>6 DEF d, w
-----------------------------------------------------------------------------
(* What a step must make of the store, ...                                  *)
Proper(c, its, pl) ==
    /\ its \subseteq Item /\ Tidy(kind, its) /\ (kind = "sops" \/ Known(its))
    /\ pl \in {"ready", "missing", "plain"} /\ (pl = "missing" => place = "missing" /\ its = {})
    /\ kind # "protonpass" => \A n \in HeldAfter(c, its) : Readable(its, n)
    /\ Acks(c) => /\ kind # "dashlane" /\ c.value \in Values
                  /\ kind = "sops" \/ Cardinality(Of(its, c.name)) = 1
                     => Holds(kind, its, c.name, c.value)

(* ... and of the call that makes it.                                       *)
Proceeds(p, c, its, pl) ==
    IF c.pc = "done" THEN Reads(c) => Lacks(kind, c) /\ Agrees(kind, Rendered, c)
    ELSE /\ Placed(kind, c) /\ Found(kind, c, its) /\ Writes(kind, c, its, pl, HeldAfter(c, its))
         /\ Reads(c) => /\ its = items /\ pl = place /\ Lacks(kind, c) /\ Agrees(kind, Rendered, c)
                        /\ Watches(kind, c, items, place, stored, listing'[p])

(* A name holds what it held as long as its entries are the same.           *)
LEMMA HoldsOn ==
    ASSUME NEW k, NEW its, NEW old, NEW n, NEW v, Of(its, n) = Of(old, n), Holds(k, old, n, v)
    PROVE  Holds(k, its, n, v)
<1>1. \A i : i \in Of(its, n) => i \in its
  BY DEF Of
<1> QED BY <1>1 DEF Holds

(* What is known to be stored is a written value or nothing known.          *)
LEMMA StoredIs ==
    ASSUME StoresTypeOK, NEW c, NEW its, Acks(c) => c.value \in Values
    PROVE  /\ StoredAfter(c, its) \in [EntryNames -> Values \cup {Unknown}]
           /\ \A n \in EntryNames :
                StoredAfter(c, its)[n] # Unknown =>
                    \/ n = c.name /\ Settled(c, its) /\ StoredAfter(c, its)[n] = c.value
                    \/ Of(its, n) = Of(items, n) /\ StoredAfter(c, its)[n] = stored[n]
<1>1. Settled(c, its) => c.value \in Values
  BY DEF Settled
<1> QED BY <1>1 DEF StoredAfter, StoresTypeOK, Touched

(* The step keeps what the invariant says of the store.                     *)
LEMMA StoreKept ==
    ASSUME StoresTypeOK, StoreFits, NEW p, NEW c \in Operation, NEW its, NEW pl,
           Proper(c, its, pl), Becomes(p, c, its, pl)
    PROVE  /\ StoreFits'
           /\ items' \subseteq Item /\ held' \subseteq EntryNames /\ place' \in {"ready", "missing", "plain"}
           /\ stored' \in [EntryNames -> Values \cup {Unknown}]
           /\ kind' = kind /\ guarded' = guarded /\ held' = HeldAfter(c, its)
<1>1. /\ items' = its /\ place' = pl /\ kind' = kind /\ guarded' = guarded
      /\ stored' = StoredAfter(c, its) /\ held' = HeldAfter(c, its)
  <2>1. held' = HeldAfter(c, its)
    BY BecomesMeans, Zenon DEF HeldAfter
  <2> QED BY <2>1, BecomesMeans
<1>2. HeldAfter(c, its) \subseteq EntryNames
  BY DEF HeldAfter, StoresTypeOK, Operation
<1>3. Acks(c) => c.value \in Values
  BY DEF Proper
<1>4. ASSUME NEW n \in EntryNames, StoredAfter(c, its)[n] # Unknown
      PROVE  kind # "dashlane" /\ Holds(kind, its, n, StoredAfter(c, its)[n])
  <2>1. CASE n = c.name /\ Settled(c, its) /\ StoredAfter(c, its)[n] = c.value
    BY <2>1 DEF Settled, Proper
  <2>2. CASE Of(its, n) = Of(items, n) /\ StoredAfter(c, its)[n] = stored[n]
    <3>1. kind # "dashlane" /\ Holds(kind, items, n, stored[n])
      BY <2>2, <1>4 DEF StoreFits
    <3> QED BY <2>2, <3>1, HoldsOn
  <2> QED BY <1>3, <1>4, <2>1, <2>2, StoredIs
<1>5. Tidy(kind, its) /\ (pl = "missing" => its = {})
      /\ (kind # "protonpass" => \A n \in HeldAfter(c, its) : Readable(its, n))
  BY DEF Proper
<1>7. pl = "missing" => kind \in {"infisical", "sops"}
  BY DEF Proper, StoreFits
<1>6. StoreFits'
  <2>1. Tidy(kind', items') /\ (place' = "missing" => items' = {} /\ kind' \in {"infisical", "sops"})
        /\ (kind' # "protonpass" => \A n \in held' : Readable(items', n))
    BY <1>1, <1>5, <1>7
  <2>2. \A n \in EntryNames : stored'[n] # Unknown => kind' # "dashlane" /\ Holds(kind', items', n, stored'[n])
    BY <1>1, <1>4
  <2> QED BY <2>1, <2>2 DEF StoreFits
<1> QED BY <1>1, <1>2, <1>3, <1>6, StoredIs DEF Proper

(* The step keeps what the invariant says of the call that makes it.        *)
LEMMA OwnFits ==
    ASSUME StoresTypeOK, NEW p \in Procs, NEW c \in Operation, c.pc # "done",
           NEW its, its \subseteq Item, NEW pl, Acks(c) => c.value \in Values,
           Proceeds(p, c, its, pl)
    PROVE  LET st == StoredAfter(c, its)
               w == Watched(TRUE, c, its, pl, st) IN
           /\ Placed(kind, w) /\ Lacks(kind, w) /\ Agrees(kind, Rendered, w)
           /\ Watches(kind, w, its, pl, st, listing'[p])
           /\ Found(kind, w, its) /\ Writes(kind, w, its, pl, HeldAfter(c, its))
<1> DEFINE st == StoredAfter(c, its)
           w == Watched(TRUE, c, its, pl, st)
<1>t. st \in [EntryNames -> Values \cup {Unknown}]
  BY StoredIs
<1> HIDE DEF st
<1>w. /\ w \in Operation
      /\ w.pc = c.pc /\ w.op = c.op /\ w.out = c.out /\ w.name = c.name /\ w.value = c.value
      /\ w.todo = c.todo /\ w.got = c.got /\ w.rank = c.rank /\ w.seen = c.seen /\ w.id = c.id
      /\ w.cached = c.cached /\ w.failed = c.failed
      /\ w.gaps = IF Reads(c) THEN c.gaps \cup (Bare(its, pl) \cap c.todo) ELSE c.gaps
      /\ w.clean = c.clean
      /\ w.expect = [n \in EntryNames |-> IF st[n] = c.expect[n] THEN c.expect[n] ELSE Unknown]
  <2>1. Tracks(w, c, TRUE, its, pl, st)
    BY <1>t, WatchedIs, Zenon
  <2> HIDE DEF w
  <2>2. c.clean \in BOOLEAN
    BY DEF Operation
  <2> QED BY <2>1, <2>2 DEF Tracks
<1>r. Reads(w) <=> Reads(c)
  BY <1>w DEF Reads
<1>o. /\ Placed(kind, c) /\ Found(kind, c, its) /\ Writes(kind, c, its, pl, HeldAfter(c, its))
      /\ Reads(c) => /\ its = items /\ pl = place /\ Lacks(kind, c) /\ Agrees(kind, Rendered, c)
                     /\ Watches(kind, c, items, place, stored, listing'[p])
  BY DEF Proceeds
<1> HIDE DEF w
<1>1. Placed(kind, w) /\ Found(kind, w, its) /\ Writes(kind, w, its, pl, HeldAfter(c, its))
  <2>1. Placed(kind, w) BY <1>o, <1>w DEF Placed
  <2>2. Found(kind, w, its) BY <1>o, <1>w DEF Found
  <2>3. Writes(kind, w, its, pl, HeldAfter(c, its))
    <3>1. Ahead(kind, c, its) => Ahead(kind, w, its) BY <1>w DEF Ahead
    <3> QED BY <1>o, <1>w, <3>1 DEF Writes
  <2> QED BY <2>1, <2>2, <2>3
<1>2. CASE ~Reads(c)
  BY <1>1, <1>2, <1>r DEF Lacks, Agrees, Watches, st, w
<1>3. CASE Reads(c)
  <2>1. st = stored
    <3>1. Touched(its) = {}
      BY <1>3, <1>o DEF Touched
    <3>2. ~Acks(c) /\ c.op \notin {"set", "delete"}
      BY <1>3 DEF Reads, Acks
    <3>3. \A n \in EntryNames : st[n] = stored[n]
      BY <3>1, <3>2 DEF StoredAfter, Settled, st
    <3> QED BY <3>3, <1>t DEF StoresTypeOK
  <2>2. /\ c.todo # {} /\ Bare(items, place) \cap c.todo \subseteq c.gaps
        /\ \A n \in EntryNames : c.expect[n] # Unknown => c.expect[n] = stored[n]
    BY <1>3, <1>o DEF Watches, Placed
  <2>3. w.expect = c.expect
    <3>1. c.expect \in [EntryNames -> Values \cup {Unknown}]
      BY DEF Operation
    <3>2. \A n \in EntryNames : w.expect[n] = c.expect[n]
      BY <1>w, <2>1, <2>2
    <3> QED BY <1>w, <3>1, <3>2 DEF Operation
  <2>4. w.gaps = c.gaps
    BY <1>3, <1>o, <1>w, <2>2
  <2>5. Lacks(kind, w)
    BY <1>3, <1>o, <1>w, <1>r, <2>4 DEF Lacks
  <2>6. Agrees(kind, Rendered, w)
    BY <1>3, <1>o, <1>w, <1>r, <2>3 DEF Agrees
  <2>7. Watches(kind, w, its, pl, st, listing'[p])
    BY <1>3, <1>o, <1>w, <1>r, <2>1, <2>2, <2>3, <2>4 DEF Watches
  <2> QED BY <1>1, <2>5, <2>6, <2>7 DEF st, w
<1> QED BY <1>2, <1>3

(* The whole step.                                                          *)
LEMMA StepKeeps ==
    ASSUME IInv, NEW p \in Procs \cup {Owner}, NEW c \in Operation, NEW its, NEW pl,
           Becomes(p, c, its, pl), Proper(c, its, pl),
           p \in Procs => Proceeds(p, c, its, pl),
           Acks(c) /\ kind = "sops" => p \in Procs /\ calls[p].pc = "persist",
           c.pc \in {"copy", "persist"} =>
               \A q \in Procs : q # p => calls[q].pc \notin {"copy", "persist"},
           listing' \in [Procs -> (SUBSET Item) \cup {Unlisted}],
           \A q \in Procs : q # p => listing'[q] = listing[q],
           trouble' \in 0 .. MaxTrouble
    PROVE  IInv'
<1> DEFINE st == StoredAfter(c, its)
<1>i. StoresTypeOK /\ StoreFits /\ (\A q \in Procs : CallFits(q)) /\ OneWriter
  BY DEF IInv
<1>o. Owner \notin Procs
  BY AdaptersAssumption DEF Owner
<1>b. /\ items' = its /\ place' = pl /\ kind' = kind /\ guarded' = guarded
      /\ stored' = st
      /\ calls' = [q \in Procs |->
                     IF q = p THEN IF c.pc = "done" THEN c ELSE Watched(TRUE, c, its, pl, st)
                     ELSE IF calls[q].pc = "done" THEN NoCall
                     ELSE Watched(FALSE, calls[q], its, pl, st)]
  <2>1. /\ items' = its /\ place' = pl /\ kind' = kind /\ guarded' = guarded
        /\ stored' = StoredAfter(c, its)
    BY BecomesMeans
  <2>2. calls' = CallsAfter(p, c, its, pl)
    BY CallsBecome
  <2> QED BY <2>1, <2>2, Zenon DEF CallsAfter
<1>s. /\ StoreFits'
      /\ items' \subseteq Item /\ held' \subseteq EntryNames /\ place' \in {"ready", "missing", "plain"}
      /\ stored' \in [EntryNames -> Values \cup {Unknown}]
      /\ held' = HeldAfter(c, its)
  BY <1>i, StoreKept
<1>t. st \in [EntryNames -> Values \cup {Unknown}]
  BY <1>b, <1>s
<1>v. Acks(c) => c.value \in Values
  BY DEF Proper
<1> HIDE DEF st
<1>1. \A q \in Procs : calls[q] \in Operation
  BY <1>i DEF StoresTypeOK
<1>2. ASSUME NEW own \in BOOLEAN, NEW d \in Operation
      PROVE  /\ Watched(own, d, its, pl, st) \in Operation
             /\ Watched(own, d, its, pl, st).pc = d.pc
  <2>1. Tracks(Watched(own, d, its, pl, st), d, own, its, pl, st)
    BY <1>t, <1>2, WatchedIs, Zenon
  <2> QED BY <2>1 DEF Tracks
<1>3. calls' \in [Procs -> Operation]
  <2>1. ASSUME NEW q \in Procs
        PROVE  (IF q = p THEN IF c.pc = "done" THEN c ELSE Watched(TRUE, c, its, pl, st)
                ELSE IF calls[q].pc = "done" THEN NoCall
                ELSE Watched(FALSE, calls[q], its, pl, st)) \in Operation
    BY <1>1, <1>2, NoCallIs
  <2> QED BY <1>b, <2>1
<1>4. StoresTypeOK'
  BY <1>b, <1>s, <1>3, <1>i DEF StoresTypeOK
<1>5. OneWriter'
  <2>1. \A q \in Procs : q # p /\ calls'[q].pc \in {"copy", "persist"} => calls[q].pc \in {"copy", "persist"}
    BY <1>1, <1>2, <1>b, NoCallIs
  <2>2. p \in Procs => calls'[p].pc = c.pc
    BY <1>2, <1>b
  <2> QED BY <1>i, <2>1, <2>2 DEF OneWriter
<1>r. Rendered' = Rendered
  BY <1>b DEF Rendered, ReadAs
<1>6. ASSUME NEW q \in Procs PROVE CallFits(q)'
  <2> DEFINE w == calls'[q]
  <2>1. /\ Placed(kind, w) /\ Lacks(kind, w) /\ Agrees(kind, Rendered, w)
        /\ Watches(kind, w, its, pl, st, listing'[q])
        /\ Found(kind, w, its) /\ Writes(kind, w, its, pl, HeldAfter(c, its))
    <3>1. CASE q = p /\ c.pc = "done"
      <4>1. w = c BY <1>b, <3>1
      <4>2. Proceeds(p, c, its, pl) BY <3>1
      <4>3. Lacks(kind, c) /\ Agrees(kind, Rendered, c)
        BY <4>2, <3>1, OverFits DEF Proceeds
      <4> HIDE DEF w
      <4> QED BY <3>1, <4>1, <4>3, OverFits
    <3>2. CASE q = p /\ c.pc # "done"
      <4>1. w = Watched(TRUE, c, its, pl, StoredAfter(c, its)) BY <1>b, <3>2 DEF st
      <4>2. Proceeds(p, c, its, pl) /\ its \subseteq Item BY <3>2 DEF Proper
      <4> HIDE DEF w
      <4> QED BY <3>2, <4>1, <4>2, <1>i, <1>v, OwnFits DEF st
    <3>3. CASE q # p /\ calls[q].pc = "done"
      <4>1. w = NoCall BY <1>b, <3>3
      <4> HIDE DEF w
      <4>2. ~Reads(NoCall) BY NoCallIs DEF Reads
      <4> QED BY <4>1, <4>2, OverFits, NoCallIs
    <3>4. CASE q # p /\ calls[q].pc # "done"
      <4>1. w = Watched(FALSE, calls[q], its, pl, st) BY <1>b, <3>4
      <4> HIDE DEF w
      <4>2. /\ its \subseteq Item /\ (kind = "sops" \/ Known(its)) /\ (pl = "missing" => place = "missing")
        BY DEF Proper
      <4>3. Acks(c) /\ kind = "sops" => calls[q].pc # "persist"
        BY <1>i, <3>4 DEF OneWriter
      <4>4. listing'[q] = listing[q] BY <3>4
      <4> QED BY <1>i, <1>t, <3>4, <4>1, <4>2, <4>3, <4>4, OthersFit
    <3> QED BY <3>1, <3>2, <3>3, <3>4
  <2> HIDE DEF w
  <2>2. /\ Placed(kind', calls'[q]) /\ Lacks(kind', calls'[q]) /\ Agrees(kind', Rendered', calls'[q])
        /\ Watches(kind', calls'[q], items', place', stored', listing'[q])
        /\ Found(kind', calls'[q], items') /\ Writes(kind', calls'[q], items', place', held')
    BY <1>b, <1>r, <1>s, <2>1 DEF w
  <2> QED BY <2>2 DEF CallFits
<1> QED BY <1>s, <1>4, <1>5, <1>6 DEF IInv
-----------------------------------------------------------------------------
(* The changes of the store.                                                *)
LEMMA AddedIs ==
    ASSUME NEW its, its \subseteq Item, IsFiniteSet(its), Numbered(its), Room(its),
           NEW n \in EntryNames, NEW v \in Values \cup Marks
    PROVE  /\ Added(its, n, v) \subseteq Item /\ IsFiniteSet(Added(its, n, v)) /\ Numbered(Added(its, n, v))
           /\ OnePath(its) /\ (\A i \in Of(its, n) : i.rank # 1) => OnePath(Added(its, n, v))
           /\ Flat(its) => Flat(Added(its, n, v))
           /\ \A m \in EntryNames : Readable(its, m) => Readable(Added(its, n, v), m)
           /\ \A m : m # n => Of(Added(its, n, v), m) = Of(its, m)
           /\ its \subseteq Added(its, n, v)
           /\ \E i \in Added(its, n, v) :
                 /\ Added(its, n, v) = its \cup {i} /\ i.id \in Fresh(its) /\ i \notin its
                 /\ i.name = n /\ i.rank = 1 /\ i.value = v /\ Of(Added(its, n, v), n) = Of(its, n) \cup {i}
<1> DEFINE i == [id |-> Min(Fresh(its)), name |-> n, rank |-> 1, value |-> v]
           new == Added(its, n, v)
<1>0. new = its \cup {i} /\ i.id = Min(Fresh(its)) /\ i.name = n /\ i.rank = 1 /\ i.value = v
  BY DEF Added
<1>1. Min(Fresh(its)) \in Fresh(its)
  BY FreshIs
<1>2. i.id \in Fresh(its) /\ i.id \in Ids /\ \A j \in its : j.id # i.id
  BY <1>0, <1>1 DEF Fresh, By
<1>3. i \in Item
  BY <1>0, <1>2 DEF Item
<1> HIDE DEF new, i
<1>4. new \subseteq Item /\ Numbered(new) /\ i \notin its
  BY <1>0, <1>2, <1>3 DEF Numbered
<1>5. IsFiniteSet(new)
  BY <1>0, FS_AddElement
<1>6. OnePath(its) /\ (\A j \in Of(its, n) : j.rank # 1) => OnePath(new)
  BY <1>0 DEF OnePath, Of
<1>10. Flat(its) => Flat(new)
  BY <1>0 DEF Flat
<1>7. \A m \in EntryNames : Readable(its, m) => Readable(new, m)
  BY <1>0 DEF Readable, Of
<1>8. (\A m : m # n => Of(new, m) = Of(its, m)) /\ Of(new, n) = Of(its, n) \cup {i}
  BY <1>0 DEF Of
<1>9. i \in new /\ its \subseteq new
  BY <1>0
<1> QED BY <1>0, <1>2, <1>4, <1>5, <1>6, <1>7, <1>8, <1>9, <1>10 DEF new

(* `edit`, `update`, `put_secret_value`: one entry of another value.        *)
LEMMA EditedIs ==
    ASSUME NEW its, its \subseteq Item, IsFiniteSet(its), Numbered(its),
           NEW old \in its, NEW v \in Values
    PROVE  /\ Edited(its, old, v) \subseteq Item /\ IsFiniteSet(Edited(its, old, v))
           /\ Numbered(Edited(its, old, v))
           /\ OnePath(its) => OnePath(Edited(its, old, v))
           /\ Flat(its) => Flat(Edited(its, old, v))
           /\ \A m \in EntryNames : Readable(its, m) => Readable(Edited(its, old, v), m)
           /\ \A j \in Edited(its, old, v) : \E i \in its : i.id = j.id /\ i.name = j.name
           /\ \E i \in Of(Edited(its, old, v), old.name) :
                 i.rank = old.rank /\ i.id = old.id /\ i.value \in {v, "hidden"}
<1> DEFINE i == [old EXCEPT !.value = IF @ = "hidden" THEN @ ELSE v]
           new == Edited(its, old, v)
<1>0. new = (its \ {old}) \cup {i}
  BY DEF Edited
<1>1. /\ i.id = old.id /\ i.name = old.name /\ i.rank = old.rank
      /\ i.value = (IF old.value = "hidden" THEN old.value ELSE v)
      /\ i \in Item
  BY DEF Item
<1> HIDE DEF i, new
<1>2. new \subseteq Item /\ i \in new
  BY <1>0, <1>1
<1>3. Numbered(new)
  BY <1>0, <1>1 DEF Numbered
<1>4. IsFiniteSet(new)
  <2>1. IsFiniteSet(its \ {old}) BY FS_RemoveElement
  <2> QED BY <1>0, <2>1, FS_AddElement
<1>5. OnePath(its) => OnePath(new)
  BY <1>0, <1>1 DEF OnePath
<1>9. Flat(its) => Flat(new)
  BY <1>0, <1>1 DEF Flat
<1>6. i.value \in {v, "hidden"}
  BY <1>1
<1>7. \A m \in EntryNames : Readable(its, m) => Readable(new, m)
  BY <1>0, <1>1, <1>2, <1>6 DEF Readable, Of
<1>8. \A j \in new : \E x \in its : x.id = j.id /\ x.name = j.name
  BY <1>0, <1>1
<1> QED BY <1>1, <1>2, <1>3, <1>4, <1>5, <1>6, <1>7, <1>8, <1>9 DEF new, Of

(* `put`: the entry of the name is overwritten or made.                     *)
LEMMA StoredNew ==
    ASSUME NEW its, its \subseteq Item, IsFiniteSet(its), Numbered(its),
           NEW n \in EntryNames, NEW v \in Values,
           Room(its) \/ \E i \in Of(its, n) : i.rank = 1
    PROVE  /\ Stored(its, n, v) \subseteq Item /\ IsFiniteSet(Stored(its, n, v))
           /\ Numbered(Stored(its, n, v))
           /\ OnePath(its) => OnePath(Stored(its, n, v))
           /\ Flat(its) => Flat(Stored(its, n, v))
           /\ \A m \in EntryNames : Readable(its, m) => Readable(Stored(its, n, v), m)
           /\ \A j \in Stored(its, n, v) : (\E i \in its : i.id = j.id /\ i.name = j.name) \/ j.id \in Fresh(its)
           /\ \E i \in Of(Stored(its, n, v), n) : i.rank = 1 /\ i.value \in {v, "hidden"}
<1> DEFINE own == {i \in Of(its, n) : i.rank = 1}
<1>1. CASE own = {}
  <2>1. Stored(its, n, v) = Added(its, n, v) /\ Room(its) /\ \A i \in Of(its, n) : i.rank # 1
    BY <1>1 DEF Stored
  <2>2. v \in Values \cup Marks
    OBVIOUS
  <2>3. PICK i \in Added(its, n, v) :
          /\ Added(its, n, v) = its \cup {i} /\ i.id \in Fresh(its) /\ i \notin its
          /\ i.name = n /\ i.rank = 1 /\ i.value = v /\ Of(Added(its, n, v), n) = Of(its, n) \cup {i}
    BY <2>1, <2>2, AddedIs
  <2>4. /\ Added(its, n, v) \subseteq Item /\ IsFiniteSet(Added(its, n, v)) /\ Numbered(Added(its, n, v))
        /\ OnePath(its) => OnePath(Added(its, n, v))
        /\ Flat(its) => Flat(Added(its, n, v))
        /\ \A m \in EntryNames : Readable(its, m) => Readable(Added(its, n, v), m)
    BY <2>1, <2>2, AddedIs
  <2>5. \A j \in Added(its, n, v) : (\E x \in its : x.id = j.id /\ x.name = j.name) \/ j.id \in Fresh(its)
    BY <2>3
  <2>6. i \in Of(Added(its, n, v), n) /\ i.rank = 1 /\ i.value \in {v, "hidden"}
    BY <2>3
  <2> QED BY <2>1, <2>4, <2>5, <2>6
<1>2. CASE own # {}
  <2> DEFINE old == CHOOSE i \in own : TRUE
  <2>1. old \in own
    BY <1>2
  <2>2. Stored(its, n, v) = Edited(its, old, v)
    BY <1>2 DEF Stored
  <2>3. old \in its /\ old.name = n /\ old.rank = 1
    BY <2>1 DEF Of
  <2> HIDE DEF old
  <2> QED BY <2>2, <2>3, EditedIs
<1> QED BY <1>1, <1>2

(* A store with some entries gone is still in order.                        *)
LEMMA LessIs ==
    ASSUME NEW its, its \subseteq Item, NEW k, Tidy(k, its), NEW gone
    PROVE  /\ its \ gone \subseteq Item /\ Tidy(k, its \ gone)
           /\ \A m : (\A i \in gone : i.name # m) => Of(its \ gone, m) = Of(its, m)
<1>1. IsFiniteSet(its \ gone)
  BY FS_Difference DEF Tidy
<1> QED BY <1>1 DEF Tidy, Numbered, OnePath, Flat, Of

LEMMA KnownItems == Known(items)
BY DEF Known
-----------------------------------------------------------------------------
(* A step that leaves the store alone.                                      *)
LEMMA MoveKeeps ==
    ASSUME IInv, NEW p \in Procs \cup {Owner}, NEW c \in Operation, ~Acks(c),
           Becomes(p, c, items, place),
           p \in Procs => Proceeds(p, c, items, place),
           c.pc \in {"copy", "persist"} =>
               \A q \in Procs : q # p => calls[q].pc \notin {"copy", "persist"},
           listing' \in [Procs -> (SUBSET Item) \cup {Unlisted}],
           \A q \in Procs : q # p => listing'[q] = listing[q],
           trouble' \in 0 .. MaxTrouble
    PROVE  IInv'
<1>1. HeldAfter(c, items) \subseteq held
  BY HeldOnly
<1>2. Proper(c, items, place)
  BY <1>1, KnownItems DEF IInv, StoresTypeOK, StoreFits, Proper
<1> QED BY <1>2, StepKeeps

(* How a call ends: with an answer, or with the error of a failed request.  *)
LEMMA EndedIs ==
    ASSUME StoresTypeOK, NEW p \in Procs
    PROVE  /\ \A out \in {"none", "ok", "error"} :
                 /\ Ended(p, out) \in Operation /\ Ended(p, out).pc = "done" /\ Ended(p, out).out = out
                 /\ Ended(p, out).op = calls[p].op /\ Ended(p, out).name = calls[p].name
                 /\ Ended(p, out).value = calls[p].value /\ Ended(p, out).clean = calls[p].clean
                 /\ Ended(p, out).failed = calls[p].failed
           /\ Broken(p) \in Operation /\ Broken(p).pc = "done" /\ Broken(p).out = "error"
           /\ Broken(p).op = calls[p].op /\ Broken(p).name = calls[p].name /\ Broken(p).failed
<1>1. calls[p] \in Operation
  BY DEF StoresTypeOK
<1>2. ASSUME NEW out \in {"none", "ok", "error"}
      PROVE  /\ Ended(p, out) \in Operation /\ Ended(p, out).pc = "done" /\ Ended(p, out).out = out
             /\ Ended(p, out).op = calls[p].op /\ Ended(p, out).name = calls[p].name
             /\ Ended(p, out).value = calls[p].value /\ Ended(p, out).clean = calls[p].clean
             /\ Ended(p, out).failed = calls[p].failed
  BY <1>1 DEF Ended, Operation
<1>3. /\ Broken(p) \in Operation /\ Broken(p).pc = "done" /\ Broken(p).out = "error"
      /\ Broken(p).op = calls[p].op /\ Broken(p).name = calls[p].name /\ Broken(p).failed
  <2> DEFINE e == Ended(p, "error")
  <2>1. /\ e \in Operation /\ e.pc = "done" /\ e.out = "error"
        /\ e.op = calls[p].op /\ e.name = calls[p].name
    BY <1>2
  <2>2. Broken(p) = [e EXCEPT !.failed = TRUE]
    BY DEF Broken
  <2> HIDE DEF e
  <2> QED BY <2>1, <2>2 DEF Operation
<1> QED BY <1>2, <1>3

LEMMA TroubledIs == ASSUME StoresTypeOK, Troubled PROVE trouble' \in 0 .. MaxTrouble
BY AdaptersAssumption DEF Troubled, StoresTypeOK

LEMMA SameListing ==
    ASSUME StoresTypeOK, UNCHANGED listing
    PROVE  listing' \in [Procs -> (SUBSET Item) \cup {Unlisted}] /\ \A q \in Procs : listing'[q] = listing[q]
BY DEF StoresTypeOK

(* A call that errs, whatever it was.                                       *)
LEMMA ErrKeeps ==
    ASSUME IInv, NEW p \in Procs, NEW c \in {Ended(p, "error"), Broken(p)},
           Becomes(p, c, items, place), UNCHANGED listing, trouble' \in 0 .. MaxTrouble
    PROVE  IInv'
<1>1. StoresTypeOK
  BY DEF IInv
<1>2. c \in Operation /\ c.pc = "done" /\ c.out = "error" /\ ~Acks(c)
  BY <1>1, EndedIs DEF Acks
<1>3. Proceeds(p, c, items, place)
  BY <1>2 DEF Proceeds, Lacks, Agrees
<1> QED BY <1>1, <1>2, <1>3, MoveKeeps, SameListing

LEMMA ErrsKeep == ASSUME IInv, NEW p \in Procs, Errs(p) PROVE IInv'
BY ErrKeeps DEF Errs, Moves, IInv, StoresTypeOK

(* A write that may take effect although its answer is lost.                *)
LEMMA EffectKeeps ==
    ASSUME IInv, NEW p \in Procs, NEW c \in Operation, ~Reads(c), NEW its, NEW pl,
           Effects(p, c, its, pl),
           Proper(c, its, pl), Proper(Broken(p), its, pl), Proceeds(p, c, its, pl),
           kind # "sops", c.pc \notin {"copy", "persist"}
    PROVE  IInv'
<1>1. StoresTypeOK
  BY DEF IInv
<1>2. CASE Becomes(p, c, its, pl) /\ UNCHANGED listing /\ UNCHANGED trouble
  BY <1>1, <1>2, StepKeeps, SameListing DEF StoresTypeOK
<1>3. CASE Troubled /\ Becomes(p, Broken(p), its, pl) /\ UNCHANGED listing
  <2>1. Broken(p) \in Operation /\ Broken(p).pc = "done" /\ ~Acks(Broken(p)) /\ Broken(p).out = "error"
    BY <1>1, EndedIs DEF Acks
  <2>2. Proceeds(p, Broken(p), its, pl)
    BY <2>1 DEF Proceeds, Lacks, Agrees
  <2> QED BY <1>1, <1>3, <2>1, <2>2, StepKeeps, SameListing, TroubledIs
<1> QED BY <1>2, <1>3 DEF Effects

(* A write under way writes a value of the run, and is not over.            *)
LEMMA SetIsReal ==
    ASSUME IInv, NEW p \in Procs, calls[p].pc # "done", calls[p].op = "set"
    PROVE  kind # "dashlane" /\ calls[p].value \in Values /\ calls[p].name \in EntryNames
<1>1. Placed(kind, calls[p]) /\ calls[p] \in Operation
  BY DEF IInv, CallFits, StoresTypeOK
<1> QED BY <1>1 DEF Placed, Points, Operation

(* A write or a delete that takes effect and is acknowledged.               *)
LEMMA FinishKeeps ==
    ASSUME IInv, NEW p \in Procs, calls[p].pc # "done", calls[p].op \in {"set", "delete"},
           NEW its, Finishes(p, its), kind # "sops", place # "missing",
           its \subseteq Item, Tidy(kind, its), Known(its),
           \A n \in EntryNames : Readable(items, n) =>
               Readable(its, n) \/ kind = "protonpass" \/ (calls[p].op = "delete" /\ n = calls[p].name),
           calls[p].op = "set" => \E i \in Of(its, calls[p].name) : i.value \in {calls[p].value, "hidden"}
    PROVE  IInv'
<1> DEFINE c == Ended(p, "ok")
           d == calls[p]
<1>1. StoresTypeOK /\ StoreFits
  BY DEF IInv
<1>2. /\ c \in Operation /\ c.pc = "done" /\ c.op = d.op /\ c.name = d.name /\ c.value = d.value
      /\ d \in Operation /\ c.out = "ok"
  BY <1>1, EndedIs DEF StoresTypeOK
<1>3. /\ Broken(p) \in Operation /\ Broken(p).pc = "done" /\ Broken(p).op = d.op
      /\ Broken(p).name = d.name /\ Broken(p).out = "error"
  BY <1>1, EndedIs
<1>4. ~Reads(c) /\ (Acks(c) <=> d.op = "set") /\ ~Acks(Broken(p))
  BY <1>2, <1>3 DEF Reads, Acks
<1>5. d.op = "set" => /\ kind # "dashlane" /\ d.value \in Values
                      /\ Readable(its, d.name)
                      /\ Cardinality(Of(its, d.name)) = 1 => Holds(kind, its, d.name, d.value)
  <2> HAVE d.op = "set"
  <2>1. kind # "dashlane" /\ d.value \in Values
    BY SetIsReal
  <2>2. PICK i \in Of(its, d.name) : i.value \in {d.value, "hidden"}
    OBVIOUS
  <2>3. Readable(its, d.name)
    BY <2>1, <2>2 DEF Readable
  <2>4. ASSUME Cardinality(Of(its, d.name)) = 1 PROVE Holds(kind, its, d.name, d.value)
    <3>1. PICK j \in its : Of(its, d.name) = {j}
      BY <2>4, CountOf DEF Tidy
    <3> QED BY <2>2, <3>1 DEF Holds
  <2> QED BY <2>1, <2>3, <2>4
<1> HIDE DEF c, d
<1>6. ASSUME NEW e \in {c, Broken(p)} PROVE Proper(e, its, place)
  <2>1. e.op = d.op /\ e.name = d.name /\ e.value \in {d.value, e.value} /\ (Acks(e) => e = c)
    BY <1>2, <1>3, <1>4
  <2>2. ASSUME NEW n \in HeldAfter(e, its), kind # "protonpass" PROVE Readable(its, n)
    <3>0. d.op \in {"set", "delete"}
      BY DEF d
    <3>1. e # NoCall
      BY <2>1, <3>0, NoCallIs
    <3>2. (Acks(e) /\ n = d.name) \/ n \in held
      BY <2>1, <3>0 DEF HeldAfter
    <3>3. CASE Acks(e) /\ n = d.name
      BY <1>4, <1>5, <2>1, <3>3
    <3>4. CASE n \in held
      <4>1. Readable(items, n) /\ n \in EntryNames
        BY <1>1, <2>2, <3>4 DEF StoreFits, StoresTypeOK
      <4>2. CASE d.op = "delete" /\ n = d.name
        <5>1. ~Acks(e)
          BY <1>2, <1>3, <1>4, <2>1, <4>2
        <5> QED BY <2>1, <2>2, <3>1, <4>2, <5>1 DEF HeldAfter
      <4> QED BY <2>2, <4>1, <4>2 DEF d
    <3> QED BY <3>2, <3>3, <3>4
  <2>3. Acks(e) => /\ kind # "dashlane" /\ e.value \in Values
                   /\ kind = "sops" \/ Cardinality(Of(its, e.name)) = 1
                      => Holds(kind, its, e.name, e.value)
    BY <1>2, <1>4, <1>5, <2>1
  <2> QED BY <1>1, <2>2, <2>3 DEF Proper, StoresTypeOK
<1>7. Proceeds(p, c, its, place)
  BY <1>2, <1>4 DEF Proceeds
<1>8. Effects(p, c, its, place)
  BY DEF Finishes, c
<1> QED BY <1>2, <1>4, <1>6, <1>7, <1>8, EffectKeeps
-----------------------------------------------------------------------------
(* Calls on their way.                                                      *)
WritePoints == {"look", "remove", "create", "patch", "lock", "put", "version", "lookup", "post", "folder",
                "repost", "edit", "add", "drop", "copy", "persist"}

(* c is calls[p] at another point, with what it has found.                  *)
Later(p, c) ==
    /\ c \in Operation /\ c.pc \in WritePoints /\ c.op = calls[p].op /\ c.out = calls[p].out
    /\ c.name = calls[p].name /\ c.value = calls[p].value /\ c.failed = calls[p].failed
    /\ c.clean = calls[p].clean

Moved(p, pc)    == [calls[p] EXCEPT !.pc = pc]
Fixed(p, pc, d) == [calls[p] EXCEPT !.pc = pc, !.id = d]

(* The call at its next point is a call.                                    *)
LEMMA LaterIs ==
    ASSUME StoresTypeOK, NEW p \in Procs, NEW pc \in WritePoints, NEW d \in Nat
    PROVE  /\ Later(p, Moved(p, pc)) /\ Moved(p, pc).pc = pc
           /\ Moved(p, pc).id = calls[p].id /\ Moved(p, pc).seen = calls[p].seen
           /\ Later(p, Fixed(p, pc, d)) /\ Fixed(p, pc, d).pc = pc
           /\ Fixed(p, pc, d).id = d /\ Fixed(p, pc, d).seen = calls[p].seen
<1> DEFINE e == calls[p]
<1>1. e \in Operation
  BY DEF StoresTypeOK
<1> HIDE DEF e
<1>2. [e EXCEPT !.pc = pc] \in Operation
  BY <1>1 DEF Operation, WritePoints
<1>3. [e EXCEPT !.pc = pc, !.id = d] \in Operation
  BY <1>1 DEF Operation, WritePoints
<1>4. LET c == [e EXCEPT !.pc = pc] IN
      /\ c.pc = pc /\ c.op = e.op /\ c.out = e.out /\ c.name = e.name /\ c.value = e.value
      /\ c.failed = e.failed /\ c.clean = e.clean /\ c.id = e.id /\ c.seen = e.seen
  BY <1>1 DEF Operation
<1>5. LET c == [e EXCEPT !.pc = pc, !.id = d] IN
      /\ c.pc = pc /\ c.op = e.op /\ c.out = e.out /\ c.name = e.name /\ c.value = e.value
      /\ c.failed = e.failed /\ c.clean = e.clean /\ c.id = d /\ c.seen = e.seen
  BY <1>1 DEF Operation
<1> QED BY <1>2, <1>3, <1>4, <1>5 DEF Later, Moved, Fixed, e

(* A write on its way has told nobody anything.                             *)
LEMMA LaterFits ==
    ASSUME IInv, NEW p \in Procs, calls[p].pc # "done", calls[p].op \in {"set", "delete"},
           NEW c, Later(p, c), c.pc \in Points(kind, calls[p].op)
    PROVE  /\ Placed(kind, c) /\ ~Reads(c) /\ ~Acks(c) /\ c.pc # "done" /\ c.op \in {"set", "delete"}
           /\ \A its : HeldAfter(c, its) \subseteq held
<1>1. Placed(kind, calls[p])
  BY DEF IInv, CallFits
<1>2. c.pc # "done"
  BY DEF Later, WritePoints
<1>3. ~Reads(c) /\ ~Acks(c)
  BY <1>2 DEF Later, Reads, Acks
<1>4. Placed(kind, c)
  BY <1>1 DEF Later, Placed
<1>5. \A its : HeldAfter(c, its) \subseteq held
  BY <1>3, HeldOnly
<1> QED BY <1>2, <1>3, <1>4, <1>5 DEF Later

(* The step to another point of a write keeps the invariant.                *)
LEMMA GoKeeps ==
    ASSUME IInv, NEW p \in Procs, calls[p].pc # "done", calls[p].op \in {"set", "delete"},
           NEW c, Later(p, c), c.pc \in Points(kind, calls[p].op),
           Becomes(p, c, items, place), UNCHANGED listing, trouble' \in 0 .. MaxTrouble,
           Found(kind, c, items),
           c.op = "set" /\ c.clean => Ahead(kind, c, items),
           kind = "infisical" /\ c.pc = "repost" => place # "missing",
           kind = "sops" /\ c.pc = "persist" => Tidy(kind, c.seen) /\ \A n \in held : Readable(c.seen, n),
           c.pc \in {"copy", "persist"} =>
               \A q \in Procs : q # p => calls[q].pc \notin {"copy", "persist"}
    PROVE  IInv'
<1>1. StoresTypeOK
  BY DEF IInv
<1>2. /\ Placed(kind, c) /\ ~Reads(c) /\ ~Acks(c) /\ c.pc # "done" /\ c.op \in {"set", "delete"}
      /\ HeldAfter(c, items) \subseteq held /\ c \in Operation
  BY LaterFits DEF Later
<1>3. Writes(kind, c, items, place, HeldAfter(c, items))
  BY <1>2 DEF Writes
<1>4. Proceeds(p, c, items, place)
  BY <1>2, <1>3 DEF Proceeds
<1> QED BY <1>1, <1>2, <1>4, MoveKeeps, SameListing

(* The same for a step that finds nothing to remember.                      *)
LEMMA GoesKeep ==
    ASSUME IInv, NEW p \in Procs, calls[p].pc # "done", calls[p].op \in {"set", "delete"},
           NEW pc \in Points(kind, calls[p].op) \cap WritePoints, Goes(p, pc),
           <<kind, pc>> \notin {<<"scaleway", "post">>, <<"bws", "edit">>, <<"keeper", "edit">>,
                                <<"keeper", "drop">>, <<"protonpass", "drop">>},
           calls[p].op = "set" /\ calls[p].clean =>
               /\ <<kind, pc>> \in {<<"awssm", "put">>, <<"gcsm", "version">>, <<"scaleway", "lookup">>}
                  => Mine(p) # {}
               /\ kind = "infisical" /\ pc \in {"post", "folder", "repost"} => Mine(p) = {}
               /\ <<kind, pc>> = <<"lastpass", "edit">> => \E i \in items : Mine(p) = {i},
           kind = "infisical" /\ pc = "repost" => place # "missing",
           kind = "sops" => pc # "persist",
           pc = "copy" => \A q \in Procs : q # p => calls[q].pc \notin {"copy", "persist"},
           pc # "persist"
    PROVE  IInv'
<1> DEFINE c == Moved(p, pc)
<1>1. StoresTypeOK
  BY DEF IInv
<1>2. Later(p, c) /\ c.pc = pc /\ c.id = calls[p].id
  <2>1. 0 \in Nat
    OBVIOUS
  <2> QED BY <1>1, <2>1, LaterIs
<1>3. Becomes(p, c, items, place) /\ UNCHANGED listing /\ trouble' \in 0 .. MaxTrouble
  BY <1>1 DEF Goes, Moves, StoresTypeOK, Moved
<1> HIDE DEF c
<1>4. Found(kind, c, items)
  BY <1>2 DEF Found
<1>5. c.op = "set" /\ c.clean => Ahead(kind, c, items)
  BY <1>2 DEF Later, Ahead, Mine
<1> QED BY <1>2, <1>3, <1>4, <1>5, GoKeeps

(* An entry of the name has been found.                                     *)
LEMMA FixesKeep ==
    ASSUME IInv, NEW p \in Procs, calls[p].pc # "done", calls[p].op \in {"set", "delete"},
           NEW i \in Mine(p), NEW pc \in Points(kind, calls[p].op) \cap {"post", "edit", "drop"},
           Fixes(p, i, pc), kind \notin {"infisical", "lastpass", "sops"}
    PROVE  IInv'
<1> DEFINE c == Fixed(p, pc, i.id)
<1>1. StoresTypeOK /\ Numbered(items)
  BY DEF IInv, StoreFits, Tidy
<1>2. i \in items /\ i.name = calls[p].name /\ i.id \in Nat
  BY <1>1, AdaptersAssumption DEF Mine, Of, StoresTypeOK, Item
<1>3. Later(p, c) /\ c.pc = pc /\ c.id = i.id
  <2>1. pc \in WritePoints
    BY DEF WritePoints
  <2> QED BY <1>1, <1>2, <2>1, LaterIs
<1>4. Becomes(p, c, items, place) /\ UNCHANGED listing /\ trouble' \in 0 .. MaxTrouble
  BY <1>1 DEF Fixes, Moves, StoresTypeOK, Fixed
<1> HIDE DEF c
<1>5. Found(kind, c, items)
  BY <1>1, <1>2, <1>3 DEF Found, By, Numbered, Later
<1>6. Ahead(kind, c, items)
  BY <1>2, <1>3 DEF Ahead, By, Of, Later
<1> QED BY <1>3, <1>4, <1>5, <1>6, GoKeeps

(* The store of a fitting state is in order.                                *)
LEMMA StoreIs ==
    ASSUME IInv
    PROVE  /\ items \subseteq Item /\ IsFiniteSet(items) /\ Numbered(items) /\ Tidy(kind, items)
           /\ \A p \in Procs : calls[p] \in Operation
BY DEF IInv, StoreFits, StoresTypeOK, Tidy

(* A write that overwrites or makes the entry of its name.                  *)
LEMMA PutsKeep ==
    ASSUME IInv, NEW p \in Procs, calls[p].pc # "done", calls[p].op = "set", Finishes(p, Stored(items, calls[p].name, calls[p].value)),
           Room(items) \/ \E i \in Of(items, calls[p].name) : i.rank = 1,
           kind # "sops", place # "missing"
    PROVE  IInv'
<1> DEFINE its == Stored(items, calls[p].name, calls[p].value)
<1>1. calls[p].value \in Values /\ calls[p].name \in EntryNames
  BY SetIsReal
<1>2. /\ its \subseteq Item /\ IsFiniteSet(its) /\ Numbered(its) /\ (Flat(items) => Flat(its))
      /\ \A m \in EntryNames : Readable(items, m) => Readable(its, m)
      /\ \A j \in its : (\E i \in items : i.id = j.id /\ i.name = j.name) \/ j.id \in Fresh(items)
      /\ \E i \in Of(its, calls[p].name) : i.rank = 1 /\ i.value \in {calls[p].value, "hidden"}
  BY <1>1, StoreIs, StoredNew
<1> HIDE DEF its
<1>3. Tidy(kind, its) /\ Known(its)
  BY <1>2, StoreIs DEF Tidy, Known
<1> QED BY <1>2, <1>3, FinishKeeps DEF its

(* A write that makes the entry of a name that has none.                    *)
LEMMA AddsKeep ==
    ASSUME IInv, NEW p \in Procs, calls[p].pc # "done", calls[p].op = "set",
           Finishes(p, Added(items, calls[p].name, calls[p].value)), Room(items),
           kind # "sops", place # "missing"
    PROVE  IInv'
<1> DEFINE its == Added(items, calls[p].name, calls[p].value)
<1>1. calls[p].value \in Values \cup Marks /\ calls[p].name \in EntryNames
  BY SetIsReal
<1>2. /\ its \subseteq Item /\ IsFiniteSet(its) /\ Numbered(its) /\ (Flat(items) => Flat(its))
      /\ \A m \in EntryNames : Readable(items, m) => Readable(its, m)
      /\ \E i \in its :
           /\ its = items \cup {i} /\ i.id \in Fresh(items)
           /\ i.value = calls[p].value /\ Of(its, calls[p].name) = Of(items, calls[p].name) \cup {i}
  BY <1>1, StoreIs, AddedIs
<1> HIDE DEF its
<1>3. Tidy(kind, its) /\ Known(its)
  BY <1>2, StoreIs DEF Tidy, Known
<1>4. \E i \in Of(its, calls[p].name) : i.value \in {calls[p].value, "hidden"}
  BY <1>2
<1> QED BY <1>2, <1>3, <1>4, FinishKeeps DEF its

(* A write that overwrites the entry it has found.                          *)
LEMMA ChangesKeep ==
    ASSUME IInv, NEW p \in Procs, calls[p].op = "set", Changes(p),
           <<kind, calls[p].pc>> \in {<<"scaleway", "post">>, <<"bws", "edit">>, <<"keeper", "edit">>}
    PROVE  IInv'
<1>1. CASE Errs(p)
  BY <1>1, ErrsKeep
<1>2. ASSUME NEW i \in By(items, calls[p].id), Finishes(p, Edited(items, i, calls[p].value)) PROVE IInv'
  <2> DEFINE its == Edited(items, i, calls[p].value)
  <2>1. calls[p].pc # "done" /\ kind # "sops" /\ place # "missing"
    BY DEF IInv, StoreFits
  <2>2. calls[p].value \in Values /\ i \in items /\ i.name = calls[p].name
    <3>1. Found(kind, calls[p], items)
      BY DEF IInv, CallFits
    <3> QED BY <2>1, <3>1, SetIsReal DEF Found, By
  <2>3. /\ its \subseteq Item /\ IsFiniteSet(its) /\ Numbered(its) /\ (Flat(items) => Flat(its))
        /\ \A m \in EntryNames : Readable(items, m) => Readable(its, m)
        /\ \A j \in its : \E x \in items : x.id = j.id /\ x.name = j.name
        /\ \E x \in Of(its, calls[p].name) : x.value \in {calls[p].value, "hidden"}
    BY <2>2, StoreIs, EditedIs
  <2>4. Finishes(p, its)
    BY <1>2
  <2> HIDE DEF its
  <2>5. Tidy(kind, its) /\ Known(its)
    BY <2>1, <2>3, StoreIs DEF Tidy, Known
  <2> QED BY <2>1, <2>3, <2>4, <2>5, FinishKeeps
<1> QED BY <1>1, <1>2 DEF Changes
-----------------------------------------------------------------------------
(* The writes, provider by provider.                                        *)
LEMMA PointIs ==
    ASSUME IInv, NEW p \in Procs, calls[p].pc # "done"
    PROVE  /\ calls[p].pc \in Points(kind, calls[p].op) /\ calls[p].op \in {"get", "batch", "set", "delete"}
           /\ calls[p].out = "none" /\ ~calls[p].failed
           /\ calls[p].pc \in WritePoints => calls[p].op \in {"set", "delete"}
           /\ calls[p].pc \in WritePoints \ {"look", "remove", "drop"} => calls[p].op = "set"
           /\ kind # "keeper" /\ calls[p].pc \in {"look", "drop"} => calls[p].op = "set"
           /\ kind = "keeper" /\ calls[p].pc = "drop" => calls[p].op = "delete"
           /\ calls[p].pc = "remove" => calls[p].op = "delete"
<1>1. /\ calls[p].pc \in Points(kind, calls[p].op) /\ calls[p].out = "none" /\ ~calls[p].failed
      /\ calls[p] \in Operation
  BY DEF IInv, CallFits, Placed, StoresTypeOK
<1> DEFINE pc == calls[p].pc
           op == calls[p].op
<1>2. op \in {"none", "get", "batch", "set", "delete"} /\ pc \in Points(kind, op)
  BY <1>1 DEF Operation
<1> HIDE DEF pc, op
<1>3. op # "none"
  BY <1>2 DEF Points
<1>4. pc \in WritePoints => op \in {"set", "delete"}
  BY <1>2 DEF Points, WritePoints
<1>5. pc \in WritePoints \ {"look", "remove", "drop"} => op = "set"
  BY <1>2, <1>4 DEF Points, WritePoints
<1>6. /\ kind # "keeper" /\ pc \in {"look", "drop"} => op = "set"
      /\ kind = "keeper" /\ pc = "drop" => op = "delete"
      /\ pc = "remove" => op = "delete"
  BY <1>2 DEF Points
<1> QED BY <1>1, <1>2, <1>3, <1>4, <1>5, <1>6 DEF pc, op

(* Where there are entries there is a folder or a file.                     *)
LEMMA PlaceIs ==
    ASSUME IInv, kind \notin {"infisical", "sops"} \/ items # {} PROVE place # "missing"
BY DEF IInv, StoreFits

(* A store without ranks has its entries at the first.                      *)
LEMMA FlatIs ==
    ASSUME IInv, NEW p \in Procs, kind \notin Ranked, Mine(p) # {}
    PROVE  \E i \in Of(items, calls[p].name) : i.rank = 1
BY DEF IInv, StoreFits, Tidy, Flat, Mine, Of

LEMMA PutKeeps ==
    ASSUME IInv, NEW p \in Procs, calls[p].pc # "done", calls[p].op = "set", Puts(p),
           kind \notin {"sops", "dashlane", "infisical"}
    PROVE  IInv'
<1>1. Room(items) \/ \E i \in Of(items, calls[p].name) : i.rank = 1
  BY FlatIs DEF Puts, Ranked
<1> QED BY <1>1, PlaceIs, PutsKeep DEF Puts

LEMMA AddKeeps ==
    ASSUME IInv, NEW p \in Procs, calls[p].pc # "done", calls[p].op = "set", Adds(p),
           kind \notin {"sops", "dashlane", "infisical"}
    PROVE  IInv'
BY PlaceIs, AddsKeep DEF Adds

(* The providers that write with one overwriting call.                      *)
LEMMA OverwritesKeep ==
    ASSUME IInv, NEW p \in Procs,
           PutParameter(p) \/ SetSecret(p) \/ SetPassword(p) \/ InsertEntry(p) \/ InsertMultiline(p)
    PROVE  IInv'
<1>1. kind \in {"awsps", "akv", "keyring", "pass", "gopass"} /\ calls[p].pc = "put" /\ Puts(p)
  BY DEF PutParameter, SetSecret, SetPassword, InsertEntry, InsertMultiline, At
<1>2. calls[p].op = "set"
  BY <1>1, PointIs DEF WritePoints
<1> QED BY <1>1, <1>2, PutKeeps

LEMMA RemovalKeeps ==
    ASSUME IInv, NEW p \in Procs, calls[p].pc # "done", calls[p].op = "delete",
           kind \notin {"sops", "infisical"}, NEW gone, Finishes(p, items \ gone),
           \A i \in gone : i.name = calls[p].name
    PROVE  IInv'
<1>1. items \ gone \subseteq Item /\ Tidy(kind, items \ gone)
      /\ \A m : (\A i \in gone : i.name # m) => Of(items \ gone, m) = Of(items, m)
  BY StoreIs, LessIs
<1>2. Known(items \ gone)
  BY DEF Known
<1>3. \A n \in EntryNames : Readable(items, n) => Readable(items \ gone, n) \/ n = calls[p].name
  BY <1>1 DEF Readable
<1> QED BY <1>1, <1>2, <1>3, PlaceIs, FinishKeeps

(* The providers that delete with one call.                                 *)
LEMMA RemovesKeep ==
    ASSUME IInv, NEW p \in Procs, DeletePassword(p) \/ RemoveEntry(p) \/ RemoveMultiline(p)
    PROVE  IInv'
<1>1. kind \in {"keyring", "pass", "gopass"} /\ calls[p].pc = "remove" /\ Finishes(p, items \ Mine(p))
  BY DEF DeletePassword, RemoveEntry, RemoveMultiline, At
<1>2. calls[p].op = "delete"
  BY <1>1, PointIs
<1>3. \A i \in Mine(p) : i.name = calls[p].name
  BY DEF Mine, Of
<1> QED BY <1>1, <1>2, <1>3, RemovalKeeps

(* `set` of awssm: CreateSecret, then PutSecretValue if it exists.          *)
LEMMA AwsKeeps ==
    ASSUME IInv, NEW p \in Procs, CreateSecret(p) \/ PutSecretValue(p)
    PROVE  IInv'
<1>1. kind = "awssm" /\ calls[p].pc \in {"create", "put"}
  BY DEF CreateSecret, PutSecretValue, At
<1>2. calls[p].op = "set"
  BY <1>1, PointIs DEF WritePoints
<1>3. CASE Adds(p)
  BY <1>1, <1>2, <1>3, AddKeeps
<1>4. CASE Puts(p)
  BY <1>1, <1>2, <1>4, PutKeeps
<1>5. CASE Errs(p)
  BY <1>5, ErrsKeep
<1>6. CASE Mine(p) # {} /\ Goes(p, "put")
  <2>1. "put" \in Points(kind, calls[p].op) \cap WritePoints
    BY <1>1, <1>2 DEF Points, WritePoints
  <2> QED BY <1>1, <1>2, <1>6, <2>1, GoesKeep
<1> QED BY <1>3, <1>4, <1>5, <1>6 DEF CreateSecret, PutSecretValue

(* A container without a version, for which the write goes on.              *)
LEMMA ContainerKeeps ==
    ASSUME IInv, NEW p \in Procs, calls[p].pc # "done", calls[p].op = "set", Room(items),
           NEW c, Later(p, c), c.pc \in Points(kind, "set"), <<kind, c.pc>> \in {<<"gcsm", "version">>, <<"scaleway", "post">>},
           NEW i \in Added(items, calls[p].name, "empty"),
           Added(items, calls[p].name, "empty") = items \cup {i}, i.name = calls[p].name,
           kind = "scaleway" => c.id = i.id /\ i \notin items,
           Effects(p, c, Added(items, calls[p].name, "empty"), place)
    PROVE  IInv'
<1> DEFINE its == Added(items, calls[p].name, "empty")
<1>1. calls[p].name \in EntryNames /\ "empty" \in Values \cup Marks
  BY SetIsReal DEF Marks
<1>2. /\ its \subseteq Item /\ IsFiniteSet(its) /\ Numbered(its) /\ (Flat(items) => Flat(its))
      /\ \A m \in EntryNames : Readable(items, m) => Readable(its, m)
      /\ \E x \in its : its = items \cup {x} /\ x.id \in Fresh(items)
  BY <1>1, StoreIs, AddedIs
<1>3. its = items \cup {i} /\ i \in its
  OBVIOUS
<1>4. Effects(p, c, its, place)
  OBVIOUS
<1> HIDE DEF its
<1>5. kind # "sops" /\ Tidy(kind, its) /\ Known(its)
  BY <1>2, StoreIs DEF Tidy, Known
<1>6. place # "missing" /\ place \in {"ready", "missing", "plain"} /\ StoreFits /\ StoresTypeOK
  BY PlaceIs DEF IInv, StoresTypeOK
<1>7. ASSUME NEW e, ~Acks(e) PROVE Proper(e, its, place)
  <2>1. HeldAfter(e, its) \subseteq held
    BY <1>7, HeldOnly
  <2>2. kind # "protonpass" => \A n \in HeldAfter(e, its) : Readable(its, n)
    BY <1>2, <1>6, <2>1 DEF StoreFits, StoresTypeOK
  <2> QED BY <1>2, <1>5, <1>6, <1>7, <2>2 DEF Proper
<1>8. Placed(kind, c) /\ ~Reads(c) /\ ~Acks(c) /\ c.pc # "done" /\ c.op \in {"set", "delete"} /\ c \in Operation
  BY LaterFits DEF Later
<1>9. ~Acks(Broken(p))
  BY <1>6, EndedIs DEF Acks
<1>10. Found(kind, c, its)
  BY <1>2, <1>3 DEF Found, By, Numbered, Later
<1>11. Ahead(kind, c, its)
  BY <1>3 DEF Ahead, Of, By, Later
<1>12. Writes(kind, c, its, place, HeldAfter(c, its))
  BY <1>5, <1>11 DEF Writes
<1>13. Proceeds(p, c, its, place)
  BY <1>8, <1>10, <1>12 DEF Proceeds
<1> QED BY <1>4, <1>5, <1>7, <1>8, <1>9, <1>13, EffectKeeps

(* `set` of gcsm: the container, then a version of it.                      *)
LEMMA GoogleKeeps ==
    ASSUME IInv, NEW p \in Procs, CreateContainer(p) \/ AddVersion(p)
    PROVE  IInv'
<1>1. kind = "gcsm" /\ calls[p].pc \in {"create", "version"}
  BY DEF CreateContainer, AddVersion, At
<1>2. calls[p].op = "set" /\ calls[p].pc # "done"
  BY <1>1, PointIs DEF WritePoints
<1>3. "version" \in Points(kind, calls[p].op) \cap WritePoints
  BY <1>1, <1>2 DEF Points, WritePoints
<1>4. CASE Mine(p) # {} /\ Goes(p, "version")
  BY <1>1, <1>2, <1>3, <1>4, GoesKeep
<1>5. CASE /\ Mine(p) = {} /\ Room(items)
           /\ Effects(p, [calls[p] EXCEPT !.pc = "version"], Added(items, calls[p].name, "empty"), place)
  <2> DEFINE c == Moved(p, "version")
  <2>1. Later(p, c) /\ c.pc = "version"
    <3>1. 0 \in Nat /\ StoresTypeOK
      BY DEF IInv
    <3> QED BY <1>3, <3>1, LaterIs
  <2>2. Effects(p, c, Added(items, calls[p].name, "empty"), place)
    BY <1>5 DEF Moved
  <2>3. calls[p].name \in EntryNames /\ "empty" \in Values \cup Marks
    BY <1>2, SetIsReal DEF Marks
  <2>4. PICK i \in Added(items, calls[p].name, "empty") :
            Added(items, calls[p].name, "empty") = items \cup {i} /\ i.name = calls[p].name
    BY <1>5, <2>3, StoreIs, AddedIs
  <2> HIDE DEF c
  <2> QED BY <1>1, <1>2, <1>3, <1>5, <2>1, <2>2, <2>4, ContainerKeeps
<1>6. CASE Errs(p)
  BY <1>6, ErrsKeep
<1>7. CASE Puts(p)
  BY <1>1, <1>2, <1>7, PutKeeps
<1> QED BY <1>4, <1>5, <1>6, <1>7 DEF CreateContainer, AddVersion

(* `set` of scaleway: the container, its identity, then a version.          *)
LEMMA ScalewayKeeps ==
    ASSUME IInv, NEW p \in Procs, EnsureSecret(p) \/ LookupSecretId(p) \/ PostVersion(p)
    PROVE  IInv'
<1>1. kind = "scaleway" /\ calls[p].pc \in {"create", "lookup", "post"}
  BY DEF EnsureSecret, LookupSecretId, PostVersion, At
<1>2. calls[p].op = "set" /\ calls[p].pc # "done"
  BY <1>1, PointIs DEF WritePoints
<1>3. {"lookup", "post"} \subseteq Points(kind, calls[p].op) \cap WritePoints
  BY <1>1, <1>2 DEF Points, WritePoints
<1>4. CASE Mine(p) # {} /\ Goes(p, "lookup")
  BY <1>1, <1>2, <1>3, <1>4, GoesKeep
<1>5. CASE /\ Mine(p) = {} /\ Room(items)
           /\ LET its == Added(items, calls[p].name, "empty")
              IN Effects(p, [calls[p] EXCEPT !.pc = "post", !.id = (CHOOSE i \in its \ items : TRUE).id],
                         its, place)
  <2> DEFINE its == Added(items, calls[p].name, "empty")
             d == (CHOOSE i \in its \ items : TRUE).id
             c == Fixed(p, "post", d)
  <2>2. Effects(p, c, its, place)
    BY <1>5 DEF Fixed
  <2>3. calls[p].name \in EntryNames /\ "empty" \in Values \cup Marks
    BY <1>2, SetIsReal DEF Marks
  <2>4. PICK i \in its : its = items \cup {i} /\ i.name = calls[p].name /\ i \notin items
    BY <1>5, <2>3, StoreIs, AddedIs
  <2>7. its \subseteq Item
    BY <1>5, <2>3, StoreIs, AddedIs
  <2>5. d = i.id
    <3>1. its \ items = {i}
      BY <2>4
    <3> HIDE DEF its
    <3> QED BY <3>1
  <2>6. d \in Nat
    BY <2>4, <2>5, <2>7, AdaptersAssumption DEF Item
  <2> HIDE DEF d
  <2>1. Later(p, c) /\ c.pc = "post" /\ c.id = d
    <3>1. StoresTypeOK
      BY DEF IInv
    <3> QED BY <1>3, <2>6, <3>1, LaterIs
  <2> HIDE DEF c
  <2> QED BY <1>1, <1>2, <1>3, <1>5, <2>1, <2>2, <2>4, <2>5, ContainerKeeps
<1>6. CASE Errs(p)
  BY <1>6, ErrsKeep
<1>7. ASSUME NEW i \in Mine(p), Fixes(p, i, "post") PROVE IInv'
  <2>1. "post" \in Points(kind, calls[p].op) \cap {"post", "edit", "drop"}
    BY <1>3
  <2> QED BY <1>1, <1>2, <1>7, <2>1, FixesKeep
<1>8. CASE calls[p].pc = "post" /\ Changes(p)
  BY <1>1, <1>2, <1>8, ChangesKeep
<1>9. CASE EnsureSecret(p)
  BY <1>4, <1>5, <1>9 DEF EnsureSecret
<1>10. CASE LookupSecretId(p)
  BY <1>6, <1>7, <1>10 DEF LookupSecretId
<1>11. CASE PostVersion(p)
  BY <1>8, <1>11 DEF PostVersion, At
<1> QED BY <1>9, <1>10, <1>11

(* Infisical.                                                               *)
LEMMA FolderKeeps ==
    ASSUME IInv, NEW p \in Procs, calls[p].pc # "done", calls[p].op = "set", kind = "infisical",
           place = "missing", NEW c, Later(p, c), c.pc = "repost",
           Effects(p, c, items, "ready")
    PROVE  IInv'
<1>1. items = {} /\ StoreFits /\ StoresTypeOK
  BY DEF IInv, StoreFits
<1>2. c.pc \in Points(kind, calls[p].op)
  BY DEF Points
<1>3. Placed(kind, c) /\ ~Reads(c) /\ ~Acks(c) /\ c.pc # "done" /\ c.op \in {"set", "delete"} /\ c \in Operation
  BY <1>2, LaterFits DEF Later
<1>4. ASSUME NEW e, ~Acks(e) PROVE Proper(e, items, "ready")
  <2>1. HeldAfter(e, items) \subseteq held
    BY <1>4, HeldOnly
  <2> QED BY <1>1, <1>4, <2>1, KnownItems, StoreIs DEF Proper, StoreFits, StoresTypeOK
<1>5. ~Acks(Broken(p))
  BY <1>1, EndedIs DEF Acks
<1>6. Found(kind, c, items)
  BY DEF Found
<1>7. Ahead(kind, c, items)
  BY <1>1 DEF Ahead, Of
<1>8. Writes(kind, c, items, "ready", HeldAfter(c, items))
  BY <1>7 DEF Writes
<1>9. Proceeds(p, c, items, "ready")
  BY <1>3, <1>6, <1>8 DEF Proceeds
<1> QED BY <1>3, <1>4, <1>5, <1>9, EffectKeeps

(* `set` of infisical: PATCH, POST, the folder, POST again.                 *)
LEMMA InfisicalKeeps ==
    ASSUME IInv, NEW p \in Procs, PatchSecret(p) \/ PostSecret(p) \/ CreateFolder(p)
    PROVE  IInv'
<1>1. kind = "infisical" /\ calls[p].pc \in {"patch", "post", "repost", "folder"}
  BY DEF PatchSecret, PostSecret, CreateFolder, At
<1>2. calls[p].op = "set" /\ calls[p].pc # "done"
  BY <1>1, PointIs DEF WritePoints
<1>3. {"post", "folder", "repost"} \subseteq Points(kind, calls[p].op) \cap WritePoints
  BY <1>1, <1>2 DEF Points, WritePoints
<1>w. Writes(kind, calls[p], items, place, held) /\ (place = "missing" => items = {})
  BY DEF IInv, CallFits, StoreFits
<1>4. CASE Errs(p)
  BY <1>4, ErrsKeep
<1>5. CASE Mine(p) = {} /\ Goes(p, "post")
  BY <1>1, <1>2, <1>3, <1>5, GoesKeep
<1>6. CASE Mine(p) # {} /\ Written200(p, Stored(items, calls[p].name, calls[p].value))
  <2>1. place # "missing"
    BY <1>6, <1>w DEF Mine, Of
  <2>2. \E i \in Of(items, calls[p].name) : i.rank = 1
    BY <1>1, <1>6, FlatIs DEF Ranked
  <2> QED BY <1>1, <1>2, <1>4, <1>6, <2>1, <2>2, PutsKeep DEF Written200
<1>7. CASE place = "missing" /\ calls[p].pc = "post" /\ Goes(p, "folder")
  <2>1. Mine(p) = {}
    BY <1>7, <1>w DEF Mine, Of
  <2> QED BY <1>1, <1>2, <1>3, <2>1, <1>7, GoesKeep
<1>8. CASE /\ place # "missing" /\ Mine(p) = {} /\ Room(items)
           /\ Written200(p, Added(items, calls[p].name, calls[p].value))
  BY <1>1, <1>2, <1>4, <1>8, AddsKeep DEF Written200
<1>9. CASE place # "missing" /\ calls[p].pc = "folder" /\ Goes(p, "repost")
  <2>1. calls[p].clean => Mine(p) = {}
    BY <1>1, <1>2, <1>9, <1>w DEF Writes, Ahead, Mine
  <2> QED BY <1>1, <1>2, <1>3, <2>1, <1>9, GoesKeep
<1>10. CASE place = "missing" /\ Effects(p, [calls[p] EXCEPT !.pc = "repost"], items, "ready")
  <2> DEFINE c == Moved(p, "repost")
  <2>1. Later(p, c) /\ c.pc = "repost"
    <3>1. 0 \in Nat /\ StoresTypeOK
      BY DEF IInv
    <3> QED BY <1>3, <3>1, LaterIs
  <2>2. Effects(p, c, items, "ready")
    BY <1>10 DEF Moved
  <2> HIDE DEF c
  <2> QED BY <1>1, <1>2, <1>10, <2>1, <2>2, FolderKeeps
<1>11. CASE PatchSecret(p)
  BY <1>5, <1>6, <1>11 DEF PatchSecret
<1>12. CASE PostSecret(p)
  BY <1>1, <1>4, <1>7, <1>8, <1>12 DEF PostSecret
<1>13. CASE CreateFolder(p)
  BY <1>9, <1>10, <1>13 DEF CreateFolder, At
<1> QED BY <1>11, <1>12, <1>13
(* `set` of bws: a fresh listing, then edit or create.                      *)
LEMMA BitwardenKeeps ==
    ASSUME IInv, NEW p \in Procs, ListFresh(p) \/ BwsEdit(p) \/ BwsCreate(p)
    PROVE  IInv'
<1>1. kind = "bws" /\ calls[p].pc \in {"look", "edit", "add"}
  BY DEF ListFresh, BwsEdit, BwsCreate, At
<1>2. calls[p].op = "set" /\ calls[p].pc # "done"
  BY <1>1, PointIs DEF WritePoints
<1>3. {"edit", "add"} \subseteq Points(kind, calls[p].op) \cap WritePoints
  BY <1>1, <1>2 DEF Points, WritePoints
<1>4. CASE Mine(p) = {} /\ Goes(p, "add")
  BY <1>1, <1>2, <1>3, <1>4, GoesKeep
<1>5. ASSUME NEW i \in Mine(p), Fixes(p, i, "edit") PROVE IInv'
  <2>1. "edit" \in Points(kind, calls[p].op) \cap {"post", "edit", "drop"}
    BY <1>3
  <2> QED BY <1>1, <1>2, <1>5, <2>1, FixesKeep
<1>6. CASE BwsEdit(p)
  BY <1>1, <1>2, <1>6, ChangesKeep DEF BwsEdit, At
<1>7. CASE Adds(p)
  BY <1>1, <1>2, <1>7, AddKeeps
<1>8. CASE ListFresh(p)
  BY <1>4, <1>5, <1>8 DEF ListFresh
<1> QED BY <1>6, <1>7, <1>8 DEF BwsCreate

(* `set` and `delete` of keeper: the record is looked up first.             *)
LEMMA KeeperKeeps ==
    ASSUME IInv, NEW p \in Procs,
           LookUpRecord(p) \/ UpdateRecord(p) \/ CreateRecord(p) \/ DropRecord(p)
    PROVE  IInv'
<1>1. kind = "keeper" /\ calls[p].pc \in {"look", "edit", "add", "drop"} /\ calls[p].pc # "done"
  BY DEF LookUpRecord, UpdateRecord, CreateRecord, DropRecord, At
<1>2. /\ calls[p].op \in {"set", "delete"}
      /\ calls[p].pc \in {"edit", "add"} => calls[p].op = "set"
      /\ calls[p].pc = "drop" => calls[p].op = "delete"
  BY <1>1, PointIs DEF WritePoints
<1>3. CASE Errs(p)
  BY <1>3, ErrsKeep
<1>4. CASE calls[p].op = "delete" /\ Moves(p, Ended(p, "ok"))
  <2>1. StoresTypeOK
    BY DEF IInv
  <2>2. LET c == Ended(p, "ok") IN c \in Operation /\ c.pc = "done" /\ c.op = "delete"
    BY <1>4, <2>1, EndedIs
  <2>3. Becomes(p, Ended(p, "ok"), items, place) /\ UNCHANGED listing /\ trouble' \in 0 .. MaxTrouble
    BY <1>4, <2>1 DEF Moves, StoresTypeOK
  <2> DEFINE c == Ended(p, "ok")
  <2> HIDE DEF c
  <2>4. c \in Operation /\ c.pc = "done" /\ ~Reads(c) /\ ~Acks(c) /\ Becomes(p, c, items, place)
    BY <2>2, <2>3 DEF Reads, Acks, c
  <2>5. Proceeds(p, c, items, place)
    BY <2>4 DEF Proceeds
  <2> QED BY <2>1, <2>3, <2>4, <2>5, MoveKeeps, SameListing
<1>5. CASE calls[p].op = "set" /\ Goes(p, "add")
  <2>1. "add" \in Points(kind, calls[p].op) \cap WritePoints
    BY <1>1, <1>5 DEF Points, WritePoints
  <2> QED BY <1>1, <1>5, <2>1, GoesKeep
<1>6. ASSUME NEW i \in Mine(p), Fixes(p, i, IF calls[p].op = "delete" THEN "drop" ELSE "edit") PROVE IInv'
  <2> DEFINE pc == IF calls[p].op = "delete" THEN "drop" ELSE "edit"
  <2>1. pc \in Points(kind, calls[p].op) \cap {"post", "edit", "drop"}
    BY <1>1, <1>2 DEF Points
  <2>2. Fixes(p, i, pc)
    BY <1>6
  <2> HIDE DEF pc
  <2> QED BY <1>1, <1>2, <2>1, <2>2, FixesKeep
<1>7. CASE UpdateRecord(p)
  BY <1>1, <1>2, <1>7, ChangesKeep DEF UpdateRecord, At
<1>8. CASE CreateRecord(p)
  BY <1>1, <1>2, <1>8, AddKeeps DEF CreateRecord, At
<1>9. CASE calls[p].pc = "drop" /\ Finishes(p, items \ By(items, calls[p].id))
  <2>1. \A i \in By(items, calls[p].id) : i.name = calls[p].name
    BY <1>1, <1>9 DEF IInv, CallFits, Found
  <2> QED BY <1>1, <1>2, <1>9, <2>1, RemovalKeeps
<1>10. CASE LookUpRecord(p)
  BY <1>2, <1>3, <1>4, <1>5, <1>6, <1>10 DEF LookUpRecord
<1>11. CASE DropRecord(p)
  BY <1>3, <1>9, <1>11 DEF DropRecord, At
<1> QED BY <1>7, <1>8, <1>10, <1>11

(* Proton Pass.                                                             *)
LEMMA NoteKeeps ==
    ASSUME IInv, NEW p \in Procs, calls[p].pc # "done", calls[p].op = "set", kind = "protonpass",
           NEW c, Later(p, c), c.pc = "add", NEW gone,
           Effects(p, c, items \ gone, place)
    PROVE  IInv'
<1> DEFINE its == items \ gone
<1>1. its \subseteq Item /\ Tidy(kind, its)
  BY StoreIs, LessIs
<1>2. Known(its)
  BY DEF Known
<1>3. Effects(p, c, its, place)
  OBVIOUS
<1> HIDE DEF its
<1>4. place # "missing" /\ place \in {"ready", "missing", "plain"} /\ StoresTypeOK
  BY PlaceIs DEF IInv, StoresTypeOK
<1>5. ASSUME NEW e, ~Acks(e) PROVE Proper(e, its, place)
  BY <1>1, <1>2, <1>4, <1>5 DEF Proper
<1>6. c.pc \in Points(kind, calls[p].op)
  BY DEF Points
<1>7. Placed(kind, c) /\ ~Reads(c) /\ ~Acks(c) /\ c.pc # "done" /\ c \in Operation
  BY <1>6, LaterFits DEF Later
<1>8. ~Acks(Broken(p))
  BY <1>4, EndedIs DEF Acks
<1>9. Found(kind, c, its) /\ Ahead(kind, c, its)
  BY DEF Found, Ahead
<1>10. Proceeds(p, c, its, place)
  BY <1>7, <1>9 DEF Proceeds, Writes
<1> QED BY <1>3, <1>5, <1>7, <1>8, <1>10, EffectKeeps

(* `set` of protonpass: the old note is deleted and a new one is made.      *)
LEMMA ProtonKeeps ==
    ASSUME IInv, NEW p \in Procs, LookUpTitle(p) \/ DeleteNote(p) \/ CreateNote(p)
    PROVE  IInv'
<1>1. kind = "protonpass" /\ calls[p].pc \in {"look", "drop", "add"} /\ calls[p].pc # "done"
  BY DEF LookUpTitle, DeleteNote, CreateNote, At
<1>2. calls[p].op = "set"
  BY <1>1, PointIs DEF WritePoints
<1>3. {"add", "drop"} \subseteq Points(kind, calls[p].op) \cap WritePoints
  BY <1>1, <1>2 DEF Points, WritePoints
<1>m. LET c == Moved(p, "add") IN Later(p, c) /\ c.pc = "add"
  <2>1. 0 \in Nat /\ StoresTypeOK
    BY DEF IInv
  <2> QED BY <1>3, <2>1, LaterIs
<1>4. CASE Errs(p)
  BY <1>4, ErrsKeep
<1>5. CASE Goes(p, "add")
  BY <1>1, <1>2, <1>3, <1>5, GoesKeep
<1>6. ASSUME NEW i \in Mine(p), Fixes(p, i, "drop") PROVE IInv'
  <2>1. "drop" \in Points(kind, calls[p].op) \cap {"post", "edit", "drop"}
    BY <1>3
  <2> QED BY <1>1, <1>2, <1>6, <2>1, FixesKeep
<1>7. CASE Troubled /\ Becomes(p, [calls[p] EXCEPT !.pc = "add"], items, place) /\ UNCHANGED listing
  <2> DEFINE c == Moved(p, "add")
  <2>1. Becomes(p, c, items, place) /\ UNCHANGED listing /\ trouble' \in 0 .. MaxTrouble
    BY <1>7, TroubledIs DEF Moved, IInv
  <2>2. Later(p, c) /\ c.pc = "add" /\ c.pc \in Points(kind, calls[p].op)
    BY <1>3, <1>m
  <2> HIDE DEF c
  <2>3. Found(kind, c, items) /\ Ahead(kind, c, items)
    BY <1>1, <2>2 DEF Found, Ahead
  <2> QED BY <1>1, <1>2, <2>1, <2>2, <2>3, GoKeeps
<1>8. CASE Effects(p, [calls[p] EXCEPT !.pc = "add"], items \ By(items, calls[p].id), place)
  <2>1. Effects(p, Moved(p, "add"), items \ By(items, calls[p].id), place)
    BY <1>8 DEF Moved
  <2> QED BY <1>1, <1>2, <1>m, <2>1, NoteKeeps
<1>9. CASE Adds(p)
  BY <1>1, <1>2, <1>9, AddKeeps
<1>10. CASE LookUpTitle(p)
  BY <1>5, <1>6, <1>7, <1>10 DEF LookUpTitle
<1>11. CASE DeleteNote(p)
  BY <1>4, <1>8, <1>11 DEF DeleteNote
<1> QED BY <1>9, <1>10, <1>11 DEF CreateNote

(* How many entries the name of a call has.                                 *)
LEMMA OneOf ==
    ASSUME IInv, NEW p \in Procs
    PROVE  /\ Cardinality(Mine(p)) \in Nat
           /\ Cardinality(Mine(p)) = 0 <=> Mine(p) = {}
           /\ Cardinality(Mine(p)) = 1 <=> \E i \in items : Mine(p) = {i}
BY StoreIs, CountOf DEF Mine

(* `set` of lastpass: `lpass show` decides between edit and add.            *)
LEMMA LastPassKeeps ==
    ASSUME IInv, NEW p \in Procs, LookUpItem(p) \/ EditItem(p) \/ AddItem(p)
    PROVE  IInv'
<1>1. kind = "lastpass" /\ calls[p].pc \in {"look", "edit", "add"} /\ calls[p].pc # "done"
  BY DEF LookUpItem, EditItem, AddItem, At
<1>2. calls[p].op = "set"
  BY <1>1, PointIs DEF WritePoints
<1>3. {"add", "edit"} \subseteq Points(kind, calls[p].op) \cap WritePoints
  BY <1>1, <1>2 DEF Points, WritePoints
<1>4. CASE Errs(p)
  BY <1>4, ErrsKeep
<1>5. CASE /\ Cardinality(Mine(p)) <= 1
           /\ Goes(p, IF \A i \in Mine(p) : Shown(i) = "nothing" THEN "add" ELSE "edit")
  <2> DEFINE pc == IF \A i \in Mine(p) : Shown(i) = "nothing" THEN "add" ELSE "edit"
  <2>1. pc \in Points(kind, calls[p].op) \cap WritePoints /\ pc \in {"add", "edit"}
    BY <1>3
  <2>2. pc = "edit" => \E i \in items : Mine(p) = {i}
    <3>1. pc = "edit" => Mine(p) # {}
      OBVIOUS
    <3> QED BY <1>5, <3>1, OneOf
  <2>3. Goes(p, pc)
    BY <1>5
  <2> HIDE DEF pc
  <2> QED BY <1>1, <1>2, <2>1, <2>2, <2>3, GoesKeep
<1>6. CASE Puts(p)
  BY <1>1, <1>2, <1>6, PutKeeps
<1>7. CASE Adds(p)
  BY <1>1, <1>2, <1>7, AddKeeps
<1> QED BY <1>4, <1>5, <1>6, <1>7 DEF LookUpItem, EditItem, AddItem

(* SOPS.                                                                    *)
Copied(p) == [calls[p] EXCEPT !.pc = "persist", !.seen = items]

(* `set` of sops: the lock, a copy that is edited, the rename.              *)
LEMMA SopsKeeps ==
    ASSUME IInv, NEW p \in Procs, LockFile(p) \/ CopyFile(p) \/ Persist(p)
    PROVE  IInv'
<1>1. kind = "sops" /\ calls[p].pc \in {"lock", "copy", "persist"} /\ calls[p].pc # "done"
  BY DEF LockFile, CopyFile, Persist, At
<1>2. calls[p].op = "set"
  BY <1>1, PointIs DEF WritePoints
<1>3. {"copy", "persist"} \subseteq Points(kind, calls[p].op) \cap WritePoints
  BY <1>1, <1>2 DEF Points, WritePoints
<1>t. StoresTypeOK /\ StoreFits /\ CallFits(p) /\ OneWriter
  BY DEF IInv
<1>4. CASE (\A q \in Procs : calls[q].pc \notin {"copy", "persist"}) /\ Goes(p, "copy")
  BY <1>1, <1>2, <1>3, <1>4, GoesKeep
<1>5. CASE CopyFile(p)
  <2> DEFINE c == Copied(p)
  <2>1. Becomes(p, c, items, place) /\ UNCHANGED listing /\ trouble' \in 0 .. MaxTrouble
    BY <1>5, <1>t DEF Copied, CopyFile, Moves, StoresTypeOK
  <2>2. Later(p, c) /\ c.pc = "persist" /\ c.seen = items
    <3>1. calls[p] \in Operation /\ items \subseteq Item
      BY <1>t DEF StoresTypeOK
    <3> DEFINE e == calls[p]
    <3> HIDE DEF e
    <3>2. LET x == [e EXCEPT !.pc = "persist", !.seen = items] IN
          /\ x \in Operation /\ x.pc = "persist" /\ x.seen = items
          /\ x.op = e.op /\ x.out = e.out /\ x.name = e.name /\ x.value = e.value
          /\ x.failed = e.failed /\ x.clean = e.clean
      BY <3>1 DEF Operation, e
    <3> QED BY <3>2 DEF Later, WritePoints, Copied, e
  <2> HIDE DEF c
  <2>3. c.pc \in Points(kind, calls[p].op)
    BY <1>3, <2>2
  <2>4. Found(kind, c, items) /\ Ahead(kind, c, items)
    BY <1>1, <2>2 DEF Found, Ahead
  <2>5. Tidy(kind, c.seen) /\ \A n \in held : Readable(c.seen, n)
    BY <1>1, <1>t, <2>2 DEF StoreFits
  <2>6. \A q \in Procs : q # p => calls[q].pc \notin {"copy", "persist"}
    BY <1>5, <1>t DEF OneWriter, CopyFile, At
  <2> QED BY <1>1, <1>2, <2>1, <2>2, <2>3, <2>4, <2>5, <2>6, GoKeeps
<1>6. CASE Persist(p)
  <2> DEFINE c == Ended(p, "ok")
             seen == calls[p].seen
             its == Stored(seen, calls[p].name, calls[p].value)
  <2>1. calls[p].value \in Values /\ calls[p].name \in EntryNames
    BY <1>1, <1>2, SetIsReal
  <2>2. /\ Room(seen) \/ \E i \in Of(seen, calls[p].name) : i.rank = 1
        /\ Becomes(p, c, its, "ready") /\ UNCHANGED listing /\ UNCHANGED trouble
        /\ calls[p].pc = "persist"
    BY <1>6 DEF Persist, At
  <2>3. Tidy(kind, seen) /\ (\A n \in held : Readable(seen, n)) /\ seen \subseteq Item
    BY <1>1, <1>t, <2>2 DEF CallFits, Writes, StoresTypeOK, Operation
  <2>4. /\ its \subseteq Item /\ IsFiniteSet(its) /\ Numbered(its) /\ (OnePath(seen) => OnePath(its))
        /\ \A m \in EntryNames : Readable(seen, m) => Readable(its, m)
        /\ \E i \in Of(its, calls[p].name) : i.rank = 1 /\ i.value \in {calls[p].value, "hidden"}
    <3> HIDE DEF seen
    <3> QED BY <2>1, <2>2, <2>3, StoredNew DEF Tidy
  <2> HIDE DEF its, seen
  <2>5. Tidy(kind, its)
    BY <1>1, <2>3, <2>4 DEF Tidy, Ranked
  <2>6. /\ c \in Operation /\ c.pc = "done" /\ c.op = "set" /\ c.name = calls[p].name
        /\ c.value = calls[p].value /\ c.out = "ok"
    BY <1>2, <1>t, EndedIs
  <2> HIDE DEF c
  <2>7. Acks(c) /\ ~Reads(c)
    BY <2>6 DEF Acks, Reads
  <2>8. HeldAfter(c, its) = held \cup {calls[p].name}
    BY <2>6, <2>7, NoCallIs DEF HeldAfter
  <2>9. Readable(its, calls[p].name) /\ Holds(kind, its, calls[p].name, calls[p].value)
    BY <1>1, <2>1, <2>4 DEF Readable, Holds
  <2>10. \A n \in HeldAfter(c, its) : Readable(its, n)
    BY <1>t, <2>3, <2>4, <2>8, <2>9 DEF StoresTypeOK
  <2>11. Proper(c, its, "ready")
    BY <1>1, <2>1, <2>4, <2>5, <2>6, <2>9, <2>10 DEF Proper
  <2>12. Proceeds(p, c, its, "ready")
    BY <2>6, <2>7 DEF Proceeds
  <2>13. trouble' \in 0 .. MaxTrouble
    BY <1>t, <2>2 DEF StoresTypeOK
  <2> QED BY <1>t, <2>2, <2>6, <2>11, <2>12, <2>13, StepKeeps, SameListing
<1> QED BY <1>4, <1>5, <1>6 DEF LockFile

(* Every step of a write keeps the invariant.                               *)
LEMMA WritingKeeps == ASSUME IInv, NEW p \in Procs, Writing(p) PROVE IInv'
BY OverwritesKeep, RemovesKeep, AwsKeeps, GoogleKeeps, ScalewayKeeps, InfisicalKeeps, BitwardenKeeps,
   KeeperKeeps, ProtonKeeps, LastPassKeeps, SopsKeeps, Zenon DEF Writing
-----------------------------------------------------------------------------
(* Reads.  What an answer of one name must be for the call to remember it.  *)
Apt(k, rd, c, n, a) ==
    /\ a \in Values \cup {"nothing", "error"}
    /\ /\ a = "nothing" /\ ~(k = "bws" /\ c.cached) /\ ~(k = "protonpass" /\ c.op = "batch")
       /\ ~(k = "dashlane" /\ ~c.clean)
       => n \in c.gaps
    /\ /\ a # "error" /\ c.expect[n] # Unknown /\ ~(k = "bws" /\ c.cached)
       /\ ~(k = "protonpass" /\ c.op = "batch" /\ a = "nothing")
       => a = rd[c.expect[n]]

(* What `Learnt` makes of a call: an error ends it, and so does the answer  *)
(* of the last name.                                                        *)
Learns(w, c, f) ==
    /\ w \in Operation
    /\ w.op = c.op /\ w.gaps = c.gaps /\ w.expect = c.expect /\ w.cached = c.cached /\ w.clean = c.clean
    /\ w.failed = c.failed /\ w.rank = c.rank /\ w.seen = c.seen
    /\ \/ w.pc = "done" /\ w.out = "error"
       \/ /\ \A n \in DOMAIN f : f[n] # "error"
          /\ w.todo = c.todo \ DOMAIN f
          /\ w.got = [n \in EntryNames |-> IF n \in DOMAIN f THEN f[n] ELSE c.got[n]]
          /\ \/ w.todo = {} /\ w.pc = "done" /\ w.out = "ok"
             \/ w.todo # {} /\ w.pc = c.pc /\ w.out = c.out

LEMMA LearntIs ==
    ASSUME NEW c \in Operation, NEW f,
           \A n \in DOMAIN f : f[n] \in Values \cup {"nothing", "error"}
    PROVE  Learns(Learnt(c, f), c, f)
<1> DEFINE left == c.todo \ DOMAIN f
           g == [n \in EntryNames |-> IF n \in DOMAIN f THEN f[n] ELSE c.got[n]]
           now == [c EXCEPT !.todo = left, !.got = g]
           w == Learnt(c, f)
<1>1. left \in SUBSET EntryNames /\ g \in [EntryNames -> Values \cup {"unasked", "nothing", "error"}]
  BY DEF Operation
<1>2. w = IF \E n \in DOMAIN f : f[n] = "error" THEN [c EXCEPT !.pc = "done", !.out = "error"]
          ELSE IF left = {} THEN [now EXCEPT !.pc = "done", !.out = "ok"]
          ELSE now
  BY Zenon DEF Learnt
<1>g. g = [n \in EntryNames |-> IF n \in DOMAIN f THEN f[n] ELSE c.got[n]] /\ left = c.todo \ DOMAIN f
  OBVIOUS
<1> HIDE DEF left, g, w
<1>3. /\ now \in Operation /\ now.todo = left /\ now.got = g /\ now.pc = c.pc /\ now.out = c.out
      /\ now.op = c.op /\ now.gaps = c.gaps /\ now.expect = c.expect /\ now.cached = c.cached
      /\ now.clean = c.clean /\ now.failed = c.failed /\ now.rank = c.rank /\ now.seen = c.seen
  BY <1>1 DEF Operation
<1> HIDE DEF now
<1>4. CASE \E n \in DOMAIN f : f[n] = "error"
  <2>1. w = [c EXCEPT !.pc = "done", !.out = "error"]
    BY <1>2, <1>4
  <2>2. /\ w \in Operation /\ w.pc = "done" /\ w.out = "error"
        /\ w.op = c.op /\ w.gaps = c.gaps /\ w.expect = c.expect /\ w.cached = c.cached
        /\ w.clean = c.clean /\ w.failed = c.failed /\ w.rank = c.rank /\ w.seen = c.seen
    BY <2>1 DEF Operation
  <2> QED BY <2>2 DEF Learns, w
<1>5. CASE ~(\E n \in DOMAIN f : f[n] = "error") /\ left = {}
  <2>1. w = [now EXCEPT !.pc = "done", !.out = "ok"]
    BY <1>2, <1>5
  <2>2. /\ w \in Operation /\ w.pc = "done" /\ w.out = "ok" /\ w.todo = left /\ w.got = g
        /\ w.op = c.op /\ w.gaps = c.gaps /\ w.expect = c.expect /\ w.cached = c.cached
        /\ w.clean = c.clean /\ w.failed = c.failed /\ w.rank = c.rank /\ w.seen = c.seen
    BY <1>3, <2>1 DEF Operation
  <2> QED BY <1>5, <1>g, <2>2 DEF Learns, w
<1>6. CASE ~(\E n \in DOMAIN f : f[n] = "error") /\ left # {}
  <2>1. w = now
    BY <1>2, <1>6
  <2> QED BY <1>3, <1>6, <1>g, <2>1 DEF Learns, w
<1> QED BY <1>4, <1>5, <1>6

(* e is w, perhaps at another point and with another rank or listing.       *)
Resembles(e, w) ==
    /\ e \in Operation /\ e.op = w.op /\ e.gaps = w.gaps /\ e.expect = w.expect /\ e.cached = w.cached
    /\ e.clean = w.clean /\ e.failed = w.failed /\ e.out = w.out /\ e.todo = w.todo /\ e.got = w.got
    /\ e.pc = "done" <=> w.pc = "done"

(* Nothing false is remembered: a missing name was missing at some time of  *)
(* the call, and a value is the stored one.                                 *)
LEMMA LearntFits ==
    ASSUME NEW k, NEW rd, NEW c \in Operation, NEW f, Reads(c), Lacks(k, c), Agrees(k, rd, c), c.pc # "done",
           c.out = "none", \A n \in DOMAIN f : n \in EntryNames /\ Apt(k, rd, c, n, f[n]),
           NEW w, Learns(w, c, f), NEW e, Resembles(e, w)
    PROVE  Lacks(k, e) /\ Agrees(k, rd, e)
<1>1. CASE w.pc = "done" /\ w.out = "error"
  BY <1>1 DEF Resembles, Lacks, Agrees
<1>2. CASE /\ \A n \in DOMAIN f : f[n] # "error"
           /\ w.todo = c.todo \ DOMAIN f
           /\ w.got = [n \in EntryNames |-> IF n \in DOMAIN f THEN f[n] ELSE c.got[n]]
           /\ \/ w.todo = {} /\ w.pc = "done" /\ w.out = "ok"
              \/ w.todo # {} /\ w.pc = c.pc /\ w.out = c.out
  <2>1. /\ e.op = c.op /\ e.gaps = c.gaps /\ e.expect = c.expect /\ e.cached = c.cached /\ e.clean = c.clean
        /\ e.got = [n \in EntryNames |-> IF n \in DOMAIN f THEN f[n] ELSE c.got[n]]
        /\ e.todo = c.todo \ DOMAIN f /\ (e.pc = "done" => e.todo = {})
    BY <1>2 DEF Resembles, Learns
  <2>2. ASSUME NEW n \in EntryNames, n \notin (IF e.pc = "done" THEN {} ELSE e.todo)
        PROVE  n \in DOMAIN f \/ n \notin c.todo
    BY <2>1, <2>2
  <2>3. Lacks(k, e)
    <3> SUFFICES ASSUME NEW n \in EntryNames \ (IF e.pc = "done" THEN {} ELSE e.todo),
                        Reads(e), e.out # "error", e.got[n] = "nothing",
                        ~(k = "bws" /\ e.cached), ~(k = "protonpass" /\ e.op = "batch"),
                        ~(k = "dashlane" /\ ~e.clean)
                 PROVE  n \in e.gaps
      BY DEF Lacks
    <3>1. CASE n \in DOMAIN f
      BY <2>1, <3>1 DEF Apt
    <3>2. CASE n \notin DOMAIN f
      <4>1. n \in EntryNames \ c.todo
        BY <2>2, <3>2
      <4> QED BY <2>1, <3>2, <4>1 DEF Lacks
    <3> QED BY <3>1, <3>2
  <2>4. Agrees(k, rd, e)
    <3> SUFFICES ASSUME NEW n \in EntryNames \ (IF e.pc = "done" THEN {} ELSE e.todo),
                        Reads(e), e.out # "error", e.got[n] # "unasked", e.expect[n] # Unknown,
                        ~(k = "bws" /\ e.cached),
                        ~(k = "protonpass" /\ e.op = "batch" /\ e.got[n] = "nothing")
                 PROVE  e.got[n] = rd[e.expect[n]]
      BY DEF Agrees
    <3>1. CASE n \in DOMAIN f
      <4>1. f[n] # "error"
        BY <1>2, <3>1
      <4> QED BY <2>1, <3>1, <4>1 DEF Apt
    <3>2. CASE n \notin DOMAIN f
      <4>1. n \in EntryNames \ c.todo
        BY <2>2, <3>2
      <4> QED BY <2>1, <3>2, <4>1 DEF Agrees
    <3> QED BY <3>1, <3>2
  <2> QED BY <2>3, <2>4
<1> QED BY <1>1, <1>2 DEF Learns

(* The step that learns.                                                    *)
LEMMA LearntKeeps ==
    ASSUME IInv, NEW p \in Procs, calls[p].pc # "done", Reads(calls[p]), NEW f,
           \A n \in DOMAIN f : n \in EntryNames /\ Apt(kind, Rendered, calls[p], n, f[n]),
           NEW e, Resembles(e, Learnt(calls[p], f)),
           e.pc # "done" =>
               /\ e.pc \in Points(kind, calls[p].op) \ WritePoints /\ kind # "bws"
               /\ kind = "dashlane" /\ e.clean => \A n \in e.todo : Blank(items, n)
               /\ kind = "protonpass" => \A i \in e.seen, j \in items : i.id = j.id => i.name = j.name,
           Becomes(p, e, items, place),
           listing' \in [Procs -> (SUBSET Item) \cup {Unlisted}],
           \A q \in Procs : q # p => listing'[q] = listing[q],
           trouble' \in 0 .. MaxTrouble
    PROVE  IInv'
<1> DEFINE c == calls[p]
           w == Learnt(c, f)
<1>1. /\ c \in Operation /\ c.out = "none" /\ ~c.failed /\ Reads(c) /\ c.pc # "done"
      /\ Lacks(kind, c) /\ Agrees(kind, Rendered, c) /\ Watches(kind, c, items, place, stored, listing[p])
  BY PointIs DEF IInv, CallFits, StoresTypeOK
<1>2. Learns(w, c, f)
  BY <1>1, LearntIs DEF Apt
<1>3. Resembles(e, w)
  OBVIOUS
<1> HIDE DEF w, c
<1>4. Lacks(kind, e) /\ Agrees(kind, Rendered, e)
  BY <1>1, <1>2, <1>3, LearntFits DEF c
<1>5. e \in Operation /\ Reads(e) /\ ~Acks(e)
  BY <1>1, <1>2, <1>3 DEF Resembles, Learns, Reads, Acks
<1>6. e.pc # "done" => /\ e.out = "none" /\ ~e.failed /\ e.op = c.op /\ e.todo # {} /\ e.todo \subseteq c.todo
                       /\ e.gaps = c.gaps /\ e.expect = c.expect
  BY <1>1, <1>2, <1>3 DEF Resembles, Learns
<1>7. ASSUME e.pc # "done"
      PROVE  /\ Placed(kind, e) /\ Found(kind, e, items) /\ Writes(kind, e, items, place, HeldAfter(e, items))
             /\ Watches(kind, e, items, place, stored, listing'[p])
  <2>1. e.pc \in Points(kind, e.op) /\ e.pc \notin WritePoints
    BY <1>6, <1>7 DEF c
  <2>2. Placed(kind, e)
    BY <1>5, <1>6, <1>7, <2>1 DEF Placed, Reads
  <2>3. Found(kind, e, items) /\ Writes(kind, e, items, place, HeldAfter(e, items))
    BY <1>5, <2>1 DEF Found, Writes, Reads, WritePoints
  <2>4. Bare(items, place) \cap e.todo \subseteq e.gaps
    BY <1>1, <1>6, <1>7 DEF Watches
  <2>5. \A n \in EntryNames : e.expect[n] # Unknown => e.expect[n] = stored[n]
    BY <1>1, <1>6, <1>7 DEF Watches
  <2>6. Watches(kind, e, items, place, stored, listing'[p])
    BY <1>6, <1>7, <2>4, <2>5 DEF Watches
  <2> QED BY <2>2, <2>3, <2>6
<1>8. Proceeds(p, e, items, place)
  BY <1>4, <1>7 DEF Proceeds
<1>9. e.pc \notin {"copy", "persist"}
  BY DEF WritePoints
<1> QED BY <1>5, <1>8, <1>9, MoveKeeps
(* An answer that is true of the store as it is.                            *)
Fair(n, a) ==
    /\ a \in Values \cup {"nothing", "error"}
    /\ a = "nothing" => n \in Bare(items, place)
    /\ a # "error" /\ stored[n] # Unknown => a = Rendered[stored[n]]

(* What an entry is shown as.                                               *)
LEMMA ShownIs ==
    ASSUME NEW i \in Item
    PROVE  /\ Shown(i) \in Values \cup {"nothing", "error"}
           /\ Shown(i) = "nothing" => i.value \in {"empty", "scheduled"}
           /\ i.value = "hidden" => Shown(i) = "error"
           /\ i.value \in Values => Shown(i) = Rendered[i.value]
<1>1. i.value \in Values \cup {"empty", "hidden", "scheduled"}
  BY DEF Item, Marks
<1>2. Values \cap {"empty", "hidden", "scheduled", "nothing", "error", "unasked"} = {}
      /\ Trimmed \in [Values -> Values] /\ FirstLine \in [Values -> Values]
  BY AdaptersAssumption
<1>3. i.value \in Values => ReadAs(i.value) \in Values
  BY <1>2 DEF ReadAs
<1>4. i.value \in Values => Rendered[i.value] = ReadAs(i.value)
  BY DEF Rendered
<1>5. CASE i.value \in Values
  <2>1. Shown(i) = ReadAs(i.value)
    BY <1>2, <1>5 DEF Shown
  <2> QED BY <1>2, <1>3, <1>4, <1>5, <2>1
<1>6. CASE i.value = "hidden"
  BY <1>2, <1>6 DEF Shown
<1>7. CASE i.value \in {"empty", "scheduled"}
  BY <1>2, <1>7 DEF Shown
<1> QED BY <1>1, <1>5, <1>6, <1>7

(* A shown entry is true of the store.                                      *)
LEMMA ShownFair ==
    ASSUME IInv, NEW n \in EntryNames, NEW i \in Of(items, n),
           kind = "sops" => i.rank = 1 \/ \A j \in Of(items, n) : j.rank # 1
    PROVE  Fair(n, Shown(i))
<1>1. i \in items /\ i \in Item /\ i.name = n /\ StoreFits
  BY StoreIs DEF IInv, Of
<1>2. Shown(i) = "nothing" => n \in Bare(items, place)
  BY <1>1, ShownIs DEF Bare
<1>3. ASSUME stored[n] # Unknown, Shown(i) # "error" PROVE Shown(i) = Rendered[stored[n]]
  <2>1. Holds(kind, items, n, stored[n]) /\ stored[n] \in Values
    BY <1>1, <1>3 DEF StoreFits, IInv, StoresTypeOK
  <2>2. i.value \in {stored[n], "hidden"}
    <3>1. CASE kind = "sops"
      <4>1. PICK j \in Of(items, n) : j.rank = 1 /\ j.value \in {stored[n], "hidden"}
        BY <2>1, <3>1 DEF Holds
      <4>2. i.rank = 1
        BY <3>1, <4>1
      <4>3. OnePath(items)
        BY <1>1, <3>1 DEF StoreFits, Tidy
      <4>4. i = j
        BY <1>1, <4>1, <4>2, <4>3 DEF OnePath, Of
      <4> QED BY <4>1, <4>4
    <3>2. CASE kind # "sops"
      BY <2>1, <3>2 DEF Holds
    <3> QED BY <3>1, <3>2
  <2> QED BY <1>1, <1>3, <2>1, <2>2, ShownIs
<1> QED BY <1>1, <1>2, <1>3, ShownIs DEF Fair

(* `None` is true of a name without an entry.                               *)
LEMMA NothingFair ==
    ASSUME IInv, NEW n \in EntryNames, place = "missing" \/ Of(items, n) = {}
    PROVE  Fair(n, "nothing")
<1>1. n \in Bare(items, place)
  BY DEF Bare
<1>2. Of(items, n) = {}
  BY DEF IInv, StoreFits, Of
<1>3. stored[n] = Unknown
  <2> SUFFICES ASSUME stored[n] # Unknown PROVE FALSE
    OBVIOUS
  <2>1. Holds(kind, items, n, stored[n])
    BY DEF IInv, StoreFits
  <2> QED BY <1>2, <2>1 DEF Holds
<1> QED BY <1>1, <1>3 DEF Fair

(* An error says nothing of the store.                                      *)
LEMMA ErrorFair == ASSUME NEW n PROVE Fair(n, "error")
BY DEF Fair

(* A direct read of the entry of a name is true of the store.               *)
LEMMA EntryFair ==
    ASSUME IInv, NEW n \in EntryNames, NEW a \in Entry[n], kind # "sops"
    PROVE  Fair(n, a)
<1>1. a \in OrNothing({Shown(i) : i \in Of(items, n)})
  BY DEF Entry
<1>2. CASE Of(items, n) = {}
  <2>1. a = "nothing"
    BY <1>1, <1>2 DEF OrNothing
  <2> QED BY <1>2, <2>1, NothingFair
<1>3. CASE Of(items, n) # {}
  <2>1. PICK i \in Of(items, n) : a = Shown(i)
    BY <1>1, <1>3 DEF OrNothing
  <2> QED BY <2>1, ShownFair
<1> QED BY <1>2, <1>3

(* An answer that is true of the store may be remembered.                   *)
LEMMA FairApt ==
    ASSUME IInv, NEW p \in Procs, calls[p].pc # "done", Reads(calls[p]),
           NEW n \in calls[p].todo, NEW a, Fair(n, a)
    PROVE  n \in EntryNames /\ Apt(kind, Rendered, calls[p], n, a)
<1>1. Watches(kind, calls[p], items, place, stored, listing[p]) /\ calls[p] \in Operation
  BY DEF IInv, CallFits, StoresTypeOK
<1>2. n \in EntryNames /\ (n \in Bare(items, place) => n \in calls[p].gaps)
      /\ (calls[p].expect[n] # Unknown => calls[p].expect[n] = stored[n])
  BY <1>1 DEF Watches, Operation
<1> QED BY <1>2 DEF Apt, Fair

(* A read of the store as it is keeps the invariant.                        *)
LEMMA AnswersKeep ==
    ASSUME IInv, NEW p \in Procs, calls[p].pc \in {"read", "view"}, kind \notin {"bws", "dashlane"},
           NEW A, NEW ns, ns \subseteq calls[p].todo, NEW f \in Answers(A, ns),
           \A n \in ns : \A a \in A[n] : Fair(n, a),
           Moves(p, Learnt(calls[p], f))
    PROVE  IInv'
<1> DEFINE e == Learnt(calls[p], f)
<1>1. DOMAIN f = ns /\ \A n \in ns : f[n] \in A[n]
  BY DEF Answers
<1>2. Reads(calls[p]) /\ calls[p].pc \in Points(kind, calls[p].op) \ WritePoints /\ calls[p].pc # "done"
  BY PointIs DEF Reads, Points, WritePoints
<1>3. \A n \in DOMAIN f : n \in EntryNames /\ Apt(kind, Rendered, calls[p], n, f[n])
  BY <1>1, <1>2, FairApt
<1>4. calls[p] \in Operation /\ StoresTypeOK
  BY DEF IInv, StoresTypeOK
<1>5. Learns(e, calls[p], f)
  BY <1>3, <1>4, LearntIs DEF Apt
<1>6. Watches(kind, calls[p], items, place, stored, listing[p])
  BY DEF IInv, CallFits
<1>m. Becomes(p, e, items, place) /\ UNCHANGED listing /\ UNCHANGED trouble
  BY DEF Moves
<1>9. e = Learnt(calls[p], f)
  OBVIOUS
<1> HIDE DEF e
<1>7. e.pc # "done" => e.pc = calls[p].pc /\ e.seen = calls[p].seen /\ e \in Operation
  BY <1>5 DEF Learns
<1>8. Resembles(e, Learnt(calls[p], f))
  BY <1>5, <1>9 DEF Resembles, Learns
<1>10. trouble' \in 0 .. MaxTrouble
  BY <1>4, <1>m DEF StoresTypeOK
<1>11. e.pc # "done" /\ kind = "protonpass" => \A i \in e.seen, j \in items : i.id = j.id => i.name = j.name
  BY <1>2, <1>6, <1>7 DEF Watches
<1>12. e.pc # "done" => e.pc \in Points(kind, calls[p].op) \ WritePoints /\ kind # "bws" /\ kind # "dashlane"
  BY <1>2, <1>7
<1> QED BY <1>2, <1>3, <1>4, <1>m, <1>8, <1>10, <1>11, <1>12, LearntKeeps, SameListing
-----------------------------------------------------------------------------
(* The reads, provider by provider.                                         *)
LEMMA EachKeeps ==
    ASSUME IInv, NEW p \in Procs, NEW k, k \notin {"bws", "dashlane"}, NEW A, ReadsEach(p, k, A),
           kind = k => \A n \in EntryNames : \A a \in A[n] : Fair(n, a)
    PROVE  IInv'
<1>1. kind = k /\ calls[p].pc = "read"
  BY DEF ReadsEach, At
<1>2. PICK n \in calls[p].todo : \E f \in Answers(A, {n}) : Moves(p, Learnt(calls[p], f))
  BY DEF ReadsEach
<1>3. PICK f \in Answers(A, {n}) : Moves(p, Learnt(calls[p], f))
  BY <1>2
<1>4. n \in EntryNames
  BY StoreIs DEF Operation
<1> QED BY <1>1, <1>3, <1>4, AnswersKeep

(* A batch that reads all its names at once.                                *)
LEMMA AllKeeps ==
    ASSUME IInv, NEW p \in Procs, NEW k, k \notin {"bws", "dashlane"}, NEW A, ReadsAll(p, k, A),
           kind = k => \A n \in EntryNames : \A a \in A[n] : Fair(n, a)
    PROVE  IInv'
<1>1. kind = k /\ calls[p].pc = "read"
  BY DEF ReadsAll, At
<1>2. PICK f \in Answers(A, calls[p].todo) : Moves(p, Learnt(calls[p], f))
  BY DEF ReadsAll
<1>3. calls[p].todo \subseteq EntryNames
  BY StoreIs DEF Operation
<1> QED BY <1>1, <1>2, <1>3, AnswersKeep

(* The providers that read the entry of a name.                             *)
LEMMA EntriesKeep ==
    ASSUME IInv, NEW p \in Procs,
           \/ GetSecretValue(p) \/ GetParameters(p) \/ GetSecret(p) \/ AccessVersion(p)
           \/ AccessRevision(p) \/ GetPassword(p) \/ ShowEntry(p) \/ ShowFirstLine(p) \/ ViewByTitle(p)
    PROVE  IInv'
<1>1. PICK k \in {"awssm", "awsps", "akv", "gcsm", "scaleway", "keyring", "pass", "gopass", "protonpass"} :
          ReadsEach(p, k, Entry) \/ ReadsAll(p, k, Entry)
  BY DEF GetSecretValue, GetParameters, GetSecret, AccessVersion, AccessRevision, GetPassword,
         ShowEntry, ShowFirstLine, ViewByTitle
<1>2. kind = k => \A n \in EntryNames : \A a \in Entry[n] : Fair(n, a)
  BY EntryFair
<1> QED BY <1>1, <1>2, EachKeeps, AllKeeps

(* `get` and `get_many` of infisical.                                       *)
LEMMA FolderReads ==
    ASSUME IInv, NEW p \in Procs, ReadOne(p) \/ ListFolder(p) PROVE IInv'
<1>1. ReadsAll(p, "infisical", InFolder)
  BY DEF ReadOne, ListFolder
<1>2. ASSUME kind = "infisical", NEW n \in EntryNames, NEW a \in InFolder[n] PROVE Fair(n, a)
  <2>1. CASE place = "missing"
    <3>1. a = "nothing"
      BY <1>2, <2>1 DEF InFolder
    <3> QED BY <2>1, <3>1, NothingFair
  <2>2. CASE place # "missing"
    <3>1. a \in Entry[n]
      BY <1>2, <2>2 DEF InFolder
    <3> QED BY <1>2, <3>1, EntryFair
  <2> QED BY <2>1, <2>2
<1> QED BY <1>1, <1>2, AllKeeps

Decrypted(n) ==
    CASE place = "missing" -> {"nothing"}
      [] place = "plain" -> {"error"}
      [] OTHER -> OrNothing({Shown(i) : i \in First(Of(items, n))})

(* The entry of a name a SOPS file yields.                                  *)
LEMMA FirstIs ==
    ASSUME IInv, NEW n
    PROVE  /\ First(Of(items, n)) \subseteq Of(items, n)
           /\ First(Of(items, n)) = {} => Of(items, n) = {}
           /\ \A i \in First(Of(items, n)) : i.rank = 1 \/ \A j \in Of(items, n) : j.rank # 1
<1>1. \A i \in Of(items, n) : i.rank \in {1, 2}
  BY StoreIs DEF Of, Item
<1> QED BY <1>1 DEF First

(* `get` of sops.                                                           *)
LEMMA DecryptKeeps == ASSUME IInv, NEW p \in Procs, Decrypt(p) PROVE IInv'
<1> DEFINE A == [n \in EntryNames |-> Decrypted(n)]
<1>1. ReadsAll(p, "sops", A)
  BY Zenon DEF Decrypt, Decrypted
<1>2. \A n \in EntryNames : A[n] = Decrypted(n)
  OBVIOUS
<1> HIDE DEF A
<1>3. ASSUME NEW n \in EntryNames, NEW a \in Decrypted(n) PROVE Fair(n, a)
  <2>1. CASE place = "missing"
    <3>1. a = "nothing"
      BY <2>1 DEF Decrypted
    <3> QED BY <2>1, <3>1, NothingFair
  <2>2. CASE place = "plain"
    <3>1. a = "error"
      BY <2>2 DEF Decrypted
    <3> QED BY <3>1, ErrorFair
  <2>3. CASE place \notin {"missing", "plain"}
    <3>1. a \in OrNothing({Shown(i) : i \in First(Of(items, n))})
      BY <2>3 DEF Decrypted
    <3>2. CASE First(Of(items, n)) = {}
      <4>1. a = "nothing"
        BY <3>1, <3>2 DEF OrNothing
      <4> QED BY <3>2, <4>1, NothingFair, FirstIs
    <3>3. CASE First(Of(items, n)) # {}
      <4>1. PICK i \in First(Of(items, n)) : a = Shown(i)
        BY <3>1, <3>3 DEF OrNothing
      <4> QED BY <4>1, ShownFair, FirstIs
    <3> QED BY <3>2, <3>3
  <2> QED BY <2>1, <2>2, <2>3
<1> QED BY <1>1, <1>2, <1>3, AllKeeps

(* `get` of keeper: two records of one title are an error.                  *)
LEMMA RecordsKeep == ASSUME IInv, NEW p \in Procs, Records(p) PROVE IInv'
<1> DEFINE A == [n \in EntryNames |-> IF Cardinality(Of(items, n)) > 1 THEN {"error"} ELSE Entry[n]]
<1>1. ReadsAll(p, "keeper", A)
  BY Zenon DEF Records
<1>2. \A n \in EntryNames : \A a \in A[n] : a = "error" \/ a \in Entry[n]
  OBVIOUS
<1> HIDE DEF A
<1>3. kind = "keeper" => \A n \in EntryNames : \A a \in A[n] : Fair(n, a)
  BY <1>2, EntryFair, ErrorFair
<1> QED BY <1>1, <1>3, AllKeeps

(* `lpass show --password`: two items of one name may be an error.          *)
LEMMA PasswordsKeep == ASSUME IInv, NEW p \in Procs, ShowPassword(p) PROVE IInv'
<1> DEFINE A == [n \in EntryNames |-> Entry[n] \cup (IF Cardinality(Of(items, n)) > 1 THEN {"error"} ELSE {})]
<1>1. ReadsEach(p, "lastpass", A)
  BY Zenon DEF ShowPassword
<1>2. \A n \in EntryNames : \A a \in A[n] : a = "error" \/ a \in Entry[n]
  OBVIOUS
<1> HIDE DEF A
<1>3. kind = "lastpass" => \A n \in EntryNames : \A a \in A[n] : Fair(n, a)
  BY <1>2, EntryFair, ErrorFair
<1> QED BY <1>1, <1>3, EachKeeps
(* A listing the instance keeps has finitely many items.                    *)
LEMMA ListingIs ==
    ASSUME IInv, NEW p \in Procs
    PROVE  listing[p] \in (SUBSET Item) \cup {Unlisted}
BY DEF IInv, StoresTypeOK

Picked(kept, op, n) ==
    {i \in Of(kept, n) : \A j \in Of(kept, n) : IF op = "get" THEN i.id <= j.id ELSE i.id >= j.id}

(* `get` takes the first item of a name, and `get_many` the last.           *)
LEMMA PickedIs ==
    ASSUME NEW kept, kept \subseteq Item, IsFiniteSet(kept), NEW op, NEW n
    PROVE  Picked(kept, op, n) \subseteq Of(kept, n) /\ (Picked(kept, op, n) = {} => Of(kept, n) = {})
<1>1. Of(kept, n) \subseteq Item /\ IsFiniteSet(Of(kept, n))
  BY CountOf DEF Of
<1> DEFINE S == Of(kept, n)
<1> HIDE DEF S
<1>2. S # {} => /\ \E i \in S : \A j \in S : i.id <= j.id
                /\ \E i \in S : \A j \in S : i.id >= j.id
  BY <1>1, ExtremesOf DEF S
<1>3. {i \in S : \A j \in S : IF op = "get" THEN i.id <= j.id ELSE i.id >= j.id} = {} => S = {}
  BY <1>2
<1> QED BY <1>3 DEF Picked, S

(* `get` and `get_many` of bws, from the listing the instance keeps.        *)
LEMMA ListingKeeps == ASSUME IInv, NEW p \in Procs, FromListing(p) PROVE IInv'
<1> DEFINE kept == IF listing[p] = Unlisted THEN items ELSE listing[p]
           A == [n \in EntryNames |-> OrNothing({Shown(i) : i \in Picked(kept, calls[p].op, n)})]
<1>1. /\ kind = "bws" /\ calls[p].pc = "read" /\ UNCHANGED trouble
      /\ listing' = [listing EXCEPT ![p] = kept]
      /\ \E f \in Answers(A, calls[p].todo) : Becomes(p, Learnt(calls[p], f), items, place)
  BY Zenon DEF FromListing, At, Picked
<1>2. PICK f \in Answers(A, calls[p].todo) : Becomes(p, Learnt(calls[p], f), items, place)
  BY <1>1
<1>3. DOMAIN f = calls[p].todo /\ \A n \in calls[p].todo : f[n] \in A[n]
  BY DEF Answers
<1>4. \A n \in EntryNames : A[n] = OrNothing({Shown(i) : i \in Picked(kept, calls[p].op, n)})
  OBVIOUS
<1> HIDE DEF A
<1>5. Reads(calls[p]) /\ calls[p].pc # "done"
  BY <1>1, PointIs DEF Reads, Points, WritePoints
<1>6. /\ calls[p] \in Operation /\ calls[p].todo \subseteq EntryNames
      /\ Watches(kind, calls[p], items, place, stored, listing[p]) /\ StoresTypeOK
  BY DEF IInv, CallFits, StoresTypeOK, Operation
<1>8. kept \in SUBSET Item
  BY ListingIs, StoreIs
<1> HIDE DEF kept
<1>9. ASSUME NEW n \in calls[p].todo
      PROVE  n \in EntryNames /\ Apt(kind, Rendered, calls[p], n, f[n])
  <2>1. f[n] \in OrNothing({Shown(i) : i \in Picked(kept, calls[p].op, n)}) /\ n \in EntryNames
    BY <1>3, <1>4, <1>6, <1>9
  <2>2. CASE calls[p].cached
    <3>1. f[n] \in Values \cup {"nothing", "error"}
      <4>1. Picked(kept, calls[p].op, n) \subseteq Item
        BY <1>8 DEF Picked, Of
      <4>2. CASE f[n] = "nothing"
        BY <4>2
      <4>3. CASE \E i \in Picked(kept, calls[p].op, n) : f[n] = Shown(i)
        BY <4>1, <4>3, ShownIs
      <4> QED BY <2>1, <4>2, <4>3 DEF OrNothing
    <3> QED BY <1>1, <2>1, <2>2, <3>1 DEF Apt
  <2>3. CASE ~calls[p].cached
    <3>1. kept = items
      BY <1>1, <1>5, <1>6, <2>3 DEF Watches, kept
    <3>2. Picked(kept, calls[p].op, n) \subseteq Of(items, n)
          /\ (Picked(kept, calls[p].op, n) = {} => Of(items, n) = {})
      BY <3>1, StoreIs, PickedIs
    <3>3. Fair(n, f[n])
      <4>1. CASE Picked(kept, calls[p].op, n) = {}
        <5>1. f[n] = "nothing"
          BY <2>1, <4>1 DEF OrNothing
        <5> QED BY <2>1, <3>2, <4>1, <5>1, NothingFair
      <4>2. CASE Picked(kept, calls[p].op, n) # {}
        <5>1. PICK i \in Picked(kept, calls[p].op, n) : f[n] = Shown(i)
          BY <2>1, <4>2 DEF OrNothing
        <5> QED BY <1>1, <2>1, <3>2, <5>1, ShownFair
      <4> QED BY <4>1, <4>2
    <3> QED BY <1>5, <3>3, FairApt
  <2> QED BY <1>6, <2>2, <2>3 DEF Operation
<1> DEFINE e == Learnt(calls[p], f)
<1>10. Learns(e, calls[p], f)
  BY <1>3, <1>6, <1>9, LearntIs DEF Apt
<1>11. e = Learnt(calls[p], f) /\ Becomes(p, e, items, place)
  BY <1>2
<1> HIDE DEF e
<1>12. e.pc = "done"
  BY <1>3, <1>10 DEF Learns
<1>13. Resembles(e, Learnt(calls[p], f))
  BY <1>10, <1>11 DEF Resembles, Learns
<1>14. /\ listing' \in [Procs -> (SUBSET Item) \cup {Unlisted}]
       /\ \A q \in Procs : q # p => listing'[q] = listing[q]
  BY <1>1, <1>6, <1>8 DEF StoresTypeOK
<1>15. trouble' \in 0 .. MaxTrouble
  BY <1>1, <1>6 DEF StoresTypeOK
<1> QED BY <1>3, <1>5, <1>9, <1>11, <1>12, <1>13, <1>14, <1>15, LearntKeeps

(* Dashlane.                                                                *)
LEMMA OfTypeIs ==
    ASSUME IInv, NEW n \in EntryNames, NEW r \in {1, 2}
    PROVE  LET own == {i \in Of(items, n) : i.rank = r} IN
           /\ \A a \in OfType(n, r) : a \in Values \cup {"nothing", "error"}
           /\ \/ OfType(n, r) = {"error"}
              \/ own = {} /\ OfType(n, r) = {"nothing"}
              \/ \E i \in items : own = {i} /\ OfType(n, r) = {Shown(i)}
<1> DEFINE own == {i \in Of(items, n) : i.rank = r}
<1>1. own \in SUBSET items /\ items \subseteq Item /\ IsFiniteSet(items)
  BY StoreIs DEF Of
<1>2. OfType(n, r) = IF Cardinality(own) > 1 THEN {"error"} ELSE OrNothing({Shown(i) : i \in own})
  BY DEF OfType
<1> HIDE DEF own
<1>3. IsFiniteSet(own) /\ Cardinality(own) \in Nat
  BY <1>1, FS_Subset, FS_CardinalityType
<1>4. CASE Cardinality(own) > 1
  <2>1. OfType(n, r) = {"error"}
    BY <1>2, <1>4
  <2> QED BY <2>1 DEF own
<1>5. CASE own = {}
  <2>1. OfType(n, r) = {"nothing"}
    <3>1. Cardinality(own) = 0
      BY <1>5, FS_EmptySet
    <3> QED BY <1>2, <1>5, <3>1 DEF OrNothing
  <2> QED BY <1>5, <2>1 DEF own
<1>6. CASE Cardinality(own) <= 1 /\ own # {}
  <2>1. Cardinality(own) = 1
    BY <1>3, <1>6, FS_EmptySet
  <2>2. PICK i : own = {i}
    BY <1>3, <2>1, FS_Singleton
  <2>3. i \in items /\ i \in Item
    BY <1>1, <2>2
  <2>4. OfType(n, r) = {Shown(i)}
    BY <1>2, <2>1, <2>2 DEF OrNothing
  <2> QED BY <2>2, <2>3, <2>4, ShownIs DEF own
<1> QED BY <1>3, <1>4, <1>5, <1>6

(* A name without a password item may have a note.                          *)
LEMMA BlankIs ==
    ASSUME IInv, NEW n \in EntryNames
    PROVE  /\ OfType(n, 1) = {"nothing"} => Blank(items, n)
           /\ "nothing" \in OfType(n, 1) => OfType(n, 1) = {"nothing"}
           /\ "nothing" \in OfType(n, 2) /\ Blank(items, n) => n \in Bare(items, place)
<1>1. OfType(n, 1) = {"nothing"} => Blank(items, n)
  BY OfTypeIs, ShownIs, StoreIs DEF Blank
<1>2. "nothing" \in OfType(n, 1) => OfType(n, 1) = {"nothing"}
  BY OfTypeIs
<1>3. ASSUME "nothing" \in OfType(n, 2), Blank(items, n) PROVE n \in Bare(items, place)
  <2>1. CASE \E i \in items : {j \in Of(items, n) : j.rank = 1} = {i} /\ i.value \in {"empty", "scheduled"}
    BY <2>1 DEF Bare
  <2>2. CASE {i \in Of(items, n) : i.rank = 1} = {}
    <3>1. \A i \in Of(items, n) : i.rank = 2
      BY <2>2, StoreIs DEF Of, Item
    <3>2. \/ {i \in Of(items, n) : i.rank = 2} = {}
          \/ \E i \in items : {j \in Of(items, n) : j.rank = 2} = {i} /\ Shown(i) = "nothing"
      BY <1>3, OfTypeIs
    <3> QED BY <3>1, <3>2, ShownIs, StoreIs DEF Bare
  <2> QED BY <1>3, <2>1, <2>2 DEF Blank
<1> QED BY <1>1, <1>2, <1>3
(* `get` and `get_many` of dashlane: passwords first, then notes.           *)
LEMMA TypeKeeps == ASSUME IInv, NEW p \in Procs, ListType(p) PROVE IInv'
<1> DEFINE c == calls[p]
           A == [n \in EntryNames |-> OfType(n, c.rank)]
           found == {n \in c.todo : c.rank = 2 \/ OfType(n, c.rank) # {"nothing"}}
<1>1. /\ kind = "dashlane" /\ c.pc = "type"
      /\ \E f \in Answers(A, found) : Moves(p, [Learnt(c, f) EXCEPT !.rank = 2])
  BY Zenon DEF ListType, At
<1>2. PICK f \in Answers(A, found) : Moves(p, [Learnt(c, f) EXCEPT !.rank = 2])
  BY <1>1
<1>3. DOMAIN f = found /\ \A n \in found : f[n] \in A[n]
  BY DEF Answers
<1>4. \A n \in EntryNames : A[n] = OfType(n, c.rank)
  OBVIOUS
<1>5. found \subseteq c.todo /\ \A n \in c.todo : n \in found <=> c.rank = 2 \/ OfType(n, c.rank) # {"nothing"}
  OBVIOUS
<1> DEFINE w == Learnt(c, f)
           e == [w EXCEPT !.rank = 2]
<1>m. Becomes(p, e, items, place) /\ UNCHANGED listing /\ UNCHANGED trouble
  BY <1>2 DEF Moves
<1> HIDE DEF A, found
<1>6. Reads(c) /\ c.pc # "done" /\ c.pc \in Points(kind, c.op) \ WritePoints
  BY <1>1, PointIs DEF Reads, Points, WritePoints
<1>7. /\ c \in Operation /\ c.todo \subseteq EntryNames /\ c.rank \in {1, 2}
      /\ Watches(kind, c, items, place, stored, listing[p]) /\ StoresTypeOK /\ StoreFits
  BY DEF IInv, CallFits, StoresTypeOK, Operation
<1>8. ASSUME NEW n \in found PROVE n \in EntryNames /\ Apt(kind, Rendered, c, n, f[n])
  <2>1. n \in c.todo /\ n \in EntryNames /\ f[n] \in OfType(n, c.rank)
    BY <1>3, <1>4, <1>5, <1>7
  <2>2. f[n] \in Values \cup {"nothing", "error"}
    BY <1>7, <2>1, OfTypeIs
  <2>3. c.expect[n] = Unknown
    BY <1>1, <1>6, <1>7, <2>1 DEF Watches, StoreFits
  <2>4. f[n] = "nothing" /\ c.clean => n \in c.gaps
    <3> SUFFICES ASSUME f[n] = "nothing", c.clean PROVE n \in c.gaps
      OBVIOUS
    <3>1. c.rank = 2
      BY <1>5, <1>7, <2>1, BlankIs
    <3>2. Blank(items, n)
      BY <1>1, <1>6, <1>7, <2>1, <3>1 DEF Watches
    <3>3. n \in Bare(items, place)
      BY <2>1, <3>1, <3>2, BlankIs
    <3> QED BY <1>6, <1>7, <2>1, <3>3 DEF Watches
  <2> QED BY <1>1, <2>1, <2>2, <2>3, <2>4 DEF Apt
<1>9. Learns(w, c, f)
  <2>1. \A n \in DOMAIN f : f[n] \in Values \cup {"nothing", "error"}
    BY <1>3, <1>8 DEF Apt
  <2> HIDE DEF c
  <2> QED BY <1>7, <2>1, LearntIs
<1>14. w = Learnt(calls[p], f) /\ e = [w EXCEPT !.rank = 2] /\ c = calls[p]
  OBVIOUS
<1> HIDE DEF w, e, c
<1>10. w \in Operation
  BY <1>9 DEF Learns
<1>11. Resembles(e, w) /\ e.pc = w.pc
  BY <1>10, <1>14 DEF Resembles, Operation
<1>12. ASSUME e.pc # "done"
       PROVE  e.pc \in Points(kind, c.op) \ WritePoints /\ \A n \in e.todo : Blank(items, n)
  <2>1. e.todo = c.todo \ found /\ e.pc = c.pc
    BY <1>3, <1>9, <1>11, <1>12 DEF Learns, Resembles
  <2>2. \A n \in e.todo : n \in EntryNames /\ OfType(n, 1) = {"nothing"}
    BY <1>5, <1>7, <2>1
  <2> QED BY <1>6, <2>1, <2>2, BlankIs
<1>13. trouble' \in 0 .. MaxTrouble
  BY <1>7, <1>m DEF StoresTypeOK
<1>15. \A n \in DOMAIN f : n \in EntryNames /\ Apt(kind, Rendered, calls[p], n, f[n])
  BY <1>3, <1>8, <1>14
<1>16. Resembles(e, Learnt(calls[p], f))
  BY <1>11, <1>14
<1> QED BY <1>1, <1>6, <1>7, <1>12, <1>13, <1>14, <1>15, <1>16, <1>m, LearntKeeps, SameListing

(* Proton Pass.                                                             *)
Absent(c, found) == [n \in {x \in c.todo : Of(found, x) = {}} |-> "nothing"]

(* `item list` of protonpass: the call remembers the listing.               *)
LEMMA ViewingKeeps ==
    ASSUME IInv, NEW p \in Procs, kind = "protonpass", calls[p].pc = "list", NEW found \in SUBSET items,
           Becomes(p, Viewing(calls[p], found), items, place), UNCHANGED listing, trouble' \in 0 .. MaxTrouble
    PROVE  IInv'
<1> DEFINE c == calls[p]
           f == Absent(c, found)
           w == Learnt(c, f)
           e == Viewing(c, found)
<1>1. Reads(c) /\ c.pc # "done" /\ c.op = "batch"
  BY PointIs DEF Reads, Points, WritePoints
<1>2. c \in Operation /\ c.todo \subseteq EntryNames /\ StoresTypeOK /\ Numbered(items) /\ items \subseteq Item
  BY StoreIs DEF IInv, Operation
<1>3. DOMAIN f \subseteq EntryNames /\ \A n \in DOMAIN f : f[n] = "nothing"
  BY <1>2 DEF Absent
<1>4. e = [w EXCEPT !.pc = IF w.pc = "done" THEN w.pc ELSE "view", !.seen = found]
  BY DEF Viewing, Absent
<1>5. w = Learnt(calls[p], f) /\ c = calls[p]
  OBVIOUS
<1>m. Becomes(p, e, items, place)
  OBVIOUS
<1> HIDE DEF f
<1>6. \A n \in DOMAIN f : n \in EntryNames /\ Apt(kind, Rendered, c, n, f[n])
  BY <1>1, <1>3 DEF Apt
<1>7. Learns(w, c, f)
  <2> HIDE DEF c
  <2> QED BY <1>2, <1>3, LearntIs
<1> HIDE DEF w, e, c
<1>8. w \in Operation /\ found \in SUBSET Item
  BY <1>2, <1>7 DEF Learns
<1>9. Resembles(e, w) /\ e.seen = found /\ (e.pc # "done" => e.pc = "view")
  <2> DEFINE x == IF w.pc = "done" THEN w.pc ELSE "view"
  <2>1. x \in {"done", "view"} /\ (x = "done" <=> w.pc = "done")
    OBVIOUS
  <2>2. e = [w EXCEPT !.pc = x, !.seen = found]
    BY <1>4
  <2> HIDE DEF x
  <2>3. e \in Operation
    BY <1>8, <2>1, <2>2 DEF Operation
  <2>4. /\ e.pc = x /\ e.seen = found /\ e.op = w.op /\ e.gaps = w.gaps /\ e.expect = w.expect
        /\ e.cached = w.cached /\ e.clean = w.clean /\ e.failed = w.failed /\ e.out = w.out
        /\ e.todo = w.todo /\ e.got = w.got
    BY <1>8, <2>2 DEF Operation
  <2> QED BY <2>1, <2>3, <2>4 DEF Resembles
<1>10. e.pc # "done" =>
          /\ e.pc \in Points(kind, c.op) \ WritePoints
          /\ \A i \in e.seen, j \in items : i.id = j.id => i.name = j.name
  BY <1>1, <1>2, <1>9 DEF Points, WritePoints, Numbered
<1> QED BY <1>1, <1>2, <1>5, <1>6, <1>9, <1>10, <1>m, LearntKeeps, SameListing

(* `item list` of protonpass, of the vault as it is.                        *)
LEMMA VaultKeeps == ASSUME IInv, NEW p \in Procs, ListVault(p) PROVE IInv'
<1>1. PICK found \in SUBSET items : Moves(p, Viewing(calls[p], found))
  BY DEF ListVault
<1>2. kind = "protonpass" /\ calls[p].pc = "list"
  BY DEF ListVault, At
<1>3. Becomes(p, Viewing(calls[p], found), items, place) /\ UNCHANGED listing /\ trouble' \in 0 .. MaxTrouble
  BY <1>1 DEF Moves, IInv, StoresTypeOK
<1> QED BY <1>2, <1>3, ViewingKeeps

(* `item view` of a listed item shows the item of the name, or none.        *)
LEMMA ViewsAre ==
    ASSUME IInv, NEW p \in Procs, kind = "protonpass", calls[p].pc = "view", NEW f \in Views(p)
    PROVE  /\ DOMAIN f = calls[p].todo
           /\ \A n \in calls[p].todo : n \in EntryNames /\ Apt(kind, Rendered, calls[p], n, f[n])
<1> DEFINE listed(n) == {j \in items : \E i \in Of(calls[p].seen, n) : i.id = j.id}
           A == [n \in EntryNames |-> OrNothing({Shown(j) : j \in listed(n)})]
<1>1. f \in Answers(A, calls[p].todo)
  BY DEF Views
<1>2. DOMAIN f = calls[p].todo /\ \A n \in calls[p].todo : f[n] \in A[n]
  BY <1>1 DEF Answers
<1>3. calls[p].todo \subseteq EntryNames
      /\ Watches(kind, calls[p], items, place, stored, listing[p])
  BY StoreIs DEF IInv, CallFits, Operation
<1>4. Reads(calls[p]) /\ calls[p].op = "batch" /\ calls[p].pc # "done"
  BY PointIs DEF Reads, Points, WritePoints
<1>5. ASSUME NEW n \in calls[p].todo PROVE n \in EntryNames /\ Apt(kind, Rendered, calls[p], n, f[n])
  <2>1. n \in EntryNames /\ f[n] \in OrNothing({Shown(j) : j \in listed(n)})
    BY <1>2, <1>3
  <2>2. listed(n) \subseteq Of(items, n)
    BY <1>3, <1>4 DEF Watches, Of
  <2> HIDE DEF listed
  <2>3. CASE f[n] = "nothing"
    BY <1>4, <2>1, <2>3 DEF Apt
  <2>4. CASE \E j \in listed(n) : f[n] = Shown(j)
    <3>1. Fair(n, f[n])
      BY <2>1, <2>2, <2>4, ShownFair
    <3> QED BY <1>4, <3>1, FairApt
  <2> QED BY <2>1, <2>3, <2>4 DEF OrNothing
<1> QED BY <1>2, <1>5

(* `item view` of protonpass keeps the invariant.                           *)
LEMMA ViewKeeps ==
    ASSUME IInv, NEW p \in Procs, kind = "protonpass", calls[p].pc = "view", NEW f,
           DOMAIN f = calls[p].todo,
           \A n \in calls[p].todo : n \in EntryNames /\ Apt(kind, Rendered, calls[p], n, f[n]),
           Becomes(p, Learnt(calls[p], f), items, place), UNCHANGED listing, trouble' \in 0 .. MaxTrouble
    PROVE  IInv'
<1> DEFINE e == Learnt(calls[p], f)
<1>1. Reads(calls[p]) /\ calls[p].pc # "done" /\ calls[p] \in Operation /\ StoresTypeOK
  BY PointIs, StoreIs DEF Reads, Points, WritePoints, IInv
<1>2. Learns(e, calls[p], f)
  BY <1>1, LearntIs DEF Apt
<1>3. e = Learnt(calls[p], f)
  OBVIOUS
<1> HIDE DEF e
<1>4. Resembles(e, Learnt(calls[p], f)) /\ e.pc = "done"
  BY <1>2, <1>3 DEF Resembles, Learns
<1> QED BY <1>1, <1>3, <1>4, LearntKeeps, SameListing

(* `get_many` of protonpass may miss an item that was deleted in between.   *)
LEMMA UnseenKeeps == ASSUME IInv, NEW p \in Procs, Unseen(p) \/ ViewListed(p) PROVE IInv'
<1>1. CASE ViewListed(p)
  <2>1. PICK f \in Views(p) : Moves(p, Learnt(calls[p], f))
    BY <1>1 DEF ViewListed
  <2>2. kind = "protonpass" /\ calls[p].pc = "view"
    BY <1>1 DEF ViewListed, At
  <2>3. Becomes(p, Learnt(calls[p], f), items, place) /\ UNCHANGED listing /\ trouble' \in 0 .. MaxTrouble
    BY <2>1 DEF Moves, IInv, StoresTypeOK
  <2> QED BY <2>2, <2>3, ViewsAre, ViewKeeps
<1>2. CASE Unseen(p)
  <2>1. kind = "protonpass" /\ UNCHANGED listing /\ trouble' \in 0 .. MaxTrouble
    BY <1>2, TroubledIs DEF Unseen, IInv
  <2>2. CASE calls[p].pc = "list" /\ Becomes(p, Viewing(calls[p], {}), items, place)
    BY <2>1, <2>2, ViewingKeeps
  <2>3. ASSUME calls[p].pc = "view", NEW n \in calls[p].todo, NEW f \in Views(p),
               Becomes(p, Learnt(calls[p], [f EXCEPT ![n] = "nothing"]), items, place)
        PROVE  IInv'
    <3> DEFINE g == [f EXCEPT ![n] = "nothing"]
    <3>1. /\ DOMAIN f = calls[p].todo
          /\ \A m \in calls[p].todo : m \in EntryNames /\ Apt(kind, Rendered, calls[p], m, f[m])
      BY <2>1, <2>3, ViewsAre
    <3>2. DOMAIN g = calls[p].todo /\ \A m \in calls[p].todo : g[m] \in {"nothing", f[m]}
      BY <3>1
    <3>3. Becomes(p, Learnt(calls[p], g), items, place)
      BY <2>3
    <3> HIDE DEF g
    <3>4. calls[p].op = "batch"
      BY <2>1, <2>3, PointIs DEF Points, WritePoints
    <3>5. \A m \in calls[p].todo : m \in EntryNames /\ Apt(kind, Rendered, calls[p], m, g[m])
      BY <2>1, <3>1, <3>2, <3>4 DEF Apt
    <3> QED BY <2>1, <2>3, <3>2, <3>3, <3>5, ViewKeeps
  <2> QED BY <1>2, <2>2, <2>3 DEF Unseen
<1> QED BY <1>1, <1>2

(* Every step of a read keeps the invariant.                                *)
LEMMA ReadingKeeps == ASSUME IInv, NEW p \in Procs, Reading(p) PROVE IInv'
BY EntriesKeep, FolderReads, DecryptKeeps, RecordsKeep, PasswordsKeep, ListingKeeps, TypeKeeps,
   VaultKeeps, UnseenKeeps, Zenon DEF Reading
-----------------------------------------------------------------------------
(* The steps that begin and break off calls, and those of the owner.        *)
LEMMA AskingIs ==
    ASSUME StoresTypeOK, NEW p \in Procs, NEW op \in {"get", "batch"}, NEW names \in SUBSET EntryNames
    PROVE  LET c == Asking(p, op, names) IN
           /\ c \in Operation /\ c.op = op /\ c.todo = names /\ c.out = "none" /\ ~c.failed
           /\ c.gaps = Bare(items, place) \cap names /\ c.seen = {} /\ c.rank = 1
           /\ c.expect = [n \in EntryNames |-> IF n \in names THEN stored[n] ELSE Unknown]
           /\ c.got = [n \in EntryNames |-> "unasked"]
           /\ c.cached = (listing[p] # Unlisted)
           /\ c.pc = (IF kind = "dashlane" THEN "type"
                      ELSE IF kind = "protonpass" /\ op = "batch" THEN "list" ELSE "read")
<1> DEFINE e == NoCall
           g == Bare(items, place) \cap names
           x == [n \in EntryNames |-> IF n \in names THEN stored[n] ELSE Unknown]
           pc == IF kind = "dashlane" THEN "type"
                 ELSE IF kind = "protonpass" /\ op = "batch" THEN "list" ELSE "read"
           b == (listing[p] # Unlisted)
           c == Asking(p, op, names)
<1>1. /\ e \in Operation /\ e.out = "none" /\ ~e.failed /\ e.seen = {} /\ e.rank = 1
      /\ e.got = [n \in EntryNames |-> "unasked"]
  BY NoCallIs
<1>2. g \in SUBSET EntryNames /\ x \in [EntryNames -> Values \cup {Unknown}] /\ b \in BOOLEAN
  BY DEF Bare, StoresTypeOK
<1>3. pc \in {"type", "list", "read"}
  OBVIOUS
<1>4. c = [e EXCEPT !.op = op, !.todo = names, !.gaps = g, !.expect = x, !.pc = pc, !.cached = b]
  <2>1. pc = CASE kind = "dashlane" -> "type"
               [] kind = "protonpass" /\ op = "batch" -> "list"
               [] OTHER -> "read"
    OBVIOUS
  <2> QED BY <2>1, Zenon DEF Asking
<1> HIDE DEF e, g, x, pc, b, c
<1>5. c \in Operation
  BY <1>1, <1>2, <1>3, <1>4 DEF Operation
<1>6. /\ c.op = op /\ c.todo = names /\ c.out = "none" /\ ~c.failed /\ c.gaps = g /\ c.seen = {} /\ c.rank = 1
      /\ c.expect = x /\ c.got = e.got /\ c.cached = b /\ c.pc = pc
  BY <1>1, <1>4 DEF Operation
<1> QED BY <1>1, <1>5, <1>6 DEF g, x, pc, b, c

(* A read begins.                                                           *)
LEMMA AsksKeep ==
    ASSUME IInv, NEW p \in Procs, NEW op \in {"get", "batch"}, NEW names \in SUBSET EntryNames, names # {},
           Moves(p, Asking(p, op, names))
    PROVE  IInv'
<1> DEFINE c == Asking(p, op, names)
<1>1. StoresTypeOK
  BY DEF IInv
<1>2. /\ c \in Operation /\ c.op = op /\ c.todo = names /\ c.out = "none" /\ ~c.failed
      /\ c.gaps = Bare(items, place) \cap names /\ c.seen = {} /\ c.rank = 1
      /\ c.expect = [n \in EntryNames |-> IF n \in names THEN stored[n] ELSE Unknown]
      /\ c.got = [n \in EntryNames |-> "unasked"]
      /\ c.cached = (listing[p] # Unlisted)
      /\ c.pc = (IF kind = "dashlane" THEN "type"
                 ELSE IF kind = "protonpass" /\ op = "batch" THEN "list" ELSE "read")
  BY <1>1, AskingIs
<1>m. Becomes(p, c, items, place) /\ UNCHANGED listing /\ trouble' \in 0 .. MaxTrouble
  BY <1>1 DEF Moves, StoresTypeOK
<1> HIDE DEF c
<1>3. Reads(c) /\ ~Acks(c) /\ c.pc \notin WritePoints /\ c.pc # "done"
  BY <1>2 DEF Reads, Acks, WritePoints
<1>4. Placed(kind, c)
  BY <1>2 DEF Placed, Points
<1>5. Lacks(kind, c) /\ Agrees(kind, Rendered, c)
  BY <1>2 DEF Lacks, Agrees
<1>6. Found(kind, c, items) /\ Writes(kind, c, items, place, HeldAfter(c, items))
  BY <1>2, <1>3 DEF Found, Writes, WritePoints
<1>7. Watches(kind, c, items, place, stored, listing'[p])
  <2>1. c.todo # {} /\ Bare(items, place) \cap c.todo \subseteq c.gaps
    BY <1>2
  <2>2. \A n \in EntryNames : c.expect[n] # Unknown => c.expect[n] = stored[n]
    BY <1>2
  <2>3. ~c.cached => listing'[p] = Unlisted
    BY <1>2, <1>m
  <2>4. c.rank # 2 /\ c.seen = {}
    BY <1>2
  <2> QED BY <2>1, <2>2, <2>3, <2>4 DEF Watches
<1>8. Proceeds(p, c, items, place)
  BY <1>3, <1>4, <1>5, <1>6, <1>7 DEF Proceeds
<1>9. c.pc \notin {"copy", "persist"}
  BY <1>2
<1> QED BY <1>1, <1>2, <1>3, <1>8, <1>9, <1>m, MoveKeeps, SameListing

(* `get` and `get_many` begin.                                              *)
LEMMA AskKeeps ==
    ASSUME IInv, NEW p \in Procs, GetMany(p) \/ \E n \in EntryNames : Get(p, n) PROVE IInv'
<1>1. CASE GetMany(p)
  <2>1. EntryNames \in SUBSET EntryNames /\ EntryNames # {}
    BY AdaptersAssumption
  <2> QED BY <1>1, <2>1, AsksKeep DEF GetMany
<1>2. ASSUME NEW n \in EntryNames, Get(p, n) PROVE IInv'
  <2>1. {n} \in SUBSET EntryNames /\ {n} # {}
    OBVIOUS
  <2> QED BY <1>2, <2>1, AsksKeep DEF Get
<1> QED BY <1>1, <1>2

(* What a write knows when it begins.                                       *)
LEMMA ChangingIs ==
    ASSUME StoresTypeOK, NEW op \in {"set", "delete"}, NEW n \in EntryNames,
           NEW v \in Values \cup {"empty"}, ~Refuses(op, n)
    PROVE  LET c == Changing(op, n, v) IN
           /\ c \in Operation /\ c.op = op /\ c.name = n /\ c.value = v /\ c.out = "none" /\ ~c.failed
           /\ c.clean /\ c.pc = FirstStep(op) /\ c.pc \in Points(kind, op)
           /\ c.pc \in {"look", "remove", "create", "patch", "lock", "put"}
           /\ c.pc = "put" => kind # "awssm"
<1> DEFINE e == NoCall
           pc == FirstStep(op)
           c == Changing(op, n, v)
<1>1. e \in Operation /\ e.out = "none" /\ ~e.failed /\ e.clean
  BY NoCallIs
<1>2. c = [e EXCEPT !.op = op, !.name = n, !.value = v, !.pc = pc]
  BY DEF Changing
<1>3. kind \in ReadOnlyRefs \cup Titled \cup {"awsps", "infisical", "keyring", "pass", "gopass", "sops"}
  BY AdaptersAssumption DEF StoresTypeOK
<1>4. pc \in {"look", "remove", "create", "patch", "lock", "put"} /\ (pc = "put" => kind # "awssm")
  BY DEF FirstStep
<1>5. pc \in Points(kind, op)
  BY <1>3, Z3 DEF FirstStep, Points, Refuses, ReadOnlyRefs, Titled
<1> HIDE DEF e, pc, c
<1>6. c \in Operation
  <2> DEFINE d1 == [e EXCEPT !.op = op]
             d2 == [d1 EXCEPT !.name = n]
             d3 == [d2 EXCEPT !.value = v]
             d4 == [d3 EXCEPT !.pc = pc]
  <2>0. c = d4
    BY <1>2
  <2>1. d1 \in Operation
    BY <1>1 DEF Operation
  <2> HIDE DEF d1
  <2>2. d2 \in Operation
    BY <2>1 DEF Operation
  <2> HIDE DEF d2
  <2>3. d3 \in Operation
    BY <2>2 DEF Operation
  <2> HIDE DEF d3
  <2>4. d4 \in Operation
    BY <1>4, <2>3 DEF Operation
  <2> QED BY <2>0, <2>4
<1>7. c.op = op /\ c.name = n /\ c.value = v /\ c.out = "none" /\ ~c.failed /\ c.clean /\ c.pc = pc
  BY <1>1, <1>2 DEF Operation
<1> QED BY <1>4, <1>5, <1>6, <1>7 DEF pc, c

(* A write or a delete begins.                                              *)
LEMMA ChangeKeeps ==
    ASSUME IInv, NEW p \in Procs, NEW op \in {"set", "delete"}, NEW n \in EntryNames,
           NEW v \in Values \cup {"empty"}, op = "set" => v \in Values, ~Refuses(op, n),
           Moves(p, Changing(op, n, v))
    PROVE  IInv'
<1> DEFINE c == Changing(op, n, v)
<1>1. StoresTypeOK
  BY DEF IInv
<1>2. /\ c \in Operation /\ c.op = op /\ c.name = n /\ c.value = v /\ c.out = "none" /\ ~c.failed
      /\ c.pc \in Points(kind, op)
      /\ c.pc \in {"look", "remove", "create", "patch", "lock", "put"}
      /\ c.pc = "put" => kind # "awssm"
  BY <1>1, ChangingIs
<1>m. Becomes(p, c, items, place) /\ UNCHANGED listing /\ trouble' \in 0 .. MaxTrouble
  BY <1>1 DEF Moves, StoresTypeOK
<1> HIDE DEF c
<1>3. ~Reads(c) /\ ~Acks(c) /\ c.pc # "done"
  BY <1>2 DEF Reads, Acks
<1>4. Placed(kind, c)
  BY <1>2 DEF Placed
<1>5. Found(kind, c, items) /\ Ahead(kind, c, items)
  BY <1>2 DEF Found, Ahead
<1>6. Writes(kind, c, items, place, HeldAfter(c, items))
  BY <1>2, <1>5 DEF Writes
<1>7. Proceeds(p, c, items, place)
  BY <1>3, <1>4, <1>5, <1>6 DEF Proceeds
<1>9. c.pc \notin {"copy", "persist"}
  BY <1>2
<1> QED BY <1>1, <1>2, <1>3, <1>7, <1>9, <1>m, MoveKeeps, SameListing

(* A step after which the process makes no call.                            *)
LEMMA QuietKeeps ==
    ASSUME IInv, NEW p \in Procs, NEW c \in Operation, c.pc = "done", ~Reads(c), ~Acks(c),
           Becomes(p, c, items, place),
           listing' \in [Procs -> (SUBSET Item) \cup {Unlisted}],
           \A q \in Procs : q # p => listing'[q] = listing[q], trouble' \in 0 .. MaxTrouble
    PROVE  IInv'
<1>1. Proceeds(p, c, items, place)
  BY DEF Proceeds
<1> QED BY <1>1, MoveKeeps

(* `set` and `delete` begin, or are refused before any request.             *)
LEMMA SetKeeps ==
    ASSUME IInv, NEW p \in Procs, NEW n \in EntryNames,
           Delete(p, n) \/ \E v \in Written : Set(p, n, v)
    PROVE  IInv'
<1>1. CASE Delete(p, n)
  BY <1>1, ChangeKeeps DEF Delete
<1>2. ASSUME NEW v \in Written, Set(p, n, v) PROVE IInv'
  <2>1. v \in Values
    BY AdaptersAssumption
  <2>2. CASE ~Refuses("set", n) /\ Moves(p, Changing("set", n, v))
    BY <2>1, <2>2, ChangeKeeps
  <2>3. CASE Moves(p, Refused("set", n, v))
    <3> DEFINE c == Refused("set", n, v)
    <3>1. c \in Operation /\ c.pc = "done" /\ c.op = "set" /\ c.out = "error"
      BY <2>1, NoCallIs DEF Refused, Operation
    <3>2. StoresTypeOK
      BY DEF IInv
    <3>3. Becomes(p, c, items, place) /\ UNCHANGED listing /\ trouble' \in 0 .. MaxTrouble
      BY <2>3, <3>2 DEF Moves, StoresTypeOK
    <3> HIDE DEF c
    <3> QED BY <3>1, <3>2, <3>3, QuietKeeps, SameListing DEF Reads, Acks
  <2> QED BY <1>2, <2>2, <2>3 DEF Set
<1> QED BY <1>1, <1>2

(* A request fails, before or after it took effect, or the store is full.   *)
LEMMA FailKeeps ==
    ASSUME IInv, NEW p \in Procs, CallFails(p) \/ Full(p) PROVE IInv'
<1>1. Becomes(p, Broken(p), items, place) /\ UNCHANGED listing /\ trouble' \in 0 .. MaxTrouble
  BY TroubledIs DEF CallFails, Full, Moves, IInv, StoresTypeOK
<1> QED BY <1>1, ErrKeeps

(* A process is killed, and a new one begins without a listing.             *)
LEMMA CrashKeeps ==
    ASSUME IInv, NEW p \in Procs, Crash(p) \/ Reopen(p) PROVE IInv'
<1>1. /\ Becomes(p, NoCall, items, place) /\ listing' = [listing EXCEPT ![p] = Unlisted]
      /\ trouble' \in 0 .. MaxTrouble
  BY TroubledIs DEF Crash, Reopen, IInv, StoresTypeOK
<1>2. /\ listing' \in [Procs -> (SUBSET Item) \cup {Unlisted}]
      /\ \A q \in Procs : q # p => listing'[q] = listing[q]
  BY <1>1 DEF IInv, StoresTypeOK
<1>3. ~Reads(NoCall) /\ ~Acks(NoCall)
  BY NoCallIs DEF Reads, Acks
<1> QED BY <1>1, <1>2, <1>3, NoCallIs, QuietKeeps

(* The owner changes the store between two requests.                        *)
LEMMA MeddlesKeep ==
    ASSUME IInv, NEW its, Meddles(its), its \subseteq Item, Tidy(kind, its), Known(its),
           place = "missing" => its = {}
    PROVE  IInv'
<1>1. Becomes(Owner, NoCall, its, place) /\ UNCHANGED listing /\ trouble' \in 0 .. MaxTrouble
  BY TroubledIs DEF Meddles, IInv
<1>2. ~Acks(NoCall) /\ NoCall.op # "delete"
  BY NoCallIs DEF Acks
<1>3. StoreFits /\ StoresTypeOK /\ Owner \notin Procs
  BY AdaptersAssumption DEF IInv, Owner
<1>4. ASSUME NEW n \in HeldAfter(NoCall, its), kind # "protonpass" PROVE Readable(its, n)
  <2>1. n \in held /\ (n \in Touched(its) => Of(items, n) \subseteq Of(its, n))
    BY <1>2, <1>4 DEF HeldAfter
  <2>2. Readable(items, n) /\ n \in EntryNames
    BY <1>3, <1>4, <2>1 DEF StoreFits, StoresTypeOK
  <2>3. Of(items, n) \subseteq Of(its, n)
    BY <2>1, <2>2 DEF Touched
  <2> QED BY <2>2, <2>3 DEF Readable
<1>5. Proper(NoCall, its, place)
  BY <1>2, <1>3, <1>4 DEF Proper, StoresTypeOK
<1> QED BY <1>1, <1>2, <1>3, <1>5, NoCallIs, SameListing, StepKeeps

(* The owner removes an entry, or adds one.                                 *)
LEMMA OwnerKeeps == ASSUME IInv, OwnerRemoves \/ OwnerAdds PROVE IInv'
<1>1. ASSUME NEW i \in items, Meddles(items \ {i}) PROVE IInv'
  <2>1. items \ {i} \subseteq Item /\ Tidy(kind, items \ {i})
    BY StoreIs, LessIs
  <2>2. Known(items \ {i}) /\ (place = "missing" => items \ {i} = {})
    BY DEF Known, IInv, StoreFits
  <2> QED BY <1>1, <2>1, <2>2, MeddlesKeep
<1>2. ASSUME NEW n \in EntryNames, place = "ready", Room(items),
             (IF Of(items, n) = {} THEN "adds" ELSE "doubles") \in Meddling[kind],
             Meddles(Added(items, n, Old))
      PROVE  IInv'
  <2> DEFINE its == Added(items, n, Old)
  <2>1. Old \in Values \cup Marks /\ kind \in Kinds
    BY AdaptersAssumption DEF IInv, StoresTypeOK
  <2>2. /\ its \subseteq Item /\ IsFiniteSet(its) /\ Numbered(its)
        /\ OnePath(items) /\ (\A i \in Of(items, n) : i.rank # 1) => OnePath(its)
        /\ Flat(items) => Flat(its)
        /\ \E i \in its : its = items \cup {i} /\ i.id \in Fresh(items)
    BY <1>2, <2>1, StoreIs, AddedIs
  <2>3. kind = "sops" => Of(items, n) = {}
    BY <1>2, <2>1, KeysAreSingle
  <2>4. Meddles(its)
    BY <1>2
  <2> HIDE DEF its
  <2>5. Tidy(kind, its) /\ Known(its)
    BY <2>2, <2>3, StoreIs DEF Tidy, Known
  <2> QED BY <1>2, <2>2, <2>4, <2>5, MeddlesKeep
<1> QED BY <1>1, <1>2 DEF OwnerRemoves, OwnerAdds
-----------------------------------------------------------------------------
(* What a store holds at first: at most one entry of a name, and of a rank  *)
(* of its own only where there are ranks.                                   *)
Opening(k, its) ==
    /\ its \subseteq Item
    /\ \A i \in its : i.id = FirstId[i.name]
    /\ \A i, j \in its : i.name = j.name => i = j
    /\ k \notin Ranked => Flat(its)

LEMMA BothAre ==
    ASSUME NEW k, NEW v \in Values \cup Marks, NEW r \in {1, 2}, k \in Ranked \/ r = 1
    PROVE  Opening(k, {[id |-> FirstId[n], name |-> n, rank |-> r, value |-> v] : n \in EntryNames \ Refs}
                     \cup {[id |-> FirstId[n], name |-> n, rank |-> 1, value |-> Old] : n \in Refs})
<1> DEFINE a == {[id |-> FirstId[n], name |-> n, rank |-> r, value |-> v] : n \in EntryNames \ Refs}
           b == {[id |-> FirstId[n], name |-> n, rank |-> 1, value |-> Old] : n \in Refs}
<1>1. FirstId \in [EntryNames -> Ids] /\ Old \in Values /\ Refs \subseteq EntryNames
  BY AdaptersAssumption
<1>2. \A i \in a : i \in Item /\ i.id = FirstId[i.name] /\ i.rank = r /\ i.value = v /\ i.name \notin Refs
  BY <1>1 DEF Item
<1>3. \A i \in b : i \in Item /\ i.id = FirstId[i.name] /\ i.rank = 1 /\ i.value = Old /\ i.name \in Refs
  BY <1>1 DEF Item
<1>4. \A i, j \in a : i.name = j.name => i = j
  OBVIOUS
<1>5. \A i, j \in b : i.name = j.name => i = j
  OBVIOUS
<1> HIDE DEF a, b
<1>6. Opening(k, a \cup b)
  BY <1>2, <1>3, <1>4, <1>5 DEF Opening, Flat
<1> QED BY <1>6 DEF a, b

(* The stores a run may begin with.                                         *)
LEMMA StartsAre ==
    ASSUME NEW k, NEW its \in Starts(k) PROVE Opening(k, its)
<1> DEFINE both(v, r) ==
        {[id |-> FirstId[n], name |-> n, rank |-> r, value |-> v] : n \in EntryNames \ Refs}
        \cup {[id |-> FirstId[n], name |-> n, rank |-> 1, value |-> Old] : n \in Refs}
<1>1. \/ its = {} \/ its = both(Old, 1) \/ its = both("empty", 1) \/ its = both("hidden", 1)
      \/ its = both("scheduled", 1) \/ (its = both(Old, 2) /\ k \in Ranked)
  <2>1. its \in {{}, both(Old, 1)}
       \cup (IF k \in {"gcsm", "scaleway", "protonpass", "lastpass", "dashlane"} THEN {both("empty", 1)} ELSE {})
       \cup (IF k \in Ranked THEN {both(Old, 2)} ELSE {})
       \cup (IF k = "infisical" THEN {both("hidden", 1)} ELSE {})
       \cup (IF k = "scaleway" THEN {both("scheduled", 1)} ELSE {})
    BY Zenon DEF Starts
  <2> DEFINE e1 == both(Old, 1)
             e2 == both("empty", 1)
             e3 == both(Old, 2)
             e4 == both("hidden", 1)
             e5 == both("scheduled", 1)
             s2 == IF k \in {"gcsm", "scaleway", "protonpass", "lastpass", "dashlane"} THEN {e2} ELSE {}
             s3 == IF k \in Ranked THEN {e3} ELSE {}
             s4 == IF k = "infisical" THEN {e4} ELSE {}
             s5 == IF k = "scaleway" THEN {e5} ELSE {}
  <2>2. its \in {{}, e1} \cup s2 \cup s3 \cup s4 \cup s5
    BY <2>1
  <2> HIDE DEF e1, e2, e3, e4, e5
  <2>3. /\ s2 \subseteq {e2} /\ s4 \subseteq {e4} /\ s5 \subseteq {e5}
        /\ \A x \in s3 : x = e3 /\ k \in Ranked
    OBVIOUS
  <2> HIDE DEF s2, s3, s4, s5
  <2>4. its = {} \/ its = e1 \/ its = e2 \/ its = e4 \/ its = e5 \/ (its = e3 /\ k \in Ranked)
    BY <2>2, <2>3
  <2> QED BY <2>4, Zenon DEF e1, e2, e3, e4, e5
<1>2. {Old, "empty", "hidden", "scheduled"} \subseteq Values \cup Marks
  BY AdaptersAssumption DEF Marks
<1>3. Opening(k, {})
  BY DEF Opening, Flat
<1>4. \A v \in Values \cup Marks, r \in {1, 2} : k \in Ranked \/ r = 1 => Opening(k, both(v, r))
  BY BothAre
<1> HIDE DEF both
<1> QED BY <1>1, <1>2, <1>3, <1>4

(* They are in order.                                                       *)
LEMMA OpeningFits ==
    ASSUME NEW k, NEW its, Opening(k, its)
    PROVE  its \subseteq Item /\ Tidy(k, its)
<1>1. \A m, n \in EntryNames : FirstId[m] = FirstId[n] => m = n
  BY AdaptersAssumption
<1>2. Numbered(its)
  BY <1>1 DEF Opening, Numbered, Item
<1>3. OnePath(its)
  BY DEF Opening, OnePath
<1>4. IsFiniteSet(its)
  <2> DEFINE f == [i \in its |-> i.name]
  <2>1. f \in Injection(its, EntryNames)
    BY DEF Opening, Item, Injection, IsInjective
  <2>2. IsFiniteSet(EntryNames)
    BY AdaptersAssumption
  <2> HIDE DEF f
  <2> QED BY <2>1, <2>2, FS_Injection
<1> QED BY <1>2, <1>3, <1>4 DEF Opening, Tidy

(* The invariant holds at first, ...                                        *)
LEMMA InitFits == ASSUME StoresInit PROVE IInv
<1>1. /\ kind \in Kinds /\ items \in Starts(kind) /\ guarded \in BOOLEAN
      /\ place \in {"ready", "missing", "plain"}
      /\ place = "missing" => items = {} /\ kind \in {"infisical", "sops"}
      /\ listing = [p \in Procs |-> Unlisted] /\ calls = [p \in Procs |-> NoCall]
      /\ stored = [n \in EntryNames |-> Unknown]
      /\ held = {i.name : i \in {j \in items : j.value \in Values}}
      /\ trouble = 0
  <2>1. place \in CASE kind \in {"infisical", "sops"} /\ items = {} -> {"ready", "missing"}
                    [] kind = "sops" /\ items # {} -> {"ready", "plain"}
                    [] OTHER -> {"ready"}
    BY DEF StoresInit
  <2>2. /\ place \in {"ready", "missing", "plain"}
        /\ place = "missing" => items = {} /\ kind \in {"infisical", "sops"}
    BY <2>1
  <2> QED BY <2>2 DEF StoresInit
<1>2. items \subseteq Item /\ Tidy(kind, items)
  BY <1>1, StartsAre, OpeningFits
<1>3. held \subseteq EntryNames /\ \A n \in held : Readable(items, n)
  BY <1>1, <1>2 DEF Readable, Of, Item
<1>4. /\ trouble \in 0 .. MaxTrouble
      /\ stored \in [EntryNames -> Values \cup {Unknown}]
      /\ listing \in [Procs -> (SUBSET Item) \cup {Unlisted}]
      /\ calls \in [Procs -> Operation]
  BY <1>1, NoCallIs, AdaptersAssumption
<1>5. StoresTypeOK
  BY <1>1, <1>2, <1>3, <1>4 DEF StoresTypeOK
<1>6. StoreFits
  BY <1>1, <1>2, <1>3 DEF StoreFits
<1>7. \A p \in Procs : calls[p] = NoCall
  BY <1>1
<1>8. ASSUME NEW p \in Procs PROVE CallFits(p)
  <2>1. ~Reads(NoCall)
    BY NoCallIs DEF Reads
  <2> QED BY <1>7, <2>1, NoCallIs, OverFits DEF CallFits
<1>9. OneWriter
  BY <1>7, NoCallIs DEF OneWriter
<1> QED BY <1>5, <1>6, <1>8, <1>9 DEF IInv

(* ... survives a stutter, ...                                              *)
LEMMA StillFits == ASSUME IInv, UNCHANGED storeVars PROVE IInv'
<1> USE DEF storeVars
<1>1. StoresTypeOK'
  BY DEF IInv, StoresTypeOK
<1>2. StoreFits'
  BY DEF IInv, StoreFits
<1>3. ASSUME NEW p \in Procs PROVE CallFits(p)'
  <2>1. Rendered' = Rendered
    BY DEF Rendered, ReadAs
  <2>2. CallFits(p)
    BY DEF IInv
  <2> QED BY <2>1, <2>2 DEF CallFits
<1>4. OneWriter'
  BY DEF IInv, OneWriter
<1> QED BY <1>1, <1>2, <1>3, <1>4 DEF IInv

(* ... and every step.                                                      *)
LEMMA NextFits == ASSUME IInv, [StoresNext]_storeVars PROVE IInv'
<1>1. ASSUME NEW p \in Procs,
             \/ \E n \in EntryNames : Get(p, n) \/ Delete(p, n) \/ \E v \in Written : Set(p, n, v)
             \/ GetMany(p) \/ Reading(p) \/ Writing(p) \/ CallFails(p) \/ Full(p) \/ Crash(p) \/ Reopen(p)
      PROVE  IInv'
  BY <1>1, AskKeeps, SetKeeps, ReadingKeeps, WritingKeeps, FailKeeps, CrashKeeps, Zenon
<1> QED BY <1>1, OwnerKeeps, StillFits, Zenon DEF StoresNext

(* What the invariant says of answers.                                      *)
LEMMA FitsReads == ASSUME IInv PROVE ReadYourWrite
<1> SUFFICES ASSUME NEW p \in Procs, NEW n \in EntryNames,
                    Answered(calls[p], n), ~Kept(calls[p]), calls[p].expect[n] # Unknown,
                    ~(Forgiving(calls[p]) /\ calls[p].got[n] = "nothing")
             PROVE  calls[p].got[n] = ReadAs(calls[p].expect[n])
  BY DEF ReadYourWrite
<1>1. Agrees(kind, Rendered, calls[p]) /\ calls[p] \in Operation
  BY DEF IInv, CallFits, StoresTypeOK
<1>2. calls[p].got[n] = Rendered[calls[p].expect[n]]
  BY <1>1 DEF Agrees, Answered, Kept, Forgiving
<1>3. calls[p].expect[n] \in Values
  BY <1>1 DEF Operation
<1> QED BY <1>2, <1>3 DEF Rendered

LEMMA FitsAbsence == ASSUME IInv PROVE AbsenceIsReal
<1> SUFFICES ASSUME NEW p \in Procs, NEW n \in EntryNames,
                    Answered(calls[p], n), calls[p].got[n] = "nothing", ~Kept(calls[p]),
                    ~Forgiving(calls[p]), ~(kind = "dashlane" /\ ~calls[p].clean)
             PROVE  n \in calls[p].gaps
  BY DEF AbsenceIsReal
<1>1. Lacks(kind, calls[p])
  BY DEF IInv, CallFits
<1> QED BY <1>1 DEF Lacks, Answered, Kept, Forgiving

LEMMA FitsHeld == ASSUME IInv PROVE NothingLost
BY DEF IInv, StoreFits, NothingLost, Readable

(* The inductive invariant of the stores.                                   *)
LEMMA FitsAlways == StoresSpec => []IInv
<1>1. IInv /\ [StoresNext]_storeVars => IInv'
  BY NextFits
<1> QED BY InitFits, <1>1, PTL DEF StoresSpec
-----------------------------------------------------------------------------
(* The types of the store, of what instances keep, and of the calls.        *)
THEOREM StoresTypesHold == StoresSpec => []StoresTypeOK
<1>1. IInv => StoresTypeOK
  BY DEF IInv
<1> QED BY <1>1, FitsAlways, PTL

(* A read that nothing disturbed answers with the value last acknowledged,  *)
(* as the provider trims or cuts it; not of an instance of Bitwarden        *)
(* Secrets Manager that keeps a listing, nor of a gap in Proton Pass's      *)
(* batch.                                                                   *)
THEOREM OwnWritesReadBack == StoresSpec => []ReadYourWrite
BY FitsAlways, FitsReads, PTL

(* "Not there" is answered only of a name that was not there, or blank, at  *)
(* some moment of the read: no failed request, no lookup of another type    *)
(* and no half-read batch turns into an absence.                            *)
THEOREM AbsencesAreReal == StoresSpec => []AbsenceIsReal
BY FitsAlways, FitsAbsence, PTL

(* A name that was stored and that nobody removed keeps a value through the *)
(* failures, crashes and overlaps of the writes of every provider but       *)
(* Proton Pass.                                                             *)
THEOREM NothingIsLost == StoresSpec => []NothingLost
BY FitsAlways, FitsHeld, PTL
-----------------------------------------------------------------------------
(* Why a write is refused.                                                  *)
Reasoned ==
    \A p \in Procs :
        LET c == calls'[p] IN
        calls'[p] # calls[p] /\ c.op = "set" /\ c.out = "error" /\ c.clean /\ ~c.failed
        => Declined(c)

Alike(w, d) == w.op = d.op /\ w.out = d.out
Made(d)     == "op" \in DOMAIN d /\ "out" \in DOMAIN d

Excused(e) ==
    /\ Made(e)
    /\ e.pc # "done" => e.op # "set" \/ e.out # "error"
    /\ e.op = "set" /\ e.out = "error" /\ e.clean /\ ~e.failed => Declined(e)

(* Watching the store does not change what a call does.                     *)
LEMMA WatchedSays ==
    ASSUME NEW d, Made(d), NEW own, NEW its, NEW pl, NEW st
    PROVE  Alike(Watched(own, d, its, pl, st), d)
BY DEF Watched, Alike, Made

LEMMA OperationHas == \A d \in Operation : Made(d)
BY DEF Operation, Made

(* A step has its reason when the call that makes it has.                   *)
LEMMA ExcusedStep ==
    ASSUME IInv, NEW p, NEW e, Excused(e), NEW its, NEW pl, Becomes(p, e, its, pl)
    PROVE  Reasoned
<1> SUFFICES ASSUME NEW q \in Procs, calls'[q].op = "set", calls'[q].out = "error",
                    calls'[q].clean, ~calls'[q].failed
             PROVE  Declined(calls'[q])
  BY DEF Reasoned
<1> DEFINE st == StoredAfter(e, its)
<1>1. calls'[q] = IF q = p THEN IF e.pc = "done" THEN e ELSE Watched(TRUE, e, its, pl, st)
                  ELSE IF calls[q].pc = "done" THEN NoCall
                  ELSE Watched(FALSE, calls[q], its, pl, st)
  <2>1. calls' = CallsAfter(p, e, its, pl)
    BY CallsBecome
  <2> QED BY <2>1, Zenon DEF CallsAfter
<1> HIDE DEF st
<1>2. CASE q = p /\ e.pc = "done"
  BY <1>1, <1>2 DEF Excused
<1>3. CASE q = p /\ e.pc # "done"
  <2> DEFINE w == Watched(TRUE, e, its, pl, st)
  <2>1. Alike(w, e)
    BY WatchedSays, Zenon DEF Excused
  <2>2. calls'[q] = w
    BY <1>1, <1>3
  <2> HIDE DEF w
  <2> QED BY <1>3, <2>1, <2>2 DEF Excused, Alike
<1>4. CASE q # p /\ calls[q].pc = "done"
  BY <1>1, <1>4, NoCallIs
<1>5. CASE q # p /\ calls[q].pc # "done"
  <2> DEFINE d == calls[q]
             w == Watched(FALSE, d, its, pl, st)
  <2>0. w = Watched(FALSE, calls[q], its, pl, st) /\ d = calls[q]
    OBVIOUS
  <2>1. Made(d) /\ d.out = "none"
    BY <1>5, StoreIs, OperationHas, PointIs
  <2> HIDE DEF d
  <2>2. Alike(w, d)
    BY <2>1, WatchedSays, Zenon
  <2> HIDE DEF w
  <2>3. calls'[q] = w
    BY <1>1, <1>5, <2>0
  <2> QED BY <2>1, <2>2, <2>3 DEF Alike
<1> QED BY <1>2, <1>3, <1>4, <1>5

(* A call that is no refused write, or whose request failed, needs none.    *)
LEMMA SilentIs ==
    ASSUME NEW e \in Operation, e.out # "error" \/ e.op # "set" \/ (e.failed /\ e.pc = "done")
    PROVE  Excused(e)
BY OperationHas DEF Excused

(* Neither does one whose request failed.                                   *)
LEMMA BrokenIs == ASSUME IInv, NEW p \in Procs PROVE Excused(Broken(p))
BY EndedIs, SilentIs DEF IInv

(* A write on its way is not refused, ...                                   *)
LEMMA GoesWell ==
    ASSUME IInv, NEW p \in Procs, calls[p].pc # "done", NEW pc \in WritePoints, Goes(p, pc)
    PROVE  Reasoned
<1>1. Moved(p, pc) \in Operation /\ Moved(p, pc).out = "none"
  <2>1. 0 \in Nat /\ StoresTypeOK
    BY DEF IInv
  <2> QED BY <2>1, LaterIs, PointIs DEF Later
<1>2. Becomes(p, Moved(p, pc), items, place)
  BY DEF Goes, Moves, Moved
<1> QED BY <1>1, <1>2, SilentIs, ExcusedStep

(* ... nor is one that has found its entry, ...                             *)
LEMMA FixesWell ==
    ASSUME IInv, NEW p \in Procs, calls[p].pc # "done", NEW pc \in WritePoints, NEW i \in Mine(p), Fixes(p, i, pc)
    PROVE  Reasoned
<1>1. i.id \in Nat
  BY StoreIs, AdaptersAssumption DEF Mine, Of, Item
<1>2. Fixed(p, pc, i.id) \in Operation /\ Fixed(p, pc, i.id).out = "none"
  BY <1>1, LaterIs, PointIs DEF Later, IInv
<1>3. Becomes(p, Fixed(p, pc, i.id), items, place)
  BY DEF Fixes, Moves, Fixed
<1> QED BY <1>2, <1>3, SilentIs, ExcusedStep

(* ... that takes effect, ...                                               *)
LEMMA EffectsWell ==
    ASSUME IInv, NEW p \in Procs, NEW c \in Operation, c.out # "error", NEW its, NEW pl, Effects(p, c, its, pl)
    PROVE  Reasoned
<1>1. Becomes(p, c, its, pl) \/ Becomes(p, Broken(p), its, pl)
  BY DEF Effects
<1> QED BY <1>1, SilentIs, BrokenIs, ExcusedStep

(* ... that is acknowledged, ...                                            *)
LEMMA FinishesWell ==
    ASSUME IInv, NEW p \in Procs, NEW its, Finishes(p, its)
    PROVE  Reasoned
<1>1. Ended(p, "ok") \in Operation /\ Ended(p, "ok").out = "ok"
  BY EndedIs DEF IInv
<1> QED BY <1>1, EffectsWell DEF Finishes

(* ... or that has nothing to do.                                           *)
LEMMA EndsWell ==
    ASSUME IInv, NEW p \in Procs, Moves(p, Ended(p, "ok")) PROVE Reasoned
<1>1. Ended(p, "ok") \in Operation /\ Ended(p, "ok").out = "ok"
  BY EndedIs DEF IInv
<1> QED BY <1>1, SilentIs, ExcusedStep DEF Moves

(* A write that is refused needs a reason.                                  *)
LEMMA ErrsWell ==
    ASSUME IInv, NEW p \in Procs, Errs(p), calls[p].op = "set" /\ calls[p].clean => Declined(calls[p])
    PROVE  Reasoned
<1> DEFINE e == Ended(p, "error")
<1>1. /\ e \in Operation /\ e.pc = "done" /\ e.op = calls[p].op /\ e.name = calls[p].name
      /\ e.clean = calls[p].clean
  BY EndedIs DEF IInv
<1>2. Becomes(p, e, items, place)
  BY DEF Errs, Moves
<1> HIDE DEF e
<1>3. Declined(calls[p]) => Declined(e)
  BY <1>1 DEF Declined
<1> QED BY <1>1, <1>2, <1>3, OperationHas, ExcusedStep DEF Excused

(* What a clean write has found is still there.                             *)
LEMMA AheadIs ==
    ASSUME IInv, NEW p \in Procs, calls[p].pc # "done", calls[p].op = "set", calls[p].clean
    PROVE  Ahead(kind, calls[p], items)
BY DEF IInv, CallFits, Writes

(* A write whose entry is gone had somebody else's hand in it.              *)
LEMMA ChangesWell ==
    ASSUME IInv, NEW p \in Procs, Changes(p), calls[p].pc # "done",
           <<kind, calls[p].pc>> \in {<<"scaleway", "post">>, <<"bws", "edit">>, <<"keeper", "edit">>}
    PROVE  Reasoned
<1>1. CASE By(items, calls[p].id) = {} /\ Errs(p)
  <2>1. ~(calls[p].op = "set" /\ calls[p].clean)
    BY <1>1, AheadIs DEF Ahead
  <2> QED BY <1>1, <2>1, ErrsWell
<1>2. CASE \E i \in By(items, calls[p].id) : Finishes(p, Edited(items, i, calls[p].value))
  BY <1>2, FinishesWell
<1> QED BY <1>1, <1>2 DEF Changes

(* An overwriting write is not refused.                                     *)
LEMMA PutsWell == ASSUME IInv, NEW p \in Procs, Puts(p) \/ Adds(p) PROVE Reasoned
BY FinishesWell DEF Puts, Adds
-----------------------------------------------------------------------------
(* The providers that write with one call.                                  *)
LEMMA OneCallWell ==
    ASSUME IInv, NEW p \in Procs,
           \/ PutParameter(p) \/ SetSecret(p) \/ SetPassword(p) \/ InsertEntry(p) \/ InsertMultiline(p)
           \/ DeletePassword(p) \/ RemoveEntry(p) \/ RemoveMultiline(p)
           \/ BwsCreate(p) \/ CreateRecord(p) \/ CreateNote(p) \/ AddItem(p)
    PROVE  Reasoned
<1>1. Puts(p) \/ Adds(p) \/ Finishes(p, items \ Mine(p))
  BY DEF PutParameter, SetSecret, SetPassword, InsertEntry, InsertMultiline, DeletePassword, RemoveEntry,
         RemoveMultiline, BwsCreate, CreateRecord, CreateNote, AddItem
<1> QED BY <1>1, PutsWell, FinishesWell

(* awssm: the secret that CreateSecret found is still there for             *)
(* PutSecretValue.                                                          *)
LEMMA AwsWell == ASSUME IInv, NEW p \in Procs, CreateSecret(p) \/ PutSecretValue(p) PROVE Reasoned
<1>1. kind = "awssm" /\ calls[p].pc \in {"create", "put"} /\ calls[p].pc # "done"
  BY DEF CreateSecret, PutSecretValue, At
<1>2. CASE Adds(p) \/ Puts(p)
  BY <1>2, PutsWell
<1>3. CASE calls[p].pc = "put" /\ Mine(p) = {} /\ Errs(p)
  <2>1. ~(calls[p].op = "set" /\ calls[p].clean)
    BY <1>1, <1>3, AheadIs DEF Ahead, Mine
  <2> QED BY <1>3, <2>1, ErrsWell
<1>4. CASE Goes(p, "put")
  BY <1>1, <1>4, GoesWell DEF WritePoints
<1> QED BY <1>2, <1>3, <1>4 DEF CreateSecret, PutSecretValue, At

(* gcsm: the container is still there for its version.                      *)
LEMMA GoogleWell == ASSUME IInv, NEW p \in Procs, CreateContainer(p) \/ AddVersion(p) PROVE Reasoned
<1>1. kind = "gcsm" /\ calls[p].pc \in {"create", "version"} /\ calls[p].pc # "done"
  BY DEF CreateContainer, AddVersion, At
<1>2. CASE Puts(p)
  BY <1>2, PutsWell
<1>3. CASE calls[p].pc = "version" /\ Mine(p) = {} /\ Errs(p)
  <2>1. ~(calls[p].op = "set" /\ calls[p].clean)
    BY <1>1, <1>3, AheadIs DEF Ahead, Mine
  <2> QED BY <1>3, <2>1, ErrsWell
<1>4. CASE Goes(p, "version")
  BY <1>1, <1>4, GoesWell DEF WritePoints
<1>5. CASE Effects(p, [calls[p] EXCEPT !.pc = "version"], Added(items, calls[p].name, "empty"), place)
  <2>1. Moved(p, "version") \in Operation /\ Moved(p, "version").out = "none"
    <3>1. 0 \in Nat /\ StoresTypeOK /\ "version" \in WritePoints
      BY DEF IInv, WritePoints
    <3> QED BY <1>1, <3>1, LaterIs, PointIs DEF Later
  <2> QED BY <1>5, <2>1, EffectsWell DEF Moved
<1> QED BY <1>2, <1>3, <1>4, <1>5 DEF CreateContainer, AddVersion, At

(* scaleway: the container is still there to be looked up and written to.   *)
LEMMA ScalewayWell ==
    ASSUME IInv, NEW p \in Procs, EnsureSecret(p) \/ LookupSecretId(p) \/ PostVersion(p) PROVE Reasoned
<1>1. kind = "scaleway" /\ calls[p].pc \in {"create", "lookup", "post"} /\ calls[p].pc # "done"
  BY DEF EnsureSecret, LookupSecretId, PostVersion, At
<1>2. CASE Goes(p, "lookup")
  BY <1>1, <1>2, GoesWell DEF WritePoints
<1>3. CASE /\ Mine(p) = {} /\ Room(items) /\ calls[p].pc = "create"
           /\ LET its == Added(items, calls[p].name, "empty")
              IN Effects(p, [calls[p] EXCEPT !.pc = "post", !.id = (CHOOSE i \in its \ items : TRUE).id],
                         its, place)
  <2> DEFINE its == Added(items, calls[p].name, "empty")
             d == (CHOOSE i \in its \ items : TRUE).id
  <2>1. Effects(p, Fixed(p, "post", d), its, place)
    BY <1>3 DEF Fixed
  <2>2. d \in Nat
    <3>1. calls[p].name \in EntryNames /\ "empty" \in Values \cup Marks
      BY StoreIs DEF Marks, Operation
    <3>2. its \subseteq Item /\ its \ items # {}
      BY <1>3, <3>1, StoreIs, AddedIs
    <3> HIDE DEF its
    <3> QED BY <3>2, AdaptersAssumption DEF Item
  <2> HIDE DEF d, its
  <2>3. Fixed(p, "post", d) \in Operation /\ Fixed(p, "post", d).out = "none"
    BY <1>1, <2>2, LaterIs, PointIs DEF Later, IInv, WritePoints
  <2> QED BY <2>1, <2>3, EffectsWell
<1>4. CASE calls[p].pc = "lookup" /\ {i \in Mine(p) : i.value # "scheduled"} = {} /\ Errs(p)
  <2>1. calls[p].op = "set" /\ calls[p].clean => Declined(calls[p])
    BY <1>1, <1>4, AheadIs DEF Ahead, Mine, Declined
  <2> QED BY <1>4, <2>1, ErrsWell
<1>5. ASSUME NEW i \in Mine(p), Fixes(p, i, "post") PROVE Reasoned
  BY <1>1, <1>5, FixesWell DEF WritePoints
<1>6. CASE EnsureSecret(p)
  BY <1>2, <1>3, <1>6 DEF EnsureSecret, At
<1>7. CASE LookupSecretId(p)
  BY <1>4, <1>5, <1>7 DEF LookupSecretId, At
<1>8. CASE PostVersion(p)
  BY <1>8, <1>1, ChangesWell DEF PostVersion, At
<1> QED BY <1>6, <1>7, <1>8

(* infisical: POST after a PATCH that found nothing finds nothing either.   *)
LEMMA InfisicalWell ==
    ASSUME IInv, NEW p \in Procs, PatchSecret(p) \/ PostSecret(p) \/ CreateFolder(p) PROVE Reasoned
<1>1. kind = "infisical" /\ calls[p].pc \in {"patch", "post", "repost", "folder"} /\ calls[p].pc # "done"
  BY DEF PatchSecret, PostSecret, CreateFolder, At
<1>w. Writes(kind, calls[p], items, place, held)
  BY DEF IInv, CallFits
<1>2. ASSUME NEW pc \in {"post", "folder", "repost"}, Goes(p, pc) PROVE Reasoned
  BY <1>1, <1>2, GoesWell DEF WritePoints
<1>3. ASSUME NEW its, Written200(p, its) PROVE Reasoned
  <2>1. CASE guarded /\ Errs(p)
    BY <2>1, ErrsWell DEF Declined
  <2>2. CASE Finishes(p, its)
    BY <2>2, FinishesWell
  <2> QED BY <1>3, <2>1, <2>2 DEF Written200
<1>4. CASE place = "missing" /\ calls[p].pc = "repost"
  BY <1>1, <1>4, <1>w DEF Writes
<1>5. CASE calls[p].pc \in {"post", "repost"} /\ Mine(p) # {} /\ Errs(p)
  <2>1. ~(calls[p].op = "set" /\ calls[p].clean)
    BY <1>1, <1>5, AheadIs DEF Ahead, Mine
  <2> QED BY <1>5, <2>1, ErrsWell
<1>6. CASE Effects(p, [calls[p] EXCEPT !.pc = "repost"], items, "ready")
  <2>1. Moved(p, "repost") \in Operation /\ Moved(p, "repost").out = "none"
    <3>1. 0 \in Nat /\ StoresTypeOK /\ "repost" \in WritePoints
      BY DEF IInv, WritePoints
    <3> QED BY <1>1, <3>1, LaterIs, PointIs DEF Later
  <2> QED BY <1>6, <2>1, EffectsWell DEF Moved
<1>7. CASE PatchSecret(p)
  BY <1>2, <1>3, <1>7 DEF PatchSecret
<1>8. CASE PostSecret(p)
  BY <1>1, <1>2, <1>3, <1>4, <1>5, <1>8 DEF PostSecret, At
<1>9. CASE CreateFolder(p)
  BY <1>2, <1>6, <1>9 DEF CreateFolder
<1> QED BY <1>7, <1>8, <1>9

(* bws: the listed secret is still there to be edited.                      *)
LEMMA BitwardenWell == ASSUME IInv, NEW p \in Procs, ListFresh(p) \/ BwsEdit(p) PROVE Reasoned
<1>1. kind = "bws" /\ calls[p].pc \in {"look", "edit"} /\ calls[p].pc # "done"
  BY DEF ListFresh, BwsEdit, At
<1>2. CASE Goes(p, "add")
  BY <1>1, <1>2, GoesWell DEF WritePoints
<1>3. ASSUME NEW i \in Mine(p), Fixes(p, i, "edit") PROVE Reasoned
  BY <1>1, <1>3, FixesWell DEF WritePoints
<1>4. CASE BwsEdit(p)
  BY <1>1, <1>4, ChangesWell DEF BwsEdit, At
<1> QED BY <1>2, <1>3, <1>4 DEF ListFresh

(* keeper: a title of two records is refused, and the owner made the        *)
(* second.                                                                  *)
LEMMA KeeperWell ==
    ASSUME IInv, NEW p \in Procs, LookUpRecord(p) \/ UpdateRecord(p) \/ DropRecord(p) PROVE Reasoned
<1>1. kind = "keeper" /\ calls[p].pc \in {"look", "edit", "drop"} /\ calls[p].pc # "done"
  BY DEF LookUpRecord, UpdateRecord, DropRecord, At
<1>2. CASE Cardinality(Mine(p)) > 1 /\ Errs(p)
  <2>1. Declined(calls[p])
    BY <1>1, <1>2 DEF Declined, Mine
  <2> QED BY <1>2, <2>1, ErrsWell
<1>3. CASE Mine(p) = {} /\ calls[p].name \in Refs /\ Errs(p)
  <2>1. Declined(calls[p])
    BY <1>1, <1>3 DEF Declined, Mine
  <2> QED BY <1>3, <2>1, ErrsWell
<1>4. CASE Moves(p, Ended(p, "ok"))
  BY <1>4, EndsWell
<1>5. CASE Goes(p, "add")
  BY <1>1, <1>5, GoesWell DEF WritePoints
<1>6. ASSUME NEW i \in Mine(p), Fixes(p, i, IF calls[p].op = "delete" THEN "drop" ELSE "edit")
      PROVE  Reasoned
  <2> DEFINE pc == IF calls[p].op = "delete" THEN "drop" ELSE "edit"
  <2>1. pc \in WritePoints /\ Fixes(p, i, pc)
    BY <1>6 DEF WritePoints
  <2> HIDE DEF pc
  <2> QED BY <1>1, <2>1, FixesWell
<1>7. CASE UpdateRecord(p)
  BY <1>1, <1>7, ChangesWell DEF UpdateRecord, At
<1>8. CASE DropRecord(p)
  <2>1. calls[p].op = "delete"
    BY <1>1, <1>8, PointIs DEF DropRecord, At
  <2> QED BY <1>8, <2>1, ErrsWell, FinishesWell DEF DropRecord
<1>9. CASE LookUpRecord(p)
  BY <1>2, <1>3, <1>4, <1>5, <1>6, <1>9 DEF LookUpRecord
<1> QED BY <1>7, <1>8, <1>9

(* protonpass: the note that was found is still there to be deleted.        *)
LEMMA ProtonWell == ASSUME IInv, NEW p \in Procs, LookUpTitle(p) \/ DeleteNote(p) PROVE Reasoned
<1>1. kind = "protonpass" /\ calls[p].pc \in {"look", "drop"} /\ calls[p].pc # "done"
  BY DEF LookUpTitle, DeleteNote, At
<1>m. Moved(p, "add") \in Operation /\ Moved(p, "add").out = "none"
  <2>1. 0 \in Nat /\ StoresTypeOK /\ "add" \in WritePoints
    BY DEF IInv, WritePoints
  <2> QED BY <1>1, <2>1, LaterIs, PointIs DEF Later
<1>2. CASE Goes(p, "add")
  BY <1>1, <1>2, GoesWell DEF WritePoints
<1>3. ASSUME NEW i \in Mine(p), Fixes(p, i, "drop") PROVE Reasoned
  BY <1>1, <1>3, FixesWell DEF WritePoints
<1>4. CASE Becomes(p, [calls[p] EXCEPT !.pc = "add"], items, place)
  BY <1>4, <1>m, SilentIs, ExcusedStep DEF Moved
<1>5. CASE calls[p].pc = "drop" /\ By(items, calls[p].id) = {} /\ Errs(p)
  <2>1. ~(calls[p].op = "set" /\ calls[p].clean)
    BY <1>1, <1>5, AheadIs DEF Ahead
  <2> QED BY <1>5, <2>1, ErrsWell
<1>6. CASE Effects(p, [calls[p] EXCEPT !.pc = "add"], items \ By(items, calls[p].id), place)
  BY <1>6, <1>m, EffectsWell DEF Moved
<1>7. CASE LookUpTitle(p)
  BY <1>2, <1>3, <1>4, <1>7 DEF LookUpTitle
<1>8. CASE DeleteNote(p)
  BY <1>5, <1>6, <1>8 DEF DeleteNote, At
<1> QED BY <1>7, <1>8

(* lastpass: an item name of two items is refused.                          *)
LEMMA LastPassWell == ASSUME IInv, NEW p \in Procs, LookUpItem(p) \/ EditItem(p) PROVE Reasoned
<1>1. kind = "lastpass" /\ calls[p].pc \in {"look", "edit"} /\ calls[p].pc # "done"
  BY DEF LookUpItem, EditItem, At
<1>2. CASE Cardinality(Mine(p)) > 1 /\ Errs(p)
  <2>1. Declined(calls[p])
    BY <1>1, <1>2 DEF Declined, Mine
  <2> QED BY <1>2, <2>1, ErrsWell
<1>3. CASE Goes(p, IF \A i \in Mine(p) : Shown(i) = "nothing" THEN "add" ELSE "edit")
  <2> DEFINE pc == IF \A i \in Mine(p) : Shown(i) = "nothing" THEN "add" ELSE "edit"
  <2>1. pc \in WritePoints /\ Goes(p, pc)
    BY <1>3 DEF WritePoints
  <2> HIDE DEF pc
  <2> QED BY <1>1, <2>1, GoesWell
<1>4. CASE calls[p].pc = "edit" /\ Cardinality(Mine(p)) # 1 /\ Errs(p)
  <2>1. ~(calls[p].op = "set" /\ calls[p].clean)
    BY <1>1, <1>4, AheadIs, OneOf DEF Ahead, Mine
  <2> QED BY <1>4, <2>1, ErrsWell
<1>5. CASE Puts(p)
  BY <1>5, PutsWell
<1>6. CASE LookUpItem(p)
  BY <1>2, <1>3, <1>6 DEF LookUpItem
<1>7. CASE EditItem(p)
  BY <1>4, <1>5, <1>7 DEF EditItem, At
<1> QED BY <1>6, <1>7

(* sops: a file that cannot be decrypted is refused.                        *)
LEMMA SopsWell == ASSUME IInv, NEW p \in Procs, LockFile(p) \/ CopyFile(p) \/ Persist(p) PROVE Reasoned
<1>1. calls[p].pc \in {"lock", "copy", "persist"} /\ calls[p].pc # "done"
  BY DEF LockFile, CopyFile, Persist, At
<1>2. CASE LockFile(p)
  BY <1>1, <1>2, GoesWell DEF LockFile, WritePoints
<1>3. CASE CopyFile(p)
  <2> DEFINE d == calls[p]
             e == [d EXCEPT !.pc = "persist", !.seen = items]
  <2>1. d \in Operation /\ items \subseteq Item /\ d.out = "none"
    BY <1>1, StoreIs, PointIs
  <2>2. Becomes(p, e, items, place)
    BY <1>3 DEF CopyFile, Moves
  <2> HIDE DEF d
  <2>3. e \in Operation /\ e.out = "none"
    BY <2>1 DEF Operation
  <2> HIDE DEF e
  <2> QED BY <2>2, <2>3, SilentIs, ExcusedStep
<1>4. CASE Persist(p)
  <2>1. Ended(p, "ok") \in Operation /\ Ended(p, "ok").out = "ok"
    BY EndedIs DEF IInv
  <2>2. PICK its : Becomes(p, Ended(p, "ok"), its, "ready")
    BY <1>4 DEF Persist
  <2> QED BY <2>1, <2>2, SilentIs, ExcusedStep
<1> QED BY <1>2, <1>3, <1>4

(* No step of a write refuses without a reason.                             *)
LEMMA WritingWell == ASSUME IInv, NEW p \in Procs, Writing(p) PROVE Reasoned
BY OneCallWell, AwsWell, GoogleWell, ScalewayWell, InfisicalWell, BitwardenWell, KeeperWell, ProtonWell,
   LastPassWell, SopsWell, Zenon DEF Writing
-----------------------------------------------------------------------------
(* A read does not become a write.                                          *)
LEMMA LearntSays ==
    ASSUME NEW c \in Operation, NEW f
    PROVE  /\ Made(Learnt(c, f)) /\ Learnt(c, f).op = c.op
           /\ Made([Learnt(c, f) EXCEPT !.rank = 2]) /\ [Learnt(c, f) EXCEPT !.rank = 2].op = c.op
<1> DEFINE w == Learnt(c, f)
<1>1. Made(w) /\ w.op = c.op
  BY DEF Learnt, Made, Operation
<1> HIDE DEF w
<1>2. Made([w EXCEPT !.rank = 2]) /\ [w EXCEPT !.rank = 2].op = c.op
  BY <1>1 DEF Made
<1> QED BY <1>1, <1>2 DEF w

(* ... so that it needs no reason, ...                                      *)
LEMMA ReadWell ==
    ASSUME IInv, NEW p \in Procs, calls[p].pc \in {"read", "type", "list", "view"},
           NEW e, Made(e), e.op = calls[p].op, Becomes(p, e, items, place)
    PROVE  Reasoned
<1>1. calls[p].op # "set"
  BY PointIs DEF Points, WritePoints
<1>2. Excused(e)
  BY <1>1 DEF Excused
<1> QED BY <1>2, ExcusedStep

(* ... nor does it by an answer, ...                                        *)
LEMMA LearntWell ==
    ASSUME IInv, NEW p \in Procs, calls[p].pc \in {"read", "type", "list", "view"}, NEW f,
           Becomes(p, Learnt(calls[p], f), items, place)
    PROVE  Reasoned
BY StoreIs, LearntSays, ReadWell

(* ... by a listing, ...                                                    *)
LEMMA ViewingWell ==
    ASSUME IInv, NEW p \in Procs, calls[p].pc = "list", NEW found,
           Becomes(p, Viewing(calls[p], found), items, place)
    PROVE  Reasoned
<1> DEFINE c == calls[p]
           f == Absent(c, found)
           w == Learnt(c, f)
           x == IF w.pc = "done" THEN w.pc ELSE "view"
           e == [w EXCEPT !.pc = x, !.seen = found]
<1>1. Becomes(p, e, items, place)
  BY DEF Viewing, Absent
<1>2. Made(e) /\ e.op = c.op
  <2>1. Made(w) /\ w.op = c.op
    BY StoreIs, LearntSays
  <2> HIDE DEF w, c, x
  <2> QED BY <2>1 DEF Made
<1> HIDE DEF e
<1> QED BY <1>1, <1>2, ReadWell

(* ... or by any other step of it.                                          *)
LEMMA ReadingWell == ASSUME IInv, NEW p \in Procs, Reading(p) PROVE Reasoned
<1>1. ASSUME NEW k, NEW A, ReadsEach(p, k, A) \/ ReadsAll(p, k, A) PROVE Reasoned
  <2>1. PICK f : Becomes(p, Learnt(calls[p], f), items, place)
    BY <1>1 DEF ReadsEach, ReadsAll, Moves
  <2>2. calls[p].pc = "read"
    BY <1>1 DEF ReadsEach, ReadsAll, At
  <2> QED BY <2>1, <2>2, LearntWell
<1>2. CASE \/ GetSecretValue(p) \/ GetParameters(p) \/ GetSecret(p) \/ AccessVersion(p)
           \/ AccessRevision(p) \/ GetPassword(p) \/ ShowEntry(p) \/ ShowFirstLine(p)
           \/ ReadOne(p) \/ ListFolder(p) \/ Decrypt(p) \/ Records(p) \/ ShowPassword(p) \/ ViewByTitle(p)
  <2>1. \E k, A : ReadsEach(p, k, A) \/ ReadsAll(p, k, A)
    BY <1>2, Zenon DEF GetSecretValue, GetParameters, GetSecret, AccessVersion, AccessRevision, GetPassword,
       ShowEntry, ShowFirstLine, ReadOne, ListFolder, Decrypt, Records, ShowPassword, ViewByTitle
  <2> QED BY <1>1, <2>1
<1>3. CASE FromListing(p)
  <2>1. PICK f : Becomes(p, Learnt(calls[p], f), items, place)
    BY <1>3 DEF FromListing
  <2>2. calls[p].pc = "read"
    BY <1>3 DEF FromListing, At
  <2> QED BY <2>1, <2>2, LearntWell
<1>4. CASE ListType(p)
  <2>1. PICK f : Becomes(p, [Learnt(calls[p], f) EXCEPT !.rank = 2], items, place)
    BY <1>4 DEF ListType, Moves
  <2>2. calls[p].pc = "type"
    BY <1>4 DEF ListType, At
  <2>3. LET e == [Learnt(calls[p], f) EXCEPT !.rank = 2] IN Made(e) /\ e.op = calls[p].op
    BY StoreIs, LearntSays
  <2> QED BY <2>1, <2>2, <2>3, ReadWell
<1>5. CASE ListVault(p)
  <2>1. PICK found : Becomes(p, Viewing(calls[p], found), items, place)
    BY <1>5 DEF ListVault, Moves
  <2>2. calls[p].pc = "list"
    BY <1>5 DEF ListVault, At
  <2> QED BY <2>1, <2>2, ViewingWell
<1>6. CASE ViewListed(p)
  <2>1. PICK f : Becomes(p, Learnt(calls[p], f), items, place)
    BY <1>6 DEF ViewListed, Moves
  <2>2. calls[p].pc = "view"
    BY <1>6 DEF ViewListed, At
  <2> QED BY <2>1, <2>2, LearntWell
<1>7. CASE Unseen(p)
  <2>1. CASE calls[p].pc = "list" /\ Becomes(p, Viewing(calls[p], {}), items, place)
    BY <2>1, ViewingWell
  <2>2. CASE calls[p].pc = "view" /\ \E f : Becomes(p, Learnt(calls[p], f), items, place)
    BY <2>2, LearntWell
  <2> QED BY <1>7, <2>1, <2>2 DEF Unseen
<1> QED BY <1>2, <1>3, <1>4, <1>5, <1>6, <1>7 DEF Reading

(* A call that begins is refused only for what it asks.                     *)
LEMMA BeginsWell ==
    ASSUME IInv, NEW p \in Procs,
           GetMany(p) \/ \E n \in EntryNames : Get(p, n) \/ Delete(p, n) \/ \E v \in Written : Set(p, n, v)
    PROVE  Reasoned
<1>1. ASSUME NEW op \in {"get", "batch"}, NEW names \in SUBSET EntryNames, Moves(p, Asking(p, op, names))
      PROVE  Reasoned
  <2> DEFINE e == Asking(p, op, names)
  <2>1. Made(e) /\ e.op = op
    BY NoCallIs DEF Asking, Made, Operation
  <2>2. Becomes(p, e, items, place)
    BY <1>1 DEF Moves
  <2> HIDE DEF e
  <2>3. Excused(e)
    BY <2>1 DEF Excused
  <2> QED BY <2>2, <2>3, ExcusedStep
<1>2. ASSUME NEW op \in {"set", "delete"}, NEW n \in EntryNames, NEW v \in Values \cup {"empty"},
             ~Refuses(op, n), Moves(p, Changing(op, n, v))
      PROVE  Reasoned
  <2>1. Changing(op, n, v) \in Operation /\ Changing(op, n, v).out = "none"
    BY <1>2, ChangingIs DEF IInv
  <2> QED BY <1>2, <2>1, SilentIs, ExcusedStep DEF Moves
<1>3. ASSUME NEW n \in EntryNames, NEW v \in Values, Refuses("set", n), Moves(p, Refused("set", n, v))
      PROVE  Reasoned
  <2> DEFINE e == Refused("set", n, v)
  <2>1. e.pc = "done" /\ e.name = n /\ Made(e)
    BY NoCallIs DEF Refused, Operation, Made
  <2>2. Becomes(p, e, items, place)
    BY <1>3 DEF Moves
  <2> HIDE DEF e
  <2>3. Declined(e)
    BY <1>3, <2>1 DEF Declined
  <2>4. Excused(e)
    BY <2>1, <2>3 DEF Excused
  <2> QED BY <2>2, <2>4, ExcusedStep
<1>4. Written \subseteq Values
  BY AdaptersAssumption
<1>5. CASE GetMany(p)
  BY <1>1, <1>5 DEF GetMany
<1>6. ASSUME NEW n \in EntryNames, Get(p, n) \/ Delete(p, n) \/ \E v \in Written : Set(p, n, v)
      PROVE  Reasoned
  <2>1. CASE Get(p, n)
    <3>1. {n} \in SUBSET EntryNames
      OBVIOUS
    <3> QED BY <1>1, <2>1, <3>1 DEF Get
  <2>2. CASE Delete(p, n)
    BY <1>2, <2>2 DEF Delete
  <2>3. ASSUME NEW v \in Written, Set(p, n, v) PROVE Reasoned
    <3>1. v \in Values
      BY <1>4
    <3> QED BY <1>2, <1>3, <2>3, <3>1 DEF Set
  <2> QED BY <1>6, <2>1, <2>2, <2>3
<1> QED BY <1>5, <1>6

(* Failures, crashes and the owner refuse nothing.                          *)
LEMMA OthersWell ==
    ASSUME IInv, \/ \E p \in Procs : CallFails(p) \/ Full(p) \/ Crash(p) \/ Reopen(p)
                 \/ OwnerRemoves \/ OwnerAdds
    PROVE  Reasoned
<1>1. \/ \E p \in Procs : Becomes(p, Broken(p), items, place)
      \/ \E p, its : Becomes(p, NoCall, its, place)
  BY DEF CallFails, Full, Crash, Reopen, OwnerRemoves, OwnerAdds, Meddles, Moves
<1>2. Excused(NoCall)
  BY NoCallIs, SilentIs
<1> QED BY <1>1, <1>2, BrokenIs, ExcusedStep

(* No step refuses a write without a reason.                                *)
LEMMA NextReasoned == ASSUME IInv, [StoresNext]_storeVars PROVE Reasoned \/ UNCHANGED storeVars
<1>1. ASSUME NEW p \in Procs,
             \/ \E n \in EntryNames : Get(p, n) \/ Delete(p, n) \/ \E v \in Written : Set(p, n, v)
             \/ GetMany(p) \/ Reading(p) \/ Writing(p) \/ CallFails(p) \/ Full(p) \/ Crash(p) \/ Reopen(p)
      PROVE  Reasoned
  BY <1>1, BeginsWell, ReadingWell, WritingWell, OthersWell, Zenon
<1> QED BY <1>1, OthersWell, Zenon DEF StoresNext

(* A write that no failure and nobody else disturbed is refused only for    *)
(* what it asks or for what the owner has in the store: never for what an   *)
(* earlier write left half done.                                            *)
THEOREM RefusalsHaveReasons == StoresSpec => RetriesSucceed
<1>1. IInv /\ [StoresNext]_storeVars =>
        [\A p \in Procs :
            LET c == calls'[p] IN
            calls'[p] # calls[p] /\ c.op = "set" /\ c.out = "error" /\ c.clean /\ ~c.failed
            => Declined(c)]_storeVars
  BY NextReasoned DEF Reasoned
<1> QED BY <1>1, FitsAlways, PTL DEF RetriesSucceed, StoresSpec
=============================================================================
