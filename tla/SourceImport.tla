---------------------------- MODULE SourceImport ----------------------------
(***************************************************************************)
(* `import_internal` of secrets.rs: copying every declared secret from one *)
(* store to the store its route writes to and, with `delete_source`,       *)
(* removing each source value once the destination is known to hold it.    *)
(*                                                                         *)
(* Every provider call is one step.  Several processes may import at once, *)
(* a call may fail, a process may die between two calls and the user may   *)
(* run the command again.  Nothing else writes to the stores.              *)
(*                                                                         *)
(* The destination's cache entry (`sync_cache_after_write`) is the subject *)
(* of CachedRoute: no store of this module holds cache entries.  Counts    *)
(* and summary lines are left out.                                         *)
(*                                                                         *)
(* RefusedNever, AgreesNever and the like are altered forms of the         *)
(* definition that follows; the specification does not use them.           *)
(***************************************************************************)
EXTENDS Integers, Sequences

CONSTANTS
    Procs,         \* processes
    Stores,        \* provider stores, by the container they are
    Names,         \* the declared, stored secrets in the order of their names
    Addrs,         \* addresses within a store
    AddrOf,        \* a secret's address: its `ref` or its conventional name
    Target,        \* the store a secret's route writes to
    FromStores,    \* stores that are imported from
    Deleting,      \* stores whose provider can delete (`spec_provider_deletes`)
    Lossy,         \* stores that give back something else than was written
    Values,        \* what secrets can hold
    Faults         \* the failures that may happen, a subset of FaultKinds

NoValue    == "none"
Mangled    == "mangled"     \* what a lossy store or a failed write leaves
FaultKinds == {"build", "read", "write", "tear", "delete", "crash"}
Secret     == {Names[i] : i \in DOMAIN Names}
Content    == Values \cup {NoValue, Mangled}

ASSUME ImportAssumption ==
    /\ Stores # {}
    /\ Names \in Seq(Secret)
    /\ AddrOf \in [Secret -> Addrs]
    /\ Target \in [Secret -> Stores]
    /\ FromStores \subseteq Stores
    /\ Deleting \subseteq Stores
    /\ Lossy \subseteq Stores
    /\ NoValue \notin Values /\ Mangled \notin Values
    /\ Faults \subseteq FaultKinds

VARIABLES
    held,    \* what each store holds at each address
    proc,    \* where each process is in its import
    origin   \* history: what every store held at first

vars == <<held, proc, origin>>
-----------------------------------------------------------------------------
Idle == [pc |-> "idle", from |-> CHOOSE s \in Stores : TRUE, delete |-> FALSE,
         item |-> 1, value |-> NoValue, result |-> "none"]

Goto(p, label)    == proc' = [proc EXCEPT ![p].pc = label]
Finish(p, result) == proc' = [proc EXCEPT ![p].pc = "done", ![p].result = result]
Fails(kind)       == kind \in Faults

NextItem(p) == proc' = [proc EXCEPT ![p].pc = "source", ![p].item = @ + 1,
                                    ![p].value = NoValue]

(* The secret a process is at, its address, and the two stores concerned. *)
Current(p) == Names[proc[p].item]
At(p)      == AddrOf[Current(p)]
From(p)    == proc[p].from
To(p)      == Target[Current(p)]

Init ==
    /\ held \in [Stores -> [Addrs -> Values \cup {NoValue}]]
    /\ proc = [p \in Procs |-> Idle]
    /\ origin = held
-----------------------------------------------------------------------------
(* The preflight of `delete_source`: the source must be able to delete, and *)
(* no secret's destination may be its source (`same_entry`, which compares  *)
(* the store and the coordinates; the address is the same on both sides).   *)
(* All of it precedes the first provider call.                              *)
RefusedNever(from, delete) == delete /\ from \notin Deleting

Refused(from, delete) ==
    delete /\ (from \notin Deleting \/ \E n \in Secret : Target[n] = from)

Begin(p, from, delete) ==
    /\ proc[p].pc = "idle"
    /\ \E ok \in {TRUE, ~Fails("build")} :
          proc' = [proc EXCEPT ![p] = [Idle EXCEPT
                     !.from = from, !.delete = delete,
                     !.pc = IF ok /\ ~Refused(from, delete) THEN "source" ELSE "done",
                     !.result = IF ok /\ ~Refused(from, delete) THEN "none" ELSE "error"]]
    /\ UNCHANGED <<held, origin>>

(* The loop over the plans.  The first failure of any call ends the import. *)
ReadSource(p) ==
    /\ proc[p].pc = "source"
    /\ proc[p].item \in DOMAIN Names
    /\ \/ Fails("read") /\ Finish(p, "error")
       \/ proc' = [proc EXCEPT ![p].pc = "target", ![p].value = held[From(p)][At(p)]]
    /\ UNCHANGED <<held, origin>>

(* The destination is read whether or not the source had a value.  Only a   *)
(* missing one is copied, and only an equal one lets the source go.         *)
MissingOrOther(p) == held[To(p)][At(p)] # proc[p].value
AgreesNever(p)   == FALSE

Missing(p) == held[To(p)][At(p)] = NoValue
Agrees(p)  == proc[p].delete /\ held[To(p)][At(p)] = proc[p].value

ReadTarget(p) ==
    /\ proc[p].pc = "target"
    /\ LET found == proc[p].value # NoValue
       IN \/ Fails("read") /\ Finish(p, "error")
          \/ ~found /\ NextItem(p)
          \/ found /\ Missing(p) /\ Goto(p, "copy")
          \/ found /\ ~Missing(p) /\ Agrees(p) /\ Goto(p, "delete")
          \/ found /\ ~Missing(p) /\ ~Agrees(p) /\ NextItem(p)
    /\ UNCHANGED <<held, origin>>

(* The write.  One that fails may have left nothing, part of the value or   *)
(* all of it.  With `delete_source` the destination is read back.           *)
Stored(s, v) == IF s \in Lossy THEN Mangled ELSE v
AfterCopy(p) == IF proc[p].delete THEN Goto(p, "verify") ELSE NextItem(p)

Copy(p) ==
    /\ proc[p].pc = "copy"
    /\ LET Write(v) == held' = [held EXCEPT ![To(p)][At(p)] = v]
           Accepted == Write(Stored(To(p), proc[p].value))
       IN \/ Accepted /\ AfterCopy(p)
          \/ /\ \/ Fails("write") /\ (Accepted \/ UNCHANGED held)
                \/ Fails("tear") /\ Write(Mangled)
             /\ Finish(p, "error")
    /\ UNCHANGED origin

Verify(p) ==
    /\ proc[p].pc = "verify"
    /\ \/ Fails("read") /\ Finish(p, "error")
       \/ held[To(p)][At(p)] = proc[p].value /\ Goto(p, "delete")
       \/ held[To(p)][At(p)] # proc[p].value /\ Finish(p, "error")
    /\ UNCHANGED <<held, origin>>

(* A failed deletion may have removed the value all the same. *)
DeleteSource(p) ==
    /\ proc[p].pc = "delete"
    /\ LET Removed == held' = [held EXCEPT ![From(p)][At(p)] = NoValue]
       IN \/ Removed /\ NextItem(p)
          \/ Fails("delete") /\ (Removed \/ UNCHANGED held) /\ Finish(p, "error")
    /\ UNCHANGED origin

Completes(p) ==
    /\ proc[p].pc = "source"
    /\ proc[p].item \notin DOMAIN Names
    /\ Finish(p, "ok")
    /\ UNCHANGED <<held, origin>>

(* The command returns, or its process dies where it stands; either way the *)
(* user may run it again.                                                   *)
Return(p) ==
    /\ proc[p].pc = "done"
    /\ proc' = [proc EXCEPT ![p] = Idle]
    /\ UNCHANGED <<held, origin>>

Crash(p) ==
    /\ Fails("crash")
    /\ proc[p].pc \notin {"idle", "done"}
    /\ proc' = [proc EXCEPT ![p] = Idle]
    /\ UNCHANGED <<held, origin>>

Step(p) ==
    \/ ReadSource(p) \/ ReadTarget(p) \/ Copy(p) \/ Verify(p) \/ DeleteSource(p)
    \/ Completes(p) \/ Return(p)

Next ==
    \E p \in Procs :
       \/ \E from \in FromStores, delete \in BOOLEAN : Begin(p, from, delete)
       \/ Step(p)
       \/ Crash(p)

Spec == Init /\ [][Next]_vars
-----------------------------------------------------------------------------
(* Properties *)

TypeOK ==
    /\ held \in [Stores -> [Addrs -> Content]]
    /\ proc \in [Procs ->
         [pc : {"idle", "source", "target", "copy", "verify", "delete", "done"},
          from : Stores, delete : BOOLEAN, item : 1..Len(Names) + 1,
          value : Content, result : {"none", "ok", "error"}]]
    /\ origin \in [Stores -> [Addrs -> Values \cup {NoValue}]]

(* No secret is lost, whatever fails, wherever a process dies and however   *)
(* often the import is run again: every value some store held at first is   *)
(* still there, or at a destination of a secret with that address.          *)
Survives(s, a) ==
    \E t \in {s} \cup {Target[n] : n \in {m \in Secret : AddrOf[m] = a}} :
        held[t][a] = origin[s][a]

NothingLost == \A s \in Stores, a \in Addrs : origin[s][a] # NoValue => Survives(s, a)

(* `import` never overwrites: a destination's value changes only from       *)
(* nothing ("Secrets that already exist in the destination provider will    *)
(* not be overwritten", cli.md; "A destination value that already differs   *)
(* is never overwritten", secrets.rs:3273), and sources only lose values.   *)
DestinationKept ==
    [][\A p \in Procs, s \in Stores, a \in Addrs :
         (proc'[p] # proc[p] /\ held'[s][a] # held[s][a]) =>
            \/ held[s][a] = NoValue
            \/ s = proc[p].from /\ proc[p].delete /\ held'[s][a] = NoValue]_vars

(* An import with `delete_source` that reports success has left in the      *)
(* source only what differs from its destination, also when it resumes one  *)
(* that was cut short.                                                      *)
SuccessIsComplete ==
    \A p \in Procs : (proc[p].pc = "done" /\ proc[p].result = "ok" /\ proc[p].delete) =>
        \A n \in Secret :
            LET left == held[proc[p].from][AddrOf[n]]
            IN left # NoValue => held[Target[n]][AddrOf[n]] \notin {NoValue, left}
-----------------------------------------------------------------------------
(* What the repository's words promise and the code does not keep. *)

(* "After copying, delete a source value only when the destination is       *)
(* verified to contain the same value." (cli.md:527): this holds of every   *)
(* secret that reads the source address, and several may share a `ref`      *)
(* while their routes write to different stores.                            *)
DeletesOnlyCopied ==
    [][\A p \in Procs : (proc[p].pc = "delete" /\ proc'[p].pc = "source") =>
         \A n \in Secret : AddrOf[n] = At(p) =>
            held[Target[n]][At(p)] = proc[p].value]_vars
=============================================================================
