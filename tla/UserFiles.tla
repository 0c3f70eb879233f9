------------------------------ MODULE UserFiles -------------------------------
(***************************************************************************)
(* The three files a user's commands share: the manifest secretspec.toml,  *)
(* the settings config.toml and the audit log.  Processes load the first   *)
(* two, edit them (add, init, config init, config provider) and append to  *)
(* the third while others do the same; no lock spans two processes.  A     *)
(* process may be killed between any two system calls, and a write may     *)
(* fail having written part of its text.                                   *)
(***************************************************************************)
EXTENDS Naturals, FiniteSets, Sequences, Functions

CONSTANTS Processes,   \* the programs running secretspec
          Threads,     \* their threads
          ProcessOf,   \* the process a thread belongs to
          Profiles,    \* the profiles a manifest may have, "default" among them
          Secrets,     \* the secrets one may declare
          Inherited,   \* what the manifests under `extends` declare
          Aliases,     \* the provider aliases a user may set
          Providers,   \* the providers a user may prefer
          Cap, DefaultCap, \* the size the audit log may reach, as set and by default
          None, NoFile, Torn,
          Budgets,     \* bound: how many commands of each kind are left
          MaxTrouble   \* bound: crashes and failed writes

ASSUME ThreadsRun == ProcessOf \in [Threads -> Processes]
ASSUME CountsAreNatural ==
    /\ {Cap, DefaultCap, MaxTrouble} \subseteq Nat
    /\ Budgets \subseteq [{"open", "edit", "hand", "add", "init", "record"} -> Nat]
    /\ Processes # {} /\ IsFiniteSet(Processes)

VARIABLES manifest,    \* secretspec.toml: NoFile, Torn or what it declares
          config,      \* config.toml: NoFile, Torn or the settings
          legacy,      \* where macOS kept the settings before
          log,         \* the audit log, a sequence of pieces
          session,     \* what each process loaded, None before and after
          task,        \* what each thread is doing
          left,        \* the commands still to be left
          trouble,     \* crashes and failed writes so far
          asked,       \* the manifest and the settings the completed commands add up to
          halfway,     \* the files whose last overwriting was not completed
          crossed,     \* the files edited from a text that was not the one asked for
          traced,      \* the entries whose record call has returned
          excused      \* the entries whose loss was announced or made room for others

files == <<manifest, config, legacy>>
ghosts == <<asked, halfway, crossed>>
trail == <<log, traced, excused>>
vars == <<files, trail, session, task, left, trouble, ghosts>>

-----------------------------------------------------------------------------
(* What the files hold.                                                    *)

Manifests == [tables : SUBSET Profiles, pairs : SUBSET (Profiles \X Secrets)]
Configs ==
    [provider : Providers \cup {None}, profile : Profiles \cup {None},
     aliases : SUBSET Aliases, audit : {None, "off", "relative"}]
Sessions ==
    [id : Nat, manifest : Manifests, logs : BOOLEAN, seq : Nat, lock : Threads \cup {None}]

ASSUME AbsenceIsTold ==
    /\ "default" \in Profiles
    /\ NoFile # Torn
    /\ NoFile \notin Manifests \cup Configs /\ Torn \notin Manifests \cup Configs
    /\ None \notin Sessions \cup Threads

Declares(tables, pairs) == [tables |-> tables, pairs |-> pairs]

\* A profile of the manifest has what it declares, what the default profile
\* declares and what both inherit.
Known(m) == m.tables \cup {d[1] : d \in Inherited}
Effective(m, profile) ==
    {d[2] : d \in {e \in m.pairs \cup Inherited : e[1] \in {profile, "default"}}}

\* A prefix of a manifest: not TOML, or TOML that declares less.
CutManifest(m) == {Torn} \cup [tables : {m.tables}, pairs : SUBSET m.pairs]

Blank == [provider |-> None, profile |-> None, aliases |-> {}, audit |-> None]

\* Settings are written in this order, so a prefix of them drops the end.
CutConfig(c) ==
    {Torn, Blank, [Blank EXCEPT !.provider = c.provider],
     [c EXCEPT !.aliases = {}, !.audit = None], [c EXCEPT !.audit = None]}

\* Where the user's settings are.
Settings ==
    IF config # NoFile THEN config ELSE IF legacy # NoFile THEN legacy ELSE Blank

\* Auditing is on unless it is turned off; a path that is not absolute names
\* no place for the log.
Located(c) == c.audit # "relative"
Logs(c) == c.audit # "off" /\ Located(c)

\* Mutant of Prefer: a preference starts a new file.
PreferAnew(edit, c) == [Blank EXCEPT !.provider = edit.provider, !.profile = edit.profile]

Prefer(edit, c) == [c EXCEPT !.provider = edit.provider, !.profile = edit.profile]
AddAlias(edit, c) == [c EXCEPT !.aliases = @ \cup {edit.alias}]
RemoveAlias(edit, c) == [c EXCEPT !.aliases = @ \ {edit.alias}]

Apply(edit, c) ==
    CASE edit.op = "init"   -> Prefer(edit, c)
      [] edit.op = "alias"  -> AddAlias(edit, c)
      [] edit.op = "remove" -> RemoveAlias(edit, c)

Edits ==
    [op : {"init"}, provider : Providers, profile : Profiles \cup {None}]
    \cup [op : {"alias", "remove"}, alias : Aliases]

\* Removing what is not there saves nothing.
Saves(edit, c) == edit.op = "remove" => c # NoFile /\ edit.alias \in c.aliases

OrBlank(c) == IF c = NoFile THEN Blank ELSE c

\* What the user is told an edit does, and what a manifest declares after an
\* addition: the one field or the one secret, nothing beside it.
Meant(edit, c) ==
    IF edit.op = "init"
    THEN [provider |-> edit.provider, profile |-> edit.profile,
          aliases |-> c.aliases, audit |-> c.audit]
    ELSE [provider |-> c.provider, profile |-> c.profile,
          aliases |-> IF edit.op = "alias" THEN c.aliases \cup {edit.alias}
                      ELSE c.aliases \ {edit.alias},
          audit |-> c.audit]

Added(m, d) ==
    IF m = NoFile THEN Declares({d[1]}, {d})
    ELSE [tables |-> m.tables \cup {d[1]}, pairs |-> m.pairs \cup {d}]

\* A file is emptied before it is filled.  What another one put there
\* meanwhile is written over, its end left standing if it is longer.
Over(now, empty, text) == {text} \cup (IF now = empty THEN {} ELSE {Torn})

-----------------------------------------------------------------------------
(* The audit log is a sequence of pieces: texts, halves of texts and ends  *)
(* of lines, each of size one.                                             *)

Text(id) == [by |-> id[1], seq |-> id[2], whole |-> TRUE]
Half(id) == [Text(id) EXCEPT !.whole = FALSE]
EndOfLine == [by |-> 0, seq |-> 0, whole |-> TRUE]
LineSize == 2

\* A cap of zero is no cap one could mean.
Limit == IF Cap = 0 THEN DefaultCap ELSE Cap

Id(piece) == <<piece.by, piece.seq>>
Ids(pieces) == {Id(p) : p \in Range(pieces) \ {EndOfLine}}

\* The text at i has a line to itself.
Alone(i) ==
    /\ i > 1 => log[i - 1] = EndOfLine
    /\ i < Len(log) => log[i + 1] = EndOfLine

\* `audit` drops the lines that are not JSON.
Shown == {Id(log[i]) : i \in {j \in 1..Len(log) : log[j] # EndOfLine /\ log[j].whole /\ Alone(j)}}

-----------------------------------------------------------------------------
Idle == [step |-> "idle"]

Process(t) == session[ProcessOf[t]]
Free(t) == task[t] = Idle
IsAt(t, step) == task[t].step = step
Does(t, next) == task' = [task EXCEPT ![t] = next]
Step(t, step) == task' = [task EXCEPT ![t].step = step]
Done(t) == Does(t, Idle)

Spends(op) == left[op] > 0 /\ left' = [left EXCEPT ![op] = @ - 1]
Fault == trouble < MaxTrouble /\ trouble' = trouble + 1

Init ==
    /\ manifest \in {NoFile, Declares({"default"}, {})}
    /\ \E c \in {NoFile, Blank, [Blank EXCEPT !.aliases = Aliases, !.audit = "off"]} :
           \/ config = c /\ legacy = NoFile
           \/ config = NoFile /\ legacy = c
    /\ log = <<>> /\ traced = {} /\ excused = {}
    /\ session = [p \in Processes |-> None]
    /\ task = [t \in Threads |-> Idle]
    /\ left \in Budgets /\ trouble = 0
    /\ asked = [manifest |-> manifest, config |-> Settings]
    /\ halfway = {} /\ crossed = {}

-----------------------------------------------------------------------------
(* Loading the settings, on macOS with the move from where they were.      *)

Loads(t, job) ==
    /\ Free(t)
    /\ Does(t, [step |-> "load", job |-> job, base |-> manifest])

\* Secrets::load reads the manifest before the settings.
Open(t) ==
    /\ Process(t) = None
    /\ \A u \in Threads : ProcessOf[u] = ProcessOf[t] => Free(u)
    /\ manifest \notin {NoFile, Torn}
    /\ Spends("open")
    /\ Loads(t, [op |-> "open", id |-> left["open"]])
    /\ UNCHANGED <<files, trail, session, trouble, ghosts>>

EditConfig(t) ==
    /\ Spends("edit")
    /\ \E edit \in Edits : Loads(t, edit)
    /\ UNCHANGED <<files, trail, session, trouble, ghosts>>

Opened(t, logs) ==
    session' = [session EXCEPT ![ProcessOf[t]] =
                   [id |-> task[t].job.id, manifest |-> task[t].base,
                    logs |-> logs, seq |-> 0, lock |-> None]]

\* The settings were read as c; what cannot be parsed fails the command.
Loaded(t, c) ==
    LET job == task[t].job
    IN \/ c = Torn /\ Done(t) /\ UNCHANGED session
       \/ c # Torn /\ job.op = "open" /\ Opened(t, Logs(OrBlank(c))) /\ Done(t)
       \/ /\ c # Torn /\ job.op # "open"
          /\ IF Saves(job, c)
             THEN Does(t, [step |-> "save", edit |-> job, base |-> OrBlank(c)])
             ELSE Done(t)
          /\ UNCHANGED session

\* Mutant of LoadConfig: where macOS kept the settings is not looked at.
LoadNewOnly(t) ==
    /\ IsAt(t, "load")
    /\ Loaded(t, config)
    /\ UNCHANGED <<files, trail, left, trouble, ghosts>>

LoadConfig(t) ==
    /\ IsAt(t, "load")
    /\ config # NoFile \/ legacy = NoFile
    /\ Loaded(t, config)
    /\ UNCHANGED <<files, trail, left, trouble, ghosts>>

\* Where the log cannot be created or opened the session goes without one.
OpenUnlogged(t) ==
    /\ IsAt(t, "load")
    /\ task[t].job.op = "open"
    /\ config # Torn /\ (config # NoFile \/ legacy = NoFile)
    /\ Logs(OrBlank(config))
    /\ Fault
    /\ Opened(t, FALSE)
    /\ Done(t)
    /\ UNCHANGED <<files, trail, left, ghosts>>

Migrate(t) ==
    /\ IsAt(t, "load")
    /\ config = NoFile /\ legacy # NoFile
    /\ Step(t, "copy")
    /\ UNCHANGED <<files, trail, session, left, trouble, ghosts>>

\* The copy creates the new file before it fills it.  Where it cannot, the
\* old file is read once more.
CopyCreates(t) ==
    /\ IsAt(t, "copy")
    /\ \/ /\ legacy # NoFile
          /\ config' = Blank
          /\ halfway' = halfway \cup {"config"}
          /\ Does(t, [step |-> "fill", job |-> task[t].job, base |-> task[t].base,
                      text |-> legacy])
          /\ UNCHANGED <<session, trouble>>
       \/ /\ IF legacy = NoFile THEN UNCHANGED trouble ELSE Fault
          /\ Loaded(t, legacy)
          /\ UNCHANGED <<config, halfway>>
    /\ UNCHANGED <<manifest, legacy, trail, left, asked, crossed>>

CopyFills(t) ==
    /\ IsAt(t, "fill")
    /\ LET text == task[t].text
       IN \/ /\ config' \in Over(config, Blank, text)
             /\ halfway' = halfway \ {"config"}
             /\ crossed' = crossed \cup
                    (IF text = asked.config /\ config = Blank THEN {} ELSE {"config"})
             /\ Step(t, "backup")
             /\ UNCHANGED <<session, trouble>>
          \/ /\ Fault
             /\ config' \in CutConfig(text)
             /\ halfway' = halfway \cup {"config"}
             /\ Loaded(t, legacy)
             /\ UNCHANGED crossed
    /\ UNCHANGED <<manifest, legacy, trail, left, asked>>

\* A failed rename leaves the old file beside the new one.
CopyEnds(t) ==
    /\ IsAt(t, "backup")
    /\ \/ legacy' = NoFile /\ UNCHANGED trouble
       \/ Fault /\ UNCHANGED legacy
    /\ Loaded(t, config)
    /\ UNCHANGED <<manifest, config, trail, left, ghosts>>

-----------------------------------------------------------------------------
(* Saving the settings: fs::write empties the file, then fills it.         *)

SaveEmpties(t) ==
    /\ IsAt(t, "save")
    /\ \/ /\ config' = Blank
          /\ halfway' = halfway \cup {"config"}
          /\ Step(t, "write")
          /\ UNCHANGED trouble
       \/ Fault /\ Done(t) /\ UNCHANGED <<config, halfway>>
    /\ UNCHANGED <<manifest, legacy, trail, session, left, asked, crossed>>

SaveFills(t) ==
    /\ IsAt(t, "write")
    /\ LET edit == task[t].edit
           text == Apply(edit, task[t].base)
       IN \/ /\ config' \in Over(config, Blank, text)
             /\ asked' = [asked EXCEPT !.config = Meant(edit, @)]
             /\ halfway' = halfway \ {"config"}
             /\ crossed' = crossed \cup
                    (IF task[t].base = asked.config /\ config = Blank THEN {} ELSE {"config"})
             /\ UNCHANGED trouble
          \/ /\ Fault
             /\ config' \in CutConfig(text)
             /\ halfway' = halfway \cup {"config"}
             /\ UNCHANGED <<asked, crossed>>
    /\ Done(t)
    /\ UNCHANGED <<manifest, legacy, trail, session, left>>

\* The user edits the file by hand to turn the audit log on, off or elsewhere.
EditByHand ==
    /\ config \notin {NoFile, Torn}
    /\ Spends("hand")
    /\ \E a \in {None, "off", "relative"} \ {config.audit} :
           /\ config' = [config EXCEPT !.audit = a]
           /\ asked' = [asked EXCEPT !.config.audit = a]
    /\ UNCHANGED <<manifest, legacy, trail, session, task, trouble, halfway, crossed>>

-----------------------------------------------------------------------------
(* Editing the manifest.                                                   *)

\* add checks against the manifest as it was loaded, then asks for a
\* description.
StartAdd(t, profile, name) ==
    /\ Process(t) # None /\ Free(t)
    /\ Spends("add")
    /\ profile \in Known(Process(t).manifest)
    /\ name \notin Effective(Process(t).manifest, profile)
    /\ Does(t, [step |-> "describe", adds |-> <<profile, name>>])
    /\ UNCHANGED <<files, trail, session, trouble, ghosts>>

\* It reads the file once more and edits that text.
AddReads(t) ==
    /\ IsAt(t, "describe")
    /\ IF manifest \in {NoFile, Torn} \/ task[t].adds \in manifest.pairs THEN Done(t)
       ELSE Does(t, [step |-> "replace", adds |-> task[t].adds, base |-> manifest])
    /\ UNCHANGED <<files, trail, session, left, trouble, ghosts>>

AddTo(m, d) == Declares(m.tables \cup {d[1]}, m.pairs \cup {d})

\* A temporary file is written and renamed over the manifest; an init that
\* has the old file open writes to a file no one sees.
AddReplaces(t) ==
    LET text == AddTo(task[t].base, task[t].adds)
    IN /\ IsAt(t, "replace")
       /\ manifest' = text
       /\ asked' = [asked EXCEPT !.manifest = Added(@, task[t].adds)]
       /\ halfway' = halfway \ {"manifest"}
       /\ crossed' = crossed \cup
              (IF task[t].base = asked.manifest THEN {} ELSE {"manifest"})
       /\ task' = [u \in Threads |->
                      IF u = t THEN Idle
                      ELSE IF IsAt(u, "initialize") THEN [task[u] EXCEPT !.orphan = TRUE]
                      ELSE task[u]]
       /\ UNCHANGED <<config, legacy, trail, session, left, trouble>>

AddFails(t) ==
    /\ IsAt(t, "replace")
    /\ Fault
    /\ Done(t)
    /\ UNCHANGED <<files, trail, session, left, ghosts>>

\* init asks before it overwrites a manifest it sees.
StartInit(t) ==
    /\ Free(t)
    /\ Spends("init")
    /\ Does(t, [step |-> "reflect", saw |-> manifest])
    /\ UNCHANGED <<files, trail, session, trouble, ghosts>>

Generated(profile, found) == Declares({profile}, {profile} \X found)

\* What the provider holds becomes the declarations of one profile.
InitEmpties(t, profile, found) ==
    /\ IsAt(t, "reflect")
    /\ \/ /\ manifest' = Torn
          /\ halfway' = halfway \cup {"manifest"}
          /\ Does(t, [step |-> "initialize", saw |-> task[t].saw, orphan |-> FALSE,
                      text |-> Generated(profile, found)])
          /\ UNCHANGED trouble
       \/ Fault /\ Done(t) /\ UNCHANGED <<manifest, halfway>>
    /\ UNCHANGED <<config, legacy, trail, session, left, asked, crossed>>

InitFills(t) ==
    /\ IsAt(t, "initialize")
    /\ LET now == task[t]
       IN \/ /\ manifest' \in IF now.orphan THEN {manifest} ELSE Over(manifest, Torn, now.text)
             /\ asked' = [asked EXCEPT !.manifest = now.text]
             /\ halfway' = halfway \ {"manifest"}
             /\ crossed' = crossed \cup
                    (IF now.saw = asked.manifest /\ ~now.orphan /\ manifest = Torn THEN {}
                     ELSE {"manifest"})
             /\ UNCHANGED trouble
          \/ /\ Fault
             /\ manifest' \in IF now.orphan THEN {manifest} ELSE CutManifest(now.text)
             /\ halfway' = halfway \cup {"manifest"}
             /\ UNCHANGED <<asked, crossed>>
    /\ Done(t)
    /\ UNCHANGED <<config, legacy, trail, session, left>>

-----------------------------------------------------------------------------
(* The audit log.                                                          *)

\* An operation ends in one event, also where the policy refuses it or it
\* fails.  The event is numbered before the file is locked.
Record(t) ==
    LET p == ProcessOf[t]
    IN /\ Free(t)
       /\ session[p] # None
       /\ session[p].logs
       /\ Spends("record")
       /\ Does(t, [step |-> "measure", id |-> <<session[p].id, session[p].seq>>])
       /\ session' = [session EXCEPT ![p].seq = @ + 1]
       /\ UNCHANGED <<files, trail, trouble, ghosts>>

Unlocks(t) == session' = [session EXCEPT ![ProcessOf[t]].lock = None]

\* Mutant of Measure: no lock.
MeasureUnlocked(t) ==
    /\ IsAt(t, "measure")
    /\ Step(t, IF log # <<>> /\ Len(log) + LineSize > Limit THEN "reset" ELSE "text")
    /\ UNCHANGED <<files, trail, session, left, trouble, ghosts>>

\* Under the lock, which is the process's own, the size decides whether the
\* log starts over; a size that cannot be read does not.
Measure(t) ==
    /\ IsAt(t, "measure")
    /\ Process(t).lock = None
    /\ session' = [session EXCEPT ![ProcessOf[t]].lock = t]
    /\ \/ /\ Step(t, IF log # <<>> /\ Len(log) + LineSize > Limit THEN "reset" ELSE "text")
          /\ UNCHANGED <<trouble, excused>>
       \/ Fault /\ Step(t, "text") /\ excused' = excused \cup {task[t].id}
    /\ UNCHANGED <<files, log, traced, left, ghosts>>

Reset(t) ==
    /\ IsAt(t, "reset")
    /\ \/ log' = <<>> /\ excused' = excused \cup Ids(log) /\ UNCHANGED trouble
       \/ Fault /\ excused' = excused \cup {task[t].id} /\ UNCHANGED log
    /\ Step(t, "text")
    /\ UNCHANGED <<files, traced, session, left, ghosts>>

\* writeln! appends the text and the end of the line in two calls; a failure
\* is announced and the rest left out.
Unwritten(t) ==
    /\ Fault
    /\ excused' = excused \cup {task[t].id}
    /\ Unlocks(t)
    /\ Done(t)

WriteText(t) ==
    /\ IsAt(t, "text")
    /\ \/ log' = Append(log, Text(task[t].id)) /\ Step(t, "end")
          /\ UNCHANGED <<session, trouble, excused>>
       \/ log' \in {log, Append(log, Half(task[t].id))} /\ Unwritten(t)
    /\ UNCHANGED <<files, traced, left, ghosts>>

WriteEnd(t) ==
    /\ IsAt(t, "end")
    /\ \/ /\ log' = Append(log, EndOfLine)
          /\ traced' = traced \cup {task[t].id}
          /\ Unlocks(t)
          /\ Done(t)
          /\ UNCHANGED <<trouble, excused>>
       \/ Unwritten(t) /\ UNCHANGED <<log, traced>>
    /\ UNCHANGED <<files, left, ghosts>>

-----------------------------------------------------------------------------
Close(p) ==
    /\ session[p] # None
    /\ \A t \in Threads : ProcessOf[t] = p => Free(t)
    /\ session' = [session EXCEPT ![p] = None]
    /\ UNCHANGED <<files, trail, task, left, trouble, ghosts>>

\* A killed process drops its locks and leaves the files as they are.
Crash(p) ==
    /\ \E t \in Threads : ProcessOf[t] = p /\ ~Free(t)
    /\ Fault
    /\ session' = [session EXCEPT ![p] = None]
    /\ task' = [t \in Threads |-> IF ProcessOf[t] = p THEN Idle ELSE task[t]]
    /\ UNCHANGED <<files, trail, left, ghosts>>

Next ==
    \/ \E t \in Threads :
           \/ Open(t) \/ EditConfig(t) \/ LoadConfig(t) \/ OpenUnlogged(t)
           \/ Migrate(t) \/ CopyCreates(t) \/ CopyFills(t) \/ CopyEnds(t)
           \/ SaveEmpties(t) \/ SaveFills(t)
           \/ \E profile \in Profiles, name \in Secrets : StartAdd(t, profile, name)
           \/ AddReads(t) \/ AddReplaces(t) \/ AddFails(t)
           \/ StartInit(t)
           \/ \E profile \in Profiles, found \in SUBSET Secrets : InitEmpties(t, profile, found)
           \/ InitFills(t)
           \/ Record(t) \/ Measure(t) \/ Reset(t) \/ WriteText(t) \/ WriteEnd(t)
    \/ \E p \in Processes : Close(p) \/ Crash(p)
    \/ EditByHand

Spec == Init /\ [][Next]_vars

-----------------------------------------------------------------------------
(* Properties.                                                             *)

Jobs == Edits \cup [op : {"open"}, id : Nat]
EventIds == Nat \X Nat
Pieces == [by : Nat, seq : Nat, whole : BOOLEAN]
Logging == {"measure", "reset", "text", "end"}

Tasks ==
    {Idle}
    \cup [step : {"load", "copy"}, job : Jobs, base : Manifests \cup {NoFile, Torn}]
    \cup [step : {"fill", "backup"}, job : Jobs, base : Manifests \cup {NoFile, Torn},
          text : Configs]
    \cup [step : {"save", "write"}, edit : Edits, base : Configs]
    \cup [step : {"describe"}, adds : Profiles \X Secrets]
    \cup [step : {"replace"}, adds : Profiles \X Secrets, base : Manifests]
    \cup [step : {"reflect"}, saw : Manifests \cup {NoFile, Torn}]
    \cup [step : {"initialize"}, saw : Manifests \cup {NoFile, Torn}, orphan : BOOLEAN,
          text : Manifests]
    \cup [step : Logging, id : EventIds]

\* Every variable stays in its type; what commands ask for is never torn.
TypeOK ==
    /\ manifest \in Manifests \cup {NoFile, Torn}
    /\ config \in Configs \cup {NoFile, Torn} /\ legacy \in Configs \cup {NoFile}
    /\ log \in Seq(Pieces)
    /\ traced \subseteq EventIds /\ excused \subseteq EventIds
    /\ session \in [Processes -> Sessions \cup {None}]
    /\ task \in [Threads -> Tasks]
    /\ left \in [{"open", "edit", "hand", "add", "init", "record"} -> Nat]
    /\ trouble \in Nat
    /\ asked \in [manifest : Manifests \cup {NoFile}, config : Configs]
    /\ halfway \subseteq {"manifest", "config"} /\ crossed \subseteq {"manifest", "config"}

(***************************************************************************)
(* The manifest and the settings are what the completed commands ask for,  *)
(* one after the other: adding a secret keeps the others declared, saving  *)
(* a preference or an alias keeps the aliases and the [audit] table, and   *)
(* moving the settings keeps all of them.  Two things break it, and        *)
(* nothing else: a file written in place (by init, the settings commands   *)
(* or the move) that was cut short, and an edit begun from a text another  *)
(* one has replaced since.  add is never the cause of the first.           *)
(***************************************************************************)
FilesAsAsked ==
    /\ "manifest" \notin halfway \cup crossed => manifest = asked.manifest
    /\ "config" \notin halfway \cup crossed => Settings = asked.config

(***************************************************************************)
(* A session started while the user has auditing off writes no audit log,  *)
(* and one started while it is on does.  It is otherwise only where the    *)
(* settings it reads are half written (an empty file turns auditing on),   *)
(* were lost to a crossed edit, or are being moved by another process at   *)
(* the same time (it then reads the old place, or finds nothing there), or *)
(* where the log cannot be opened.                                         *)
(***************************************************************************)
Starting(p) == session[p] = None /\ session'[p] # None

MovedBefore(p) ==
    /\ config # NoFile \/ legacy = NoFile
    /\ \E t \in Threads : ProcessOf[t] = p /\ task[t].step \in {"copy", "fill"}

QuietIsKept ==
    [][\A p \in Processes : Starting(p) =>
           \/ session'[p].logs = Logs(asked.config)
           \/ "config" \in halfway \cup crossed
           \/ MovedBefore(p)
           \/ trouble' # trouble /\ ~session'[p].logs]_vars

(***************************************************************************)
(* The log outgrows its cap by no more than one line for each other        *)
(* process, all of which may have measured it before the first one wrote,  *)
(* and one for each reset that failed.                                     *)
(***************************************************************************)
LogIsBounded ==
    Len(log) <= (IF Limit < LineSize THEN LineSize ELSE Limit)
                    + LineSize * (Cardinality(Processes) - 1 + trouble)

\* What shares the line of the text at i.
Beside(i) == {log[j] : j \in ({i - 1, i + 1} \cap 1..Len(log))} \ {EndOfLine}

(***************************************************************************)
(* An event whose recording returned can be read back, unless it was       *)
(* dropped by a reset or its loss announced; where it cannot, its line     *)
(* also holds text of another session, or text whose writing failed: the   *)
(* threads of one process never spoil each other's lines.                  *)
(***************************************************************************)
TracesLast ==
    \A id \in traced \ (excused \cup Shown) :
        \E i \in 1..Len(log) :
            /\ log[i] = Text(id)
            /\ \E other \in Beside(i) :
                   other.by # id[1] \/ ~other.whole \/ Id(other) \in excused

(***************************************************************************)
(* The audit log stays within its bound and keeps what it was given: the   *)
(* cap is never bought with an event that is neither reset nor announced.  *)
(***************************************************************************)
LogKeeps == LogIsBounded /\ TracesLast

(***************************************************************************)
(* "It never contains a partially written entry": every line is the text   *)
(* of one event.                                                           *)
(***************************************************************************)
LinesAreWhole == trouble = 0 => traced \subseteq Shown \cup excused

\* "Set enabled = false to turn it off."
OffIsOff ==
    [][\A p \in Processes : Starting(p) /\ trouble = 0 =>
           (session'[p].logs => Logs(asked.config))]_vars

\* "Re-running config init must not silently drop a user's [audit] table, or
\* their saved provider aliases."
SettingsSurvive == trouble = 0 /\ "config" \notin halfway => Settings = asked.config
=============================================================================
