-------------------------- MODULE UserFiles_proofs --------------------------
(***************************************************************************)
(* Proofs about UserFiles for any processes, threads, profiles, secrets,   *)
(* aliases, caps and budgets: the types, that the manifest and settings    *)
(* are what the completed commands ask for unless an overwriting was cut   *)
(* short or an edit crossed another, that a session logs or keeps quiet as *)
(* its user asked, and that the audit log is bounded and keeps its events. *)
(***************************************************************************)
EXTENDS UserFiles, FiniteSetTheorems, TLAPS

LoadSteps == {"load", "copy", "fill", "backup"}

(* Who writes into config.toml has created it, nothing removes it, who      *)
(* starts a program has read a manifest, and who records has a session.     *)
Steps ==
    \A t \in Threads :
        /\ task[t].step \in {"fill", "backup", "write"} => config # NoFile
        /\ task[t].step \in LoadSteps /\ task[t].job.op = "open" => task[t].base \in Manifests
        /\ task[t].step \in Logging => session[ProcessOf[t]] # None

Inv == TypeOK /\ Steps /\ FilesAsAsked

LEMMA Constants ==
    /\ Blank \in Configs /\ Blank # NoFile /\ Blank # Torn
    /\ Idle \in Tasks /\ Idle.step = "idle"
    /\ Declares({"default"}, {}) \in Manifests
    /\ ProcessOf \in [Threads -> Processes]
    /\ \A c \in Configs : c # NoFile /\ c # Torn
    /\ \A m \in Manifests : m # NoFile /\ m # Torn
<1>1. Blank \in Configs BY DEF Blank, Configs
<1>2. Idle \in Tasks BY DEF Tasks
<1>3. Idle.step = "idle" BY DEF Idle
<1>4. Declares({"default"}, {}) \in Manifests BY AbsenceIsTold DEF Declares, Manifests
<1> QED BY <1>1, <1>2, <1>3, <1>4, AbsenceIsTold, ThreadsRun

(* What the steps of a thread carry.                                        *)
LEMMA Carried ==
    ASSUME NEW r \in Tasks
    PROVE  /\ r.step \in {"load", "copy"} =>
                r \in [step : {"load", "copy"}, job : Jobs, base : Manifests \cup {NoFile, Torn}]
           /\ r.step \in {"fill", "backup"} =>
                r \in [step : {"fill", "backup"}, job : Jobs,
                       base : Manifests \cup {NoFile, Torn}, text : Configs]
           /\ r.step \in {"save", "write"} =>
                r \in [step : {"save", "write"}, edit : Edits, base : Configs]
           /\ r.step = "describe" => r \in [step : {"describe"}, adds : Profiles \X Secrets]
           /\ r.step = "replace" =>
                r \in [step : {"replace"}, adds : Profiles \X Secrets, base : Manifests]
           /\ r.step = "reflect" =>
                r \in [step : {"reflect"}, saw : Manifests \cup {NoFile, Torn}]
           /\ r.step = "initialize" =>
                r \in [step : {"initialize"}, saw : Manifests \cup {NoFile, Torn},
                       orphan : BOOLEAN, text : Manifests]
           /\ r.step \in Logging => r \in [step : Logging, id : EventIds]
BY DEF Tasks, Idle, Logging

(* A step of a thread that only goes on within its kind.                    *)
LEMMA GoesOn ==
    ASSUME NEW r \in Tasks
    PROVE  /\ r.step = "load" => /\ [r EXCEPT !.step = "copy"] \in Tasks
                                 /\ [r EXCEPT !.step = "copy"].step = "copy"
                                 /\ [r EXCEPT !.step = "copy"].job = r.job
                                 /\ [r EXCEPT !.step = "copy"].base = r.base
           /\ r.step = "fill" => /\ [r EXCEPT !.step = "backup"] \in Tasks
                                 /\ [r EXCEPT !.step = "backup"].step = "backup"
                                 /\ [r EXCEPT !.step = "backup"].job = r.job
                                 /\ [r EXCEPT !.step = "backup"].base = r.base
           /\ r.step = "save" => /\ [r EXCEPT !.step = "write"] \in Tasks
                                 /\ [r EXCEPT !.step = "write"].step = "write"
           /\ \A s \in Logging : r.step \in Logging =>
                /\ [r EXCEPT !.step = s] \in Tasks
                /\ [r EXCEPT !.step = s].step = s
           /\ r.step = "initialize" =>
                /\ [r EXCEPT !.orphan = TRUE] \in Tasks
                /\ [r EXCEPT !.orphan = TRUE].step = "initialize"
<1>1. ASSUME r.step = "load" PROVE /\ [r EXCEPT !.step = "copy"] \in Tasks
                                 /\ [r EXCEPT !.step = "copy"].step = "copy"
                                 /\ [r EXCEPT !.step = "copy"].job = r.job
                                 /\ [r EXCEPT !.step = "copy"].base = r.base
  <2>1. r \in [step : {"load", "copy"}, job : Jobs, base : Manifests \cup {NoFile, Torn}]
    BY <1>1, Carried
  <2> QED BY <2>1 DEF Tasks
<1>2. ASSUME r.step = "fill" PROVE /\ [r EXCEPT !.step = "backup"] \in Tasks
                                 /\ [r EXCEPT !.step = "backup"].step = "backup"
                                 /\ [r EXCEPT !.step = "backup"].job = r.job
                                 /\ [r EXCEPT !.step = "backup"].base = r.base
  <2>1. r \in [step : {"fill", "backup"}, job : Jobs, base : Manifests \cup {NoFile, Torn},
               text : Configs]
    BY <1>2, Carried
  <2> QED BY <2>1 DEF Tasks
<1>3. ASSUME r.step = "save" PROVE /\ [r EXCEPT !.step = "write"] \in Tasks
                                 /\ [r EXCEPT !.step = "write"].step = "write"
  <2>1. r \in [step : {"save", "write"}, edit : Edits, base : Configs] BY <1>3, Carried
  <2> QED BY <2>1 DEF Tasks
<1>4. ASSUME NEW s \in Logging, r.step \in Logging
      PROVE  /\ [r EXCEPT !.step = s] \in Tasks
             /\ [r EXCEPT !.step = s].step = s
  <2>1. r \in [step : Logging, id : EventIds] BY <1>4, Carried
  <2> QED BY <2>1 DEF Tasks
<1>5. ASSUME r.step = "initialize" PROVE /\ [r EXCEPT !.orphan = TRUE] \in Tasks
                                       /\ [r EXCEPT !.orphan = TRUE].step = "initialize"
  <2>1. r \in [step : {"initialize"}, saw : Manifests \cup {NoFile, Torn},
               orphan : BOOLEAN, text : Manifests]
    BY <1>5, Carried
  <2> QED BY <2>1 DEF Tasks
<1> QED BY <1>1, <1>2, <1>3, <1>4, <1>5

LEMMA Moves ==
    ASSUME Inv, NEW t \in Threads, NEW r \in Tasks, task' = [task EXCEPT ![t] = r],
           \A p \in Processes : session[p] # None => session'[p] # None,
           config # NoFile => config' # NoFile,
           r.step \in {"fill", "backup", "write"} => config' # NoFile,
           r.step \in LoadSteps /\ r.job.op = "open" => r.base \in Manifests,
           r.step \in Logging => session'[ProcessOf[t]] # None
    PROVE  task' \in [Threads -> Tasks] /\ Steps'
<1>1. task' \in [Threads -> Tasks] BY DEF Inv, TypeOK
<1>2. \A u \in Threads : task'[u] = IF u = t THEN r ELSE task[u] BY DEF Inv, TypeOK
<1>3. Steps' BY <1>2, Constants DEF Inv, Steps
<1> QED BY <1>1, <1>3

(* A thread that ends its command.                                          *)
LEMMA Ends ==
    ASSUME Inv, NEW t \in Threads, Done(t),
           \A p \in Processes : session[p] # None => session'[p] # None,
           config # NoFile => config' # NoFile
    PROVE  task' \in [Threads -> Tasks] /\ Steps'
BY Moves, Constants DEF Done, Does, LoadSteps, Logging

(* The settings are there, and the command goes on with them or ends.       *)
LEMMA LoadedOn ==
    ASSUME Inv, NEW t \in Threads, NEW c \in Configs \cup {NoFile, Torn},
           task[t].step \in LoadSteps, Loaded(t, c), config # NoFile => config' # NoFile
    PROVE  /\ task' \in [Threads -> Tasks] /\ Steps'
           /\ session' \in [Processes -> Sessions \cup {None}]
<1>1. /\ task[t] \in Tasks /\ task[t].job \in Jobs
      /\ task[t].base \in Manifests \cup {NoFile, Torn}
  <2>1. task[t] \in Tasks BY DEF Inv, TypeOK
  <2>2. CASE task[t].step \in {"load", "copy"}
    <3>1. task[t] \in [step : {"load", "copy"}, job : Jobs, base : Manifests \cup {NoFile, Torn}]
      BY <2>1, <2>2, Carried
    <3> QED BY <2>1, <3>1
  <2>3. CASE task[t].step \in {"fill", "backup"}
    <3>1. task[t] \in [step : {"fill", "backup"}, job : Jobs,
                       base : Manifests \cup {NoFile, Torn}, text : Configs]
      BY <2>1, <2>3, Carried
    <3> QED BY <2>1, <3>1
  <2> QED BY <2>2, <2>3 DEF LoadSteps
<1>2. ProcessOf[t] \in Processes BY ThreadsRun
<1>3. session \in [Processes -> Sessions \cup {None}] BY DEF Inv, TypeOK
<1>4. CASE Done(t) /\ UNCHANGED session BY <1>3, <1>4, Ends
<1>5. CASE c # Torn /\ task[t].job.op = "open" /\ Opened(t, Logs(OrBlank(c))) /\ Done(t)
  <2>1. task[t].base \in Manifests BY <1>5 DEF Inv, Steps
  <2>2. task[t].job.id \in Nat BY <1>1, <1>5 DEF Jobs, Edits
  <2> DEFINE s == [id |-> task[t].job.id, manifest |-> task[t].base,
                   logs |-> Logs(OrBlank(c)), seq |-> 0, lock |-> None]
  <2>3. Logs(OrBlank(c)) \in BOOLEAN BY DEF Logs
  <2>4. s \in Sessions BY <2>1, <2>2, <2>3 DEF Sessions
  <2>5. session' = [session EXCEPT ![ProcessOf[t]] = s] BY <1>5 DEF Opened
  <2> HIDE DEF s
  <2>6. session' \in [Processes -> Sessions \cup {None}] BY <1>2, <1>3, <2>4, <2>5
  <2>7. \A p \in Processes : session[p] # None => session'[p] # None
    BY <1>2, <1>3, <2>4, <2>5, AbsenceIsTold
  <2> QED BY <1>5, <2>6, <2>7, Ends
<1>6. CASE /\ c # Torn /\ task[t].job.op # "open"
           /\ IF Saves(task[t].job, c)
              THEN Does(t, [step |-> "save", edit |-> task[t].job, base |-> OrBlank(c)])
              ELSE Done(t)
           /\ UNCHANGED session
  <2>1. CASE Done(t) BY <1>3, <1>6, <2>1, Ends
  <2>2. CASE Does(t, [step |-> "save", edit |-> task[t].job, base |-> OrBlank(c)])
    <3> DEFINE r == [step |-> "save", edit |-> task[t].job, base |-> OrBlank(c)]
    <3>1. task[t].job \in Edits BY <1>1, <1>6 DEF Jobs
    <3>2. OrBlank(c) \in Configs BY <1>6, Constants DEF OrBlank
    <3>3. r \in Tasks /\ r.step = "save" BY <3>1, <3>2 DEF Tasks
    <3>4. task' = [task EXCEPT ![t] = r] BY <2>2 DEF Does
    <3> HIDE DEF r
    <3> QED BY <1>3, <1>6, <3>3, <3>4, Moves DEF LoadSteps, Logging
  <2> QED BY <1>6, <2>1, <2>2
<1> QED BY <1>4, <1>5, <1>6 DEF Loaded

(* What leaves the files and what was asked of them alone.                  *)
LEMMA Same == ASSUME FilesAsAsked, UNCHANGED files, UNCHANGED ghosts PROVE FilesAsAsked'
BY DEF FilesAsAsked, Settings, files, ghosts

LEMMA InitInv == Init => Inv
<1> SUFFICES ASSUME Init PROVE Inv OBVIOUS
<1>1. /\ manifest \in Manifests \cup {NoFile}
      /\ config \in Configs \cup {NoFile} /\ legacy \in Configs \cup {NoFile}
  <2>1. [Blank EXCEPT !.aliases = Aliases, !.audit = "off"] \in Configs
    BY DEF Blank, Configs
  <2> QED BY <2>1, Constants DEF Init
<1>2. Settings \in Configs BY <1>1, Constants DEF Settings
<1>3. TypeOK
  <2>1. log \in Seq(Pieces) BY DEF Init
  <2>2. session \in [Processes -> Sessions \cup {None}] BY DEF Init
  <2>3. task \in [Threads -> Tasks] BY Constants DEF Init
  <2>4. left \in [{"open", "edit", "hand", "add", "init", "record"} -> Nat]
    BY CountsAreNatural DEF Init
  <2> QED BY <1>1, <1>2, <2>1, <2>2, <2>3, <2>4 DEF Init, TypeOK
<1>4. Steps BY Constants DEF Init, Steps, LoadSteps, Logging
<1>5. FilesAsAsked BY DEF Init, FilesAsAsked
<1> QED BY <1>3, <1>4, <1>5 DEF Inv

LEMMA Spending ==
    ASSUME TypeOK, NEW op \in {"open", "edit", "hand", "add", "init", "record"}, Spends(op)
    PROVE  left' \in [{"open", "edit", "hand", "add", "init", "record"} -> Nat]
BY DEF TypeOK, Spends

LEMMA LoadsInv ==
    ASSUME Inv, NEW t \in Threads, NEW job \in Jobs, Loads(t, job),
           job.op = "open" => manifest \in Manifests,
           left' \in [{"open", "edit", "hand", "add", "init", "record"} -> Nat],
           UNCHANGED <<files, trail, session, trouble, ghosts>>
    PROVE  Inv'
<1> DEFINE r == [step |-> "load", job |-> job, base |-> manifest]
<1>1. r \in Tasks /\ r.step = "load" /\ r.job = job /\ r.base = manifest
  BY DEF Inv, TypeOK, Tasks
<1>2. task' = [task EXCEPT ![t] = r] BY DEF Loads, Does
<1> HIDE DEF r
<1>3. task' \in [Threads -> Tasks] /\ Steps'
  BY <1>1, <1>2, Moves DEF files, LoadSteps, Logging
<1>4. TypeOK' BY <1>3 DEF Inv, TypeOK, files, trail, ghosts
<1> QED BY <1>3, <1>4, Same DEF Inv

LEMMA OpenInv == ASSUME Inv, NEW t \in Threads, Open(t) PROVE Inv'
<1> DEFINE job == [op |-> "open", id |-> left["open"]]
<1>1. job \in Jobs BY DEF Inv, TypeOK, Jobs
<1>2. manifest \in Manifests BY DEF Open, Inv, TypeOK
<1>3. Loads(t, job) BY DEF Open
<1>4. left' \in [{"open", "edit", "hand", "add", "init", "record"} -> Nat]
  BY Spending DEF Open, Inv
<1> HIDE DEF job
<1> QED BY <1>1, <1>2, <1>3, <1>4, LoadsInv DEF Open

LEMMA EditConfigInv == ASSUME Inv, NEW t \in Threads, EditConfig(t) PROVE Inv'
<1>1. PICK edit \in Edits : Loads(t, edit) BY DEF EditConfig
<1>2. edit \in Jobs /\ edit.op # "open" BY DEF Jobs, Edits
<1>3. left' \in [{"open", "edit", "hand", "add", "init", "record"} -> Nat]
  BY Spending DEF EditConfig, Inv
<1> QED BY <1>1, <1>2, <1>3, LoadsInv DEF EditConfig

LEMMA LoadConfigInv == ASSUME Inv, NEW t \in Threads, LoadConfig(t) PROVE Inv'
<1>1. /\ task' \in [Threads -> Tasks] /\ Steps'
      /\ session' \in [Processes -> Sessions \cup {None}]
  BY LoadedOn DEF Inv, TypeOK, LoadConfig, IsAt, LoadSteps, files
<1>2. TypeOK' BY <1>1 DEF Inv, TypeOK, LoadConfig, files, trail, ghosts
<1> QED BY <1>1, <1>2, Same DEF Inv, LoadConfig

LEMMA OpenUnloggedInv == ASSUME Inv, NEW t \in Threads, OpenUnlogged(t) PROVE Inv'
<1>1. task[t] \in Tasks BY DEF Inv, TypeOK
<1>2. task[t] \in [step : {"load", "copy"}, job : Jobs, base : Manifests \cup {NoFile, Torn}]
  BY <1>1, Carried DEF OpenUnlogged, IsAt
<1>3. task[t].base \in Manifests /\ task[t].job.id \in Nat
  <2>1. task[t].job \in Jobs /\ task[t].job.op = "open" BY <1>2 DEF OpenUnlogged
  <2> QED BY <2>1 DEF OpenUnlogged, IsAt, Inv, Steps, LoadSteps, Jobs, Edits
<1> DEFINE s == [id |-> task[t].job.id, manifest |-> task[t].base,
                 logs |-> FALSE, seq |-> 0, lock |-> None]
<1>4. s \in Sessions BY <1>3 DEF Sessions
<1>5. session' = [session EXCEPT ![ProcessOf[t]] = s] BY DEF OpenUnlogged, Opened
<1> HIDE DEF s
<1>6. /\ session' \in [Processes -> Sessions \cup {None}]
      /\ \A p \in Processes : session[p] # None => session'[p] # None
  BY <1>4, <1>5, ThreadsRun, AbsenceIsTold DEF Inv, TypeOK
<1>7. task' \in [Threads -> Tasks] /\ Steps'
  BY <1>6, Ends DEF OpenUnlogged, files
<1>8. TypeOK' BY <1>6, <1>7 DEF Inv, TypeOK, OpenUnlogged, Fault, files, trail, ghosts
<1> QED BY <1>7, <1>8, Same DEF Inv, OpenUnlogged

LEMMA MigrateInv == ASSUME Inv, NEW t \in Threads, Migrate(t) PROVE Inv'
<1> DEFINE r == [task[t] EXCEPT !.step = "copy"]
<1>1. task[t] \in Tasks /\ task[t].step = "load" BY DEF Inv, TypeOK, Migrate, IsAt
<1>2. r \in Tasks /\ r.step = "copy" /\ r.job = task[t].job /\ r.base = task[t].base
  BY <1>1, GoesOn
<1>3. task' = [task EXCEPT ![t] = r]
  BY DEF Migrate, Step, Inv, TypeOK
<1> HIDE DEF r
<1>4. task' \in [Threads -> Tasks] /\ Steps'
  BY <1>1, <1>2, <1>3, Moves DEF Migrate, files, LoadSteps, Logging, Inv, Steps
<1>5. TypeOK' BY <1>4 DEF Inv, TypeOK, Migrate, files, trail, ghosts
<1> QED BY <1>4, <1>5, Same DEF Inv, Migrate

(* Types of what is written.                                                *)
LEMMA Written ==
    ASSUME NEW c \in Configs, NEW now \in Configs \cup {Torn}
    PROVE  /\ CutConfig(c) \subseteq Configs \cup {Torn}
           /\ Over(now, Blank, c) \subseteq Configs \cup {Torn}
           /\ now = Blank => Over(now, Blank, c) = {c}
<1>1. CutConfig(c) \subseteq Configs \cup {Torn}
  <2>1. Blank \in Configs BY Constants
  <2>2. [Blank EXCEPT !.provider = c.provider] \in Configs BY <2>1 DEF Configs
  <2>3. [c EXCEPT !.aliases = {}, !.audit = None] \in Configs BY DEF Configs
  <2>4. [c EXCEPT !.audit = None] \in Configs BY DEF Configs
  <2> QED BY <2>1, <2>2, <2>3, <2>4 DEF CutConfig
<1> QED BY <1>1 DEF Over

LEMMA CutManifestType ==
    ASSUME NEW m \in Manifests
    PROVE  CutManifest(m) \subseteq Manifests \cup {Torn}
BY DEF CutManifest, Manifests

LEMMA CopyCreatesInv == ASSUME Inv, NEW t \in Threads, CopyCreates(t) PROVE Inv'
<1>1. task[t] \in Tasks /\ task[t].step = "copy" BY DEF Inv, TypeOK, CopyCreates, IsAt
<1>2. task[t] \in [step : {"load", "copy"}, job : Jobs, base : Manifests \cup {NoFile, Torn}]
  BY <1>1, Carried
<1>3. ASSUME legacy # NoFile, config' = Blank, halfway' = halfway \cup {"config"},
             Does(t, [step |-> "fill", job |-> task[t].job, base |-> task[t].base,
                      text |-> legacy]),
             UNCHANGED <<session, trouble>>,
             UNCHANGED <<manifest, legacy, trail, left, asked, crossed>>
      PROVE  Inv'
  <2> DEFINE r == [step |-> "fill", job |-> task[t].job, base |-> task[t].base,
                   text |-> legacy]
  <2>1. r \in Tasks /\ r.step = "fill" /\ r.job = task[t].job /\ r.base = task[t].base
    BY <1>2, <1>3 DEF Inv, TypeOK, Tasks
  <2>2. task' = [task EXCEPT ![t] = r] BY <1>3 DEF Does
  <2>3. r.job.op = "open" => r.base \in Manifests
    BY <1>1, <2>1 DEF Inv, Steps, LoadSteps
  <2> HIDE DEF r
  <2>4. task' \in [Threads -> Tasks] /\ Steps'
    BY <1>3, <2>1, <2>2, <2>3, Moves, Constants DEF LoadSteps, Logging
  <2>5. TypeOK' BY <1>3, <2>4, Constants DEF Inv, TypeOK, trail
  <2>6. FilesAsAsked' BY <1>3 DEF Inv, FilesAsAsked
  <2> QED BY <2>4, <2>5, <2>6 DEF Inv
<1>4. ASSUME Loaded(t, legacy), UNCHANGED <<config, halfway>>, trouble' \in Nat,
             UNCHANGED <<manifest, legacy, trail, left, asked, crossed>>
      PROVE  Inv'
  <2>1. /\ task' \in [Threads -> Tasks] /\ Steps'
        /\ session' \in [Processes -> Sessions \cup {None}]
    BY <1>1, <1>4, LoadedOn DEF Inv, TypeOK, LoadSteps
  <2>2. TypeOK' BY <1>4, <2>1 DEF Inv, TypeOK, trail
  <2> QED BY <1>4, <2>1, <2>2, Same DEF Inv, files, ghosts
<1>5. UNCHANGED trouble \/ Fault => trouble' \in Nat BY DEF Inv, TypeOK, Fault
<1> QED BY <1>3, <1>4, <1>5 DEF CopyCreates

LEMMA CopyFillsInv == ASSUME Inv, NEW t \in Threads, CopyFills(t) PROVE Inv'
<1>1. task[t] \in Tasks /\ task[t].step = "fill" BY DEF Inv, TypeOK, CopyFills, IsAt
<1>2. /\ task[t] \in [step : {"fill", "backup"}, job : Jobs,
                      base : Manifests \cup {NoFile, Torn}, text : Configs]
      /\ config \in Configs \cup {Torn}
  BY <1>1, Carried DEF Inv, TypeOK, Steps
<1> DEFINE text == task[t].text
<1>3. text \in Configs BY <1>2
<1> HIDE DEF text
<1>4. ASSUME config' \in Over(config, Blank, text), halfway' = halfway \ {"config"},
             crossed' = crossed \cup
                (IF text = asked.config /\ config = Blank THEN {} ELSE {"config"}),
             Step(t, "backup"), UNCHANGED <<session, trouble>>,
             UNCHANGED <<manifest, legacy, trail, left, asked>>
      PROVE  Inv'
  <2> DEFINE r == [task[t] EXCEPT !.step = "backup"]
  <2>1. r \in Tasks /\ r.step = "backup" /\ r.job = task[t].job /\ r.base = task[t].base
    BY <1>1, GoesOn
  <2>2. task' = [task EXCEPT ![t] = r] BY <1>4 DEF Step, Inv, TypeOK
  <2>3. r.job.op = "open" => r.base \in Manifests
    BY <1>1, <2>1 DEF Inv, Steps, LoadSteps
  <2> HIDE DEF r
  <2>4. config' \in Configs \cup {Torn} BY <1>2, <1>3, <1>4, Written
  <2>5. config' # NoFile BY <2>4, Constants, AbsenceIsTold
  <2>6. task' \in [Threads -> Tasks] /\ Steps'
    BY <1>4, <2>1, <2>2, <2>3, <2>5, Moves DEF LoadSteps, Logging
  <2>7. TypeOK' BY <1>4, <2>4, <2>6 DEF Inv, TypeOK, trail
  <2>8. "config" \notin halfway' \cup crossed' => Settings' = asked'.config
    BY <1>2, <1>3, <1>4, <2>5, Written DEF Settings
  <2>9. FilesAsAsked' BY <1>4, <2>8 DEF Inv, FilesAsAsked
  <2> QED BY <2>6, <2>7, <2>9 DEF Inv
<1>5. ASSUME Fault, config' \in CutConfig(text), halfway' = halfway \cup {"config"},
             Loaded(t, legacy), UNCHANGED crossed,
             UNCHANGED <<manifest, legacy, trail, left, asked>>
      PROVE  Inv'
  <2>1. config' \in Configs \cup {Torn} BY <1>2, <1>3, <1>5, Written
  <2>2. config' # NoFile BY <2>1, Constants, AbsenceIsTold
  <2>3. /\ task' \in [Threads -> Tasks] /\ Steps'
        /\ session' \in [Processes -> Sessions \cup {None}]
    BY <1>1, <1>5, <2>2, LoadedOn DEF Inv, TypeOK, LoadSteps
  <2>4. TypeOK' BY <1>5, <2>1, <2>3 DEF Inv, TypeOK, trail, Fault
  <2>5. FilesAsAsked' BY <1>5 DEF Inv, FilesAsAsked
  <2> QED BY <2>3, <2>4, <2>5 DEF Inv
<1> QED BY <1>4, <1>5 DEF CopyFills, text

LEMMA CopyEndsInv == ASSUME Inv, NEW t \in Threads, CopyEnds(t) PROVE Inv'
<1>1. task[t].step = "backup" /\ config # NoFile
  BY DEF CopyEnds, IsAt, Inv, Steps
<1>2. /\ task' \in [Threads -> Tasks] /\ Steps'
      /\ session' \in [Processes -> Sessions \cup {None}]
  BY <1>1, LoadedOn DEF Inv, TypeOK, CopyEnds, LoadSteps
<1>3. legacy' \in Configs \cup {NoFile} /\ trouble' \in Nat
  BY DEF CopyEnds, Fault, Inv, TypeOK
<1>4. TypeOK' BY <1>2, <1>3 DEF Inv, TypeOK, CopyEnds, trail, ghosts
<1>5. FilesAsAsked' BY <1>1 DEF Inv, FilesAsAsked, CopyEnds, Settings, ghosts
<1> QED BY <1>2, <1>4, <1>5 DEF Inv

(* An edit does what the user is told it does.                              *)
LEMMA EditsDoAsTold ==
    ASSUME NEW edit \in Edits, NEW c \in Configs
    PROVE  Apply(edit, c) = Meant(edit, c) /\ Apply(edit, c) \in Configs
<1>1. CASE edit \in [op : {"init"}, provider : Providers, profile : Profiles \cup {None}]
  <2>1. edit.op = "init" /\ Apply(edit, c) = Prefer(edit, c) BY <1>1 DEF Apply
  <2> QED BY <1>1, <2>1 DEF Prefer, Meant, Configs
<1>2. CASE edit \in [op : {"alias"}, alias : Aliases]
  <2>1. edit.op = "alias" /\ Apply(edit, c) = AddAlias(edit, c) BY <1>2 DEF Apply
  <2> QED BY <1>2, <2>1 DEF AddAlias, Meant, Configs
<1>3. CASE edit \in [op : {"remove"}, alias : Aliases]
  <2>1. edit.op = "remove" /\ Apply(edit, c) = RemoveAlias(edit, c) BY <1>3 DEF Apply
  <2> QED BY <1>3, <2>1 DEF RemoveAlias, Meant, Configs
<1> QED BY <1>1, <1>2, <1>3 DEF Edits

LEMMA SaveEmptiesInv == ASSUME Inv, NEW t \in Threads, SaveEmpties(t) PROVE Inv'
<1>1. task[t] \in Tasks /\ task[t].step = "save" BY DEF Inv, TypeOK, SaveEmpties, IsAt
<1>2. CASE config' = Blank /\ halfway' = halfway \cup {"config"} /\ Step(t, "write")
           /\ UNCHANGED trouble
  <2> DEFINE r == [task[t] EXCEPT !.step = "write"]
  <2>1. r \in Tasks /\ r.step = "write" BY <1>1, GoesOn
  <2>2. task' = [task EXCEPT ![t] = r] BY <1>2 DEF Step, Inv, TypeOK
  <2> HIDE DEF r
  <2>3. task' \in [Threads -> Tasks] /\ Steps'
    BY <1>2, <2>1, <2>2, Moves, Constants DEF SaveEmpties, LoadSteps, Logging
  <2>4. TypeOK' BY <1>2, <2>3, Constants DEF Inv, TypeOK, SaveEmpties, trail
  <2>5. FilesAsAsked' BY <1>2 DEF Inv, FilesAsAsked, SaveEmpties
  <2> QED BY <2>3, <2>4, <2>5 DEF Inv
<1>3. CASE Fault /\ Done(t) /\ UNCHANGED <<config, halfway>>
  <2>1. task' \in [Threads -> Tasks] /\ Steps' BY <1>3, Ends DEF SaveEmpties
  <2>2. TypeOK' BY <1>3, <2>1 DEF Inv, TypeOK, SaveEmpties, trail, Fault
  <2> QED BY <1>3, <2>1, <2>2, Same DEF Inv, SaveEmpties, files, ghosts
<1> QED BY <1>2, <1>3 DEF SaveEmpties

LEMMA SaveFillsInv == ASSUME Inv, NEW t \in Threads, SaveFills(t) PROVE Inv'
<1> DEFINE edit == task[t].edit
           text == Apply(edit, task[t].base)
<1>1. /\ task[t] \in Tasks /\ task[t].step = "write"
      /\ config \in Configs \cup {Torn} /\ asked.config \in Configs
  BY DEF Inv, TypeOK, Steps, SaveFills, IsAt
<1>2. task[t] \in [step : {"save", "write"}, edit : Edits, base : Configs] BY <1>1, Carried
<1>3. /\ text \in Configs /\ edit \in Edits
      /\ task[t].base = asked.config => text = Meant(edit, asked.config)
      /\ Meant(edit, asked.config) \in Configs
  BY <1>1, <1>2, EditsDoAsTold
<1>4. CASE /\ config' \in Over(config, Blank, text)
           /\ asked' = [asked EXCEPT !.config = Meant(edit, @)]
           /\ halfway' = halfway \ {"config"}
           /\ crossed' = crossed \cup
                  (IF task[t].base = asked.config /\ config = Blank THEN {} ELSE {"config"})
           /\ UNCHANGED trouble
  <2>1. config' \in Configs \cup {Torn} BY <1>1, <1>3, <1>4, Written
  <2>2. config' # NoFile BY <2>1, Constants, AbsenceIsTold
  <2>3. task' \in [Threads -> Tasks] /\ Steps' BY <1>4, <2>2, Ends DEF SaveFills
  <2>4. /\ asked' \in [manifest : Manifests \cup {NoFile}, config : Configs]
        /\ asked'.manifest = asked.manifest /\ asked'.config = Meant(edit, asked.config)
    BY <1>3, <1>4 DEF Inv, TypeOK
  <2>5. TypeOK' BY <1>4, <2>1, <2>3, <2>4 DEF Inv, TypeOK, SaveFills, trail
  <2>6. "config" \notin halfway' \cup crossed' => Settings' = asked'.config
    BY <1>1, <1>3, <1>4, <2>2, <2>4, Written DEF Settings
  <2>7. FilesAsAsked' BY <1>4, <2>4, <2>6 DEF Inv, FilesAsAsked, SaveFills
  <2> QED BY <2>3, <2>5, <2>7 DEF Inv
<1>5. CASE /\ Fault /\ config' \in CutConfig(text) /\ halfway' = halfway \cup {"config"}
           /\ UNCHANGED <<asked, crossed>>
  <2>1. config' \in Configs \cup {Torn} BY <1>1, <1>3, <1>5, Written
  <2>2. config' # NoFile BY <2>1, Constants, AbsenceIsTold
  <2>3. task' \in [Threads -> Tasks] /\ Steps' BY <1>5, <2>2, Ends DEF SaveFills
  <2>4. TypeOK' BY <1>5, <2>1, <2>3 DEF Inv, TypeOK, SaveFills, trail, Fault
  <2>5. FilesAsAsked' BY <1>5 DEF Inv, FilesAsAsked, SaveFills
  <2> QED BY <2>3, <2>4, <2>5 DEF Inv
<1> QED BY <1>4, <1>5 DEF SaveFills

LEMMA EditByHandInv == ASSUME Inv, EditByHand PROVE Inv'
<1>1. PICK a \in {None, "off", "relative"} :
          /\ config' = [config EXCEPT !.audit = a]
          /\ asked' = [asked EXCEPT !.config.audit = a]
  BY DEF EditByHand
<1>2. config \in Configs /\ asked.config \in Configs BY DEF Inv, TypeOK, EditByHand
<1>3. /\ config' \in Configs /\ config' # NoFile
      /\ asked' \in [manifest : Manifests \cup {NoFile}, config : Configs]
      /\ asked'.manifest = asked.manifest
      /\ asked'.config = [asked.config EXCEPT !.audit = a]
  BY <1>1, <1>2, Constants DEF Inv, TypeOK, Configs
<1>4. left' \in [{"open", "edit", "hand", "add", "init", "record"} -> Nat]
  BY Spending DEF EditByHand, Inv
<1>5. TypeOK' BY <1>3, <1>4 DEF Inv, TypeOK, EditByHand, trail
<1>6. Steps' BY <1>3 DEF Inv, Steps, EditByHand
<1>7. FilesAsAsked'
  BY <1>1, <1>2, <1>3, Constants DEF Inv, FilesAsAsked, EditByHand, Settings
<1> QED BY <1>5, <1>6, <1>7 DEF Inv

(* A thread goes on with r and the files stay as they are.                  *)
LEMMA GoesOnQuietly ==
    ASSUME Inv, NEW t \in Threads, NEW r \in Tasks, task' = [task EXCEPT ![t] = r],
           r.step \in {"idle", "describe", "replace", "reflect"},
           left' \in [{"open", "edit", "hand", "add", "init", "record"} -> Nat],
           trouble' \in Nat,
           UNCHANGED <<files, trail, session, ghosts>>
    PROVE  Inv'
<1>1. task' \in [Threads -> Tasks] /\ Steps'
  BY Moves DEF files, LoadSteps, Logging
<1>2. TypeOK' BY <1>1 DEF Inv, TypeOK, files, trail, ghosts
<1> QED BY <1>1, <1>2, Same DEF Inv

(* A command that fails before it changes a file.                           *)
LEMMA Fails ==
    ASSUME Inv, NEW t \in Threads, Fault, Done(t),
           UNCHANGED <<files, trail, session, left, ghosts>>
    PROVE  Inv'
<1>1. trouble' \in Nat BY DEF Fault, Inv, TypeOK
<1>2. task' = [task EXCEPT ![t] = Idle] BY DEF Done, Does
<1>3. left' \in [{"open", "edit", "hand", "add", "init", "record"} -> Nat]
  BY DEF Inv, TypeOK
<1> QED BY <1>1, <1>2, <1>3, GoesOnQuietly, Constants

LEMMA StartAddInv ==
    ASSUME Inv, NEW t \in Threads, NEW profile \in Profiles, NEW name \in Secrets,
           StartAdd(t, profile, name)
    PROVE  Inv'
<1> DEFINE r == [step |-> "describe", adds |-> <<profile, name>>]
<1>1. r \in Tasks /\ r.step = "describe" BY DEF Tasks
<1>2. task' = [task EXCEPT ![t] = r] BY DEF StartAdd, Does
<1>3. left' \in [{"open", "edit", "hand", "add", "init", "record"} -> Nat]
  BY Spending DEF StartAdd, Inv
<1> HIDE DEF r
<1> QED BY <1>1, <1>2, <1>3, GoesOnQuietly DEF StartAdd, Inv, TypeOK

LEMMA AddReadsInv == ASSUME Inv, NEW t \in Threads, AddReads(t) PROVE Inv'
<1>1. task[t] \in Tasks /\ task[t].step = "describe" BY DEF Inv, TypeOK, AddReads, IsAt
<1>2. task[t] \in [step : {"describe"}, adds : Profiles \X Secrets] BY <1>1, Carried
<1>3. CASE Done(t)
  BY <1>3, GoesOnQuietly, Constants DEF AddReads, Done, Does, Inv, TypeOK
<1>4. CASE /\ manifest \notin {NoFile, Torn}
           /\ Does(t, [step |-> "replace", adds |-> task[t].adds, base |-> manifest])
  <2> DEFINE r == [step |-> "replace", adds |-> task[t].adds, base |-> manifest]
  <2>1. r \in Tasks /\ r.step = "replace" BY <1>2, <1>4 DEF Tasks, Inv, TypeOK
  <2>2. task' = [task EXCEPT ![t] = r] BY <1>4 DEF Does
  <2> HIDE DEF r
  <2> QED BY <2>1, <2>2, GoesOnQuietly DEF AddReads, Inv, TypeOK
<1> QED BY <1>3, <1>4 DEF AddReads

LEMMA AddReplacesInv == ASSUME Inv, NEW t \in Threads, AddReplaces(t) PROVE Inv'
<1> DEFINE text == AddTo(task[t].base, task[t].adds)
<1>1. task[t] \in Tasks /\ task[t].step = "replace" BY DEF Inv, TypeOK, AddReplaces, IsAt
<1>2. task[t] \in [step : {"replace"}, adds : Profiles \X Secrets, base : Manifests]
  BY <1>1, Carried
<1>3. /\ text \in Manifests
      /\ task[t].base = asked.manifest => text = Added(asked.manifest, task[t].adds)
  <2>1. task[t].base \in Manifests /\ task[t].adds \in Profiles \X Secrets BY <1>2
  <2> QED BY <2>1, Constants DEF AddTo, Added, Declares, Manifests
<1>4. /\ asked' \in [manifest : Manifests \cup {NoFile}, config : Configs]
      /\ asked'.manifest = Added(asked.manifest, task[t].adds)
      /\ asked'.config = asked.config
  <2>1. asked \in [manifest : Manifests \cup {NoFile}, config : Configs]
    BY DEF Inv, TypeOK
  <2>2. task[t].adds \in Profiles \X Secrets BY <1>2
  <2>3. asked' = [asked EXCEPT !.manifest = Added(asked.manifest, task[t].adds)]
    BY <2>1 DEF AddReplaces
  <2>4. Added(asked.manifest, task[t].adds) \in Manifests
    BY <2>1, <2>2 DEF Added, Declares, Manifests
  <2> QED BY <2>1, <2>3, <2>4
<1>5. task' \in [Threads -> Tasks] /\ Steps'
  <2> DEFINE next(u) == IF u = t THEN Idle
                        ELSE IF IsAt(u, "initialize") THEN [task[u] EXCEPT !.orphan = TRUE]
                        ELSE task[u]
  <2>1. ASSUME NEW u \in Threads
        PROVE  /\ next(u) \in Tasks
               /\ next(u) = task[u] \/ next(u).step \in {"idle", "initialize"}
    BY GoesOn, Constants DEF Inv, TypeOK, IsAt
  <2>2. task' = [u \in Threads |-> next(u)] BY DEF AddReplaces
  <2>3. UNCHANGED <<config, session>> BY DEF AddReplaces
  <2> HIDE DEF next
  <2> QED BY <2>1, <2>2, <2>3 DEF Inv, Steps, LoadSteps, Logging
<1>6. TypeOK' BY <1>3, <1>4, <1>5 DEF Inv, TypeOK, AddReplaces, trail
<1>7. FilesAsAsked' BY <1>3, <1>4 DEF Inv, FilesAsAsked, AddReplaces, Settings
<1> QED BY <1>5, <1>6, <1>7 DEF Inv

LEMMA AddFailsInv == ASSUME Inv, NEW t \in Threads, AddFails(t) PROVE Inv'
BY Fails DEF AddFails

LEMMA StartInitInv == ASSUME Inv, NEW t \in Threads, StartInit(t) PROVE Inv'
<1> DEFINE r == [step |-> "reflect", saw |-> manifest]
<1>1. r \in Tasks /\ r.step = "reflect" BY DEF Tasks, Inv, TypeOK
<1>2. task' = [task EXCEPT ![t] = r] BY DEF StartInit, Does
<1>3. left' \in [{"open", "edit", "hand", "add", "init", "record"} -> Nat]
  BY Spending DEF StartInit, Inv
<1> HIDE DEF r
<1> QED BY <1>1, <1>2, <1>3, GoesOnQuietly DEF StartInit, Inv, TypeOK

LEMMA InitEmptiesInv ==
    ASSUME Inv, NEW t \in Threads, NEW profile \in Profiles, NEW found \in SUBSET Secrets,
           InitEmpties(t, profile, found)
    PROVE  Inv'
<1>1. task[t] \in Tasks /\ task[t].step = "reflect" BY DEF Inv, TypeOK, InitEmpties, IsAt
<1>2. task[t] \in [step : {"reflect"}, saw : Manifests \cup {NoFile, Torn}] BY <1>1, Carried
<1>3. CASE /\ manifest' = Torn /\ halfway' = halfway \cup {"manifest"}
           /\ Does(t, [step |-> "initialize", saw |-> task[t].saw, orphan |-> FALSE,
                       text |-> Generated(profile, found)])
           /\ UNCHANGED trouble
  <2> DEFINE r == [step |-> "initialize", saw |-> task[t].saw, orphan |-> FALSE,
                   text |-> Generated(profile, found)]
  <2>1. Generated(profile, found) \in Manifests
    BY DEF Generated, Declares, Manifests
  <2>2. r \in Tasks /\ r.step = "initialize" BY <1>2, <2>1 DEF Tasks
  <2>3. task' = [task EXCEPT ![t] = r] BY <1>3 DEF Does
  <2> HIDE DEF r
  <2>4. task' \in [Threads -> Tasks] /\ Steps'
    BY <2>2, <2>3, Moves DEF InitEmpties, LoadSteps, Logging
  <2>5. TypeOK' BY <1>3, <2>4 DEF Inv, TypeOK, InitEmpties, trail
  <2>6. FilesAsAsked' BY <1>3 DEF Inv, FilesAsAsked, InitEmpties, Settings
  <2> QED BY <2>4, <2>5, <2>6 DEF Inv
<1>4. CASE Fault /\ Done(t) /\ UNCHANGED <<manifest, halfway>>
  BY <1>4, Fails DEF InitEmpties, files, ghosts
<1> QED BY <1>3, <1>4 DEF InitEmpties

LEMMA InitFillsInv == ASSUME Inv, NEW t \in Threads, InitFills(t) PROVE Inv'
<1> DEFINE now == task[t]
<1>1. task[t] \in Tasks /\ task[t].step = "initialize" BY DEF Inv, TypeOK, InitFills, IsAt
<1>2. task[t] \in [step : {"initialize"}, saw : Manifests \cup {NoFile, Torn},
                   orphan : BOOLEAN, text : Manifests]
  BY <1>1, Carried
<1>3. /\ now.text \in Manifests /\ CutManifest(now.text) \subseteq Manifests \cup {Torn}
      /\ asked \in [manifest : Manifests \cup {NoFile}, config : Configs]
  BY <1>2, CutManifestType DEF Inv, TypeOK
<1>4. task' \in [Threads -> Tasks] /\ Steps' BY Ends DEF InitFills
<1>5. CASE /\ manifest' \in IF now.orphan THEN {manifest} ELSE Over(manifest, Torn, now.text)
           /\ asked' = [asked EXCEPT !.manifest = now.text]
           /\ halfway' = halfway \ {"manifest"}
           /\ crossed' = crossed \cup
                  (IF now.saw = asked.manifest /\ ~now.orphan /\ manifest = Torn THEN {}
                   ELSE {"manifest"})
           /\ UNCHANGED trouble
  <2> HIDE DEF now
  <2>1. /\ asked' \in [manifest : Manifests \cup {NoFile}, config : Configs]
        /\ asked'.manifest = now.text /\ asked'.config = asked.config
    BY <1>3, <1>5
  <2>2. manifest' \in Manifests \cup {NoFile, Torn}
    BY <1>3, <1>5 DEF Over, Inv, TypeOK
  <2>3. TypeOK' BY <1>4, <1>5, <2>1, <2>2 DEF Inv, TypeOK, InitFills, trail
  <2>4. FilesAsAsked' BY <1>5, <2>1 DEF Inv, FilesAsAsked, InitFills, Over, Settings
  <2> QED BY <1>4, <2>3, <2>4 DEF Inv
<1>6. CASE /\ Fault
           /\ manifest' \in IF now.orphan THEN {manifest} ELSE CutManifest(now.text)
           /\ halfway' = halfway \cup {"manifest"}
           /\ UNCHANGED <<asked, crossed>>
  <2> HIDE DEF now
  <2>1. manifest' \in Manifests \cup {NoFile, Torn} BY <1>3, <1>6 DEF Inv, TypeOK
  <2>2. TypeOK' BY <1>4, <1>6, <2>1 DEF Inv, TypeOK, InitFills, trail, Fault
  <2>3. FilesAsAsked' BY <1>6 DEF Inv, FilesAsAsked, InitFills, Settings
  <2> QED BY <1>4, <2>2, <2>3 DEF Inv
<1> QED BY <1>5, <1>6 DEF InitFills

(* What changes a session leaves it one.                                    *)
LEMMA SessionsGoOn ==
    ASSUME Inv, NEW p \in Processes, session[p] # None, NEW s \in Sessions,
           session' = [session EXCEPT ![p] = s]
    PROVE  /\ session' \in [Processes -> Sessions \cup {None}]
           /\ \A q \in Processes : session[q] # None => session'[q] # None
BY AbsenceIsTold DEF Inv, TypeOK

LEMMA Relocked ==
    ASSUME NEW s \in Sessions, NEW u \in Threads \cup {None}
    PROVE  [s EXCEPT !.lock = u] \in Sessions /\ [s EXCEPT !.seq = @ + 1] \in Sessions
BY DEF Sessions

LEMMA LogTypes ==
    ASSUME NEW id \in EventIds
    PROVE  {Text(id), Half(id), EndOfLine} \subseteq Pieces
<1>1. id[1] \in Nat /\ id[2] \in Nat BY DEF EventIds
<1>2. Text(id) \in Pieces BY <1>1 DEF Text, Pieces
<1>3. Half(id) \in Pieces BY <1>1 DEF Text, Half, Pieces
<1>4. EndOfLine \in Pieces BY DEF EndOfLine, Pieces
<1> QED BY <1>2, <1>3, <1>4

LEMMA IdTypes ==
    ASSUME NEW pieces \in Seq(Pieces)
    PROVE  Ids(pieces) \subseteq EventIds
<1>1. Range(pieces) \subseteq Pieces BY DEF Range
<1>2. \A piece \in Pieces : Id(piece) \in EventIds BY DEF Id, EventIds, Pieces
<1> QED BY <1>1, <1>2 DEF Ids

(* A thread at work on the log goes on with r.                              *)
LEMMA LogStep ==
    ASSUME Inv, NEW t \in Threads, NEW r \in Tasks, task' = [task EXCEPT ![t] = r],
           r.step \in Logging \cup {"idle"},
           r.step \in Logging => session[ProcessOf[t]] # None,
           session' \in [Processes -> Sessions \cup {None}],
           \A p \in Processes : session[p] # None => session'[p] # None,
           log' \in Seq(Pieces),
           traced' \subseteq EventIds, excused' \subseteq EventIds,
           left' \in [{"open", "edit", "hand", "add", "init", "record"} -> Nat],
           trouble' \in Nat,
           UNCHANGED <<files, ghosts>>
    PROVE  Inv'
<1>1. ProcessOf[t] \in Processes BY ThreadsRun
<1>2. task' \in [Threads -> Tasks] /\ Steps'
  BY <1>1, Moves DEF files, LoadSteps, Logging
<1>3. TypeOK' BY <1>2 DEF Inv, TypeOK, files, ghosts
<1> QED BY <1>2, <1>3, Same DEF Inv

(* Where such a thread is.                                                  *)
LEMMA LogAt ==
    ASSUME Inv, NEW t \in Threads, task[t].step \in Logging
    PROVE  /\ task[t] \in Tasks /\ task[t].id \in EventIds
           /\ \A s \in Logging : Step(t, s) =>
                  /\ [task[t] EXCEPT !.step = s] \in Tasks
                  /\ [task[t] EXCEPT !.step = s].step = s
                  /\ task' = [task EXCEPT ![t] = [task[t] EXCEPT !.step = s]]
           /\ ProcessOf[t] \in Processes
           /\ session[ProcessOf[t]] \in Sessions /\ session[ProcessOf[t]] # None
<1>1. task[t] \in Tasks BY DEF Inv, TypeOK
<1>2. task[t] \in [step : Logging, id : EventIds] BY <1>1, Carried
<1>3. \A s \in Logging : Step(t, s) =>
                  /\ [task[t] EXCEPT !.step = s] \in Tasks
                  /\ [task[t] EXCEPT !.step = s].step = s
                  /\ task' = [task EXCEPT ![t] = [task[t] EXCEPT !.step = s]]
  BY <1>1, GoesOn DEF Step, Inv, TypeOK
<1>4. ProcessOf[t] \in Processes BY ThreadsRun
<1>5. session[ProcessOf[t]] \in Sessions /\ session[ProcessOf[t]] # None
  BY <1>4 DEF Inv, Steps, TypeOK
<1> QED BY <1>1, <1>2, <1>3, <1>4, <1>5

LEMMA RecordInv == ASSUME Inv, NEW t \in Threads, Record(t) PROVE Inv'
<1> DEFINE p == ProcessOf[t]
           r == [step |-> "measure", id |-> <<session[p].id, session[p].seq>>]
           s == [session[p] EXCEPT !.seq = @ + 1]
<1>1. p \in Processes /\ session[p] \in Sessions /\ session[p] # None
  BY ThreadsRun DEF Record, Inv, TypeOK
<1>2. r \in Tasks /\ r.step = "measure" BY <1>1 DEF Tasks, Logging, EventIds, Sessions
<1>3. s \in Sessions BY <1>1, Relocked
<1>4. task' = [task EXCEPT ![t] = r] BY DEF Record, Does
<1>5. session' = [session EXCEPT ![p] = s] BY DEF Record
<1>6. left' \in [{"open", "edit", "hand", "add", "init", "record"} -> Nat]
  BY Spending DEF Record, Inv
<1>7. UNCHANGED <<files, trail, trouble, ghosts>> BY DEF Record
<1> HIDE DEF r, s, p
<1>8. /\ session' \in [Processes -> Sessions \cup {None}]
      /\ \A q \in Processes : session[q] # None => session'[q] # None
  BY <1>1, <1>3, <1>5, SessionsGoOn
<1> QED BY <1>1, <1>2, <1>4, <1>6, <1>7, <1>8, LogStep DEF Inv, TypeOK, trail, Logging, p

LEMMA MeasureInv == ASSUME Inv, NEW t \in Threads, Measure(t) PROVE Inv'
<1>1. task[t].step = "measure" BY DEF Measure, IsAt
<1> DEFINE s == [session[ProcessOf[t]] EXCEPT !.lock = t]
<1>2. s \in Sessions BY <1>1, LogAt, Relocked DEF Logging
<1>3. session' = [session EXCEPT ![ProcessOf[t]] = s] BY DEF Measure
<1> HIDE DEF s
<1>4. /\ session' \in [Processes -> Sessions \cup {None}]
      /\ \A q \in Processes : session[q] # None => session'[q] # None
  BY <1>1, <1>2, <1>3, LogAt, SessionsGoOn DEF Logging
<1>5. PICK next \in {"reset", "text"} : Step(t, next) BY DEF Measure
<1>6. excused' \subseteq EventIds /\ trouble' \in Nat
  <2>1. task[t].id \in EventIds BY <1>1, LogAt DEF Logging
  <2> QED BY <2>1 DEF Measure, Fault, Inv, TypeOK
<1> DEFINE r == [task[t] EXCEPT !.step = next]
<1>7. r \in Tasks /\ r.step = next /\ task' = [task EXCEPT ![t] = r]
  BY <1>1, <1>5, LogAt DEF Logging
<1>8. UNCHANGED <<files, log, traced, left, ghosts>> BY DEF Measure
<1> HIDE DEF r
<1> QED BY <1>1, <1>4, <1>6, <1>7, <1>8, LogAt, LogStep DEF Inv, TypeOK, Logging

LEMMA ResetInv == ASSUME Inv, NEW t \in Threads, Reset(t) PROVE Inv'
<1>1. task[t].step = "reset" /\ Step(t, "text") BY DEF Reset, IsAt
<1> DEFINE r == [task[t] EXCEPT !.step = "text"]
<1>2. r \in Tasks /\ r.step = "text" /\ task' = [task EXCEPT ![t] = r]
  BY <1>1, LogAt DEF Logging
<1>3. /\ excused' \subseteq EventIds /\ trouble' \in Nat
      /\ log' \in Seq(Pieces)
  <2>1. task[t].id \in EventIds BY <1>1, LogAt DEF Logging
  <2>2. Ids(log) \subseteq EventIds BY IdTypes DEF Inv, TypeOK
  <2>3. <<>> \in Seq(Pieces) OBVIOUS
  <2>4. excused \subseteq EventIds /\ trouble \in Nat /\ log \in Seq(Pieces)
    BY DEF Inv, TypeOK
  <2>5. CASE log' = <<>> /\ excused' = excused \cup Ids(log) /\ UNCHANGED trouble
    BY <2>2, <2>3, <2>4, <2>5
  <2>6. CASE Fault /\ excused' = excused \cup {task[t].id} /\ UNCHANGED log
    BY <2>1, <2>4, <2>6 DEF Fault
  <2> QED BY <2>5, <2>6 DEF Reset
<1>4. UNCHANGED <<files, traced, session, left, ghosts>> BY DEF Reset
<1> HIDE DEF r
<1> QED BY <1>1, <1>2, <1>3, <1>4, LogAt, LogStep DEF Inv, TypeOK, Logging

(* The thread gives the lock back and ends.                                 *)
LEMMA Unlocked ==
    ASSUME Inv, NEW t \in Threads, task[t].step \in Logging, Unlocks(t), Done(t),
           log' \in Seq(Pieces),
           traced' \subseteq EventIds, excused' \subseteq EventIds, trouble' \in Nat,
           UNCHANGED <<files, left, ghosts>>
    PROVE  Inv'
<1> DEFINE s == [session[ProcessOf[t]] EXCEPT !.lock = None]
<1>1. s \in Sessions BY LogAt, Relocked
<1>2. session' = [session EXCEPT ![ProcessOf[t]] = s] BY DEF Unlocks
<1> HIDE DEF s
<1>3. /\ session' \in [Processes -> Sessions \cup {None}]
      /\ \A q \in Processes : session[q] # None => session'[q] # None
  BY <1>1, <1>2, LogAt, SessionsGoOn
<1>4. task' = [task EXCEPT ![t] = Idle] BY DEF Done, Does
<1> QED BY <1>3, <1>4, Constants, LogStep DEF Inv, TypeOK, Logging

LEMMA WriteTextInv == ASSUME Inv, NEW t \in Threads, WriteText(t) PROVE Inv'
<1>1. task[t].step \in Logging /\ task[t].id \in EventIds
  BY LogAt DEF WriteText, IsAt, Logging
<1>2. log' \in Seq(Pieces)
  <2>1. {Text(task[t].id), Half(task[t].id), EndOfLine} \subseteq Pieces BY <1>1, LogTypes
  <2>2. \A piece \in Pieces : Append(log, piece) \in Seq(Pieces) BY DEF Inv, TypeOK
  <2>3. log \in Seq(Pieces) BY DEF Inv, TypeOK
  <2> QED BY <2>1, <2>2, <2>3 DEF WriteText
<1>3. CASE Step(t, "end") /\ UNCHANGED <<session, trouble, excused>>
  <2> DEFINE r == [task[t] EXCEPT !.step = "end"]
  <2>1. r \in Tasks /\ r.step = "end" /\ task' = [task EXCEPT ![t] = r]
    BY <1>1, <1>3, LogAt DEF Logging
  <2>2. UNCHANGED <<files, traced, left, ghosts>> BY DEF WriteText
  <2> HIDE DEF r
  <2> QED BY <1>1, <1>2, <1>3, <2>1, <2>2, LogAt, LogStep DEF Inv, TypeOK, Logging
<1>4. CASE Unwritten(t)
  <2>1. excused' \subseteq EventIds /\ trouble' \in Nat
    BY <1>1, <1>4 DEF Unwritten, Fault, Inv, TypeOK
  <2>2. UNCHANGED <<files, traced, left, ghosts>> BY DEF WriteText
  <2> QED BY <1>1, <1>2, <1>4, <2>1, <2>2, Unlocked DEF Unwritten, Inv, TypeOK
<1> QED BY <1>3, <1>4 DEF WriteText

LEMMA WriteEndInv == ASSUME Inv, NEW t \in Threads, WriteEnd(t) PROVE Inv'
<1>1. task[t].step \in Logging /\ task[t].id \in EventIds
  BY LogAt DEF WriteEnd, IsAt, Logging
<1>2. log' \in Seq(Pieces)
  <2>1. {Text(task[t].id), Half(task[t].id), EndOfLine} \subseteq Pieces BY <1>1, LogTypes
  <2>2. \A piece \in Pieces : Append(log, piece) \in Seq(Pieces) BY DEF Inv, TypeOK
  <2>3. log \in Seq(Pieces) BY DEF Inv, TypeOK
  <2> QED BY <2>1, <2>2, <2>3 DEF WriteEnd
<1>3. /\ traced' \subseteq EventIds /\ excused' \subseteq EventIds /\ trouble' \in Nat
      /\ Unlocks(t) /\ Done(t)
  BY <1>1 DEF WriteEnd, Unwritten, Fault, Inv, TypeOK
<1> QED BY <1>1, <1>2, <1>3, Unlocked DEF WriteEnd

LEMMA CloseInv == ASSUME Inv, NEW p \in Processes, Close(p) PROVE Inv'
<1>1. \A t \in Threads : task[t].step \in Logging => ProcessOf[t] # p
  BY Constants DEF Close, Free, Idle, Logging
<1>2. TypeOK' BY DEF Inv, TypeOK, Close, files, trail, ghosts
<1>3. Steps' BY <1>1, ThreadsRun DEF Inv, TypeOK, Steps, Close, files
<1> QED BY <1>2, <1>3, Same DEF Inv, Close

LEMMA CrashInv == ASSUME Inv, NEW p \in Processes, Crash(p) PROVE Inv'
<1>1. TypeOK' BY Constants DEF Inv, TypeOK, Crash, Fault, files, trail, ghosts
<1>2. \A t \in Threads :
          IF ProcessOf[t] = p THEN task'[t].step = "idle"
          ELSE task'[t] = task[t] /\ session'[ProcessOf[t]] = session[ProcessOf[t]]
  BY Constants, ThreadsRun DEF Inv, TypeOK, Crash
<1>3. Steps' BY <1>2 DEF Inv, Steps, Crash, files, LoadSteps, Logging
<1> QED BY <1>1, <1>3, Same DEF Inv, Crash

LEMMA NextInv == ASSUME Inv, [Next]_vars PROVE Inv'
<1>1. CASE UNCHANGED vars
  <2>1. TypeOK' BY <1>1 DEF Inv, TypeOK, vars, files, trail, ghosts
  <2>2. Steps' BY <1>1 DEF Inv, Steps, vars, files
  <2> QED BY <1>1, <2>1, <2>2, Same DEF Inv, vars
<1>2. ASSUME NEW t \in Threads,
             \/ Open(t) \/ EditConfig(t) \/ LoadConfig(t) \/ OpenUnlogged(t)
             \/ Migrate(t) \/ CopyCreates(t) \/ CopyFills(t) \/ CopyEnds(t)
             \/ SaveEmpties(t) \/ SaveFills(t)
      PROVE  Inv'
  BY <1>2, OpenInv, EditConfigInv, LoadConfigInv, OpenUnloggedInv, MigrateInv, CopyCreatesInv,
     CopyFillsInv, CopyEndsInv, SaveEmptiesInv, SaveFillsInv
<1>3. ASSUME NEW t \in Threads,
             \/ \E profile \in Profiles, name \in Secrets : StartAdd(t, profile, name)
             \/ AddReads(t) \/ AddReplaces(t) \/ AddFails(t) \/ StartInit(t)
             \/ \E profile \in Profiles, found \in SUBSET Secrets :
                    InitEmpties(t, profile, found)
             \/ InitFills(t)
      PROVE  Inv'
  BY <1>3, StartAddInv, AddReadsInv, AddReplacesInv, AddFailsInv, StartInitInv, InitEmptiesInv,
     InitFillsInv
<1>4. ASSUME NEW t \in Threads,
             Record(t) \/ Measure(t) \/ Reset(t) \/ WriteText(t) \/ WriteEnd(t)
      PROVE  Inv'
  BY <1>4, RecordInv, MeasureInv, ResetInv, WriteTextInv, WriteEndInv
<1>5. ASSUME NEW p \in Processes, Close(p) \/ Crash(p) PROVE Inv'
  BY <1>5, CloseInv, CrashInv
<1> QED BY <1>1, <1>2, <1>3, <1>4, <1>5, EditByHandInv DEF Next

(***************************************************************************)
(* Every variable stays in its type: a session is never half opened, and   *)
(* no command goes on with a manifest or settings it could not parse.      *)
(***************************************************************************)
THEOREM TypeCorrect == Spec => []TypeOK
<1>1. Inv => TypeOK BY DEF Inv
<1> QED BY <1>1, InitInv, NextInv, PTL DEF Spec

(***************************************************************************)
(* The manifest and the settings are what the completed commands ask for,  *)
(* unless an overwriting in place was cut short or an edit began from a    *)
(* text replaced since (secrets.rs, config.rs and cli/mod.rs hold no lock  *)
(* on either file).                                                        *)
(***************************************************************************)
THEOREM FilesStayAsAsked == Spec => []FilesAsAsked
<1>1. Inv => FilesAsAsked BY DEF Inv
<1> QED BY <1>1, InitInv, NextInv, PTL DEF Spec

-----------------------------------------------------------------------------
(* Who starts a session, and from which settings.                           *)

Quiet(p) ==
    \/ session'[p].logs = Logs(asked.config)
    \/ "config" \in halfway \cup crossed
    \/ MovedBefore(p)
    \/ trouble' # trouble /\ ~session'[p].logs

LEMMA StartsAs ==
    ASSUME Inv, NEW t \in Threads, NEW c, Loaded(t, c), NEW p \in Processes, Starting(p)
    PROVE  p = ProcessOf[t] /\ session'[p].logs = Logs(OrBlank(c))
<1> DEFINE s == [id |-> task[t].job.id, manifest |-> task[t].base,
                 logs |-> Logs(OrBlank(c)), seq |-> 0, lock |-> None]
<1>1. session' = [session EXCEPT ![ProcessOf[t]] = s]
  BY DEF Loaded, Opened, Starting
<1>2. s.logs = Logs(OrBlank(c)) OBVIOUS
<1> HIDE DEF s
<1> QED BY <1>1, <1>2 DEF Starting, Inv, TypeOK

LEMMA AsAsked ==
    ASSUME Inv, "config" \notin halfway \cup crossed
    PROVE  /\ config # NoFile \/ legacy = NoFile => OrBlank(config) = asked.config
           /\ config = NoFile /\ legacy # NoFile => OrBlank(legacy) = asked.config
BY DEF Inv, FilesAsAsked, Settings, OrBlank

LEMMA NoStart ==
    ASSUME Inv, NEW p \in Processes, NEW s,
           UNCHANGED session
           \/ \E q \in Processes : session[q] # None /\ session' = [session EXCEPT ![q] = s]
    PROVE  ~Starting(p)
BY DEF Starting, Inv, TypeOK

LEMMA LogNoStart ==
    ASSUME Inv, NEW t \in Threads, NEW p \in Processes,
           Record(t) \/ Measure(t) \/ Reset(t) \/ WriteText(t) \/ WriteEnd(t)
    PROVE  ~Starting(p)
<1>1. PICK s : UNCHANGED session \/ session' = [session EXCEPT ![ProcessOf[t]] = s]
  BY DEF Record, Measure, Reset, WriteText, WriteEnd, Unwritten, Unlocks
<1>2. ProcessOf[t] \in Processes BY ThreadsRun
<1>3. session[ProcessOf[t]] # None
  BY LogAt DEF Record, Measure, Reset, WriteText, WriteEnd, IsAt, Logging
<1> QED BY <1>1, <1>2, <1>3, NoStart

LEMMA LoadQuiet ==
    ASSUME Inv, NEW t \in Threads, NEW p \in Processes, Starting(p),
           \/ LoadConfig(t) \/ OpenUnlogged(t)
           \/ CopyCreates(t) \/ CopyFills(t) \/ CopyEnds(t)
    PROVE  Quiet(p)
<1>1. CASE LoadConfig(t)
  BY <1>1, StartsAs, AsAsked DEF LoadConfig, Quiet
<1>2. CASE OpenUnlogged(t)
  <2> DEFINE s == [id |-> task[t].job.id, manifest |-> task[t].base,
                   logs |-> FALSE, seq |-> 0, lock |-> None]
  <2>1. session' = [session EXCEPT ![ProcessOf[t]] = s] /\ ~s.logs
    BY <1>2 DEF OpenUnlogged, Opened
  <2> HIDE DEF s
  <2>2. ~session'[p].logs BY <2>1 DEF Starting, Inv, TypeOK
  <2>3. trouble' # trouble BY <1>2 DEF OpenUnlogged, Fault, Inv, TypeOK
  <2> QED BY <2>2, <2>3 DEF Quiet
<1>3. CASE CopyCreates(t)
  <2>1. Loaded(t, legacy) /\ IsAt(t, "copy") BY <1>3 DEF CopyCreates, Starting
  <2>2. p = ProcessOf[t] /\ session'[p].logs = Logs(OrBlank(legacy)) BY <2>1, StartsAs
  <2>3. CASE config # NoFile \/ legacy = NoFile
    BY <2>1, <2>2, <2>3 DEF Quiet, MovedBefore, IsAt
  <2>4. CASE config = NoFile /\ legacy # NoFile BY <2>2, <2>4, AsAsked DEF Quiet
  <2> QED BY <2>3, <2>4
<1>4. CASE CopyFills(t)
  <2>1. Loaded(t, legacy) /\ IsAt(t, "fill") BY <1>4 DEF CopyFills, Starting
  <2>2. p = ProcessOf[t] BY <2>1, StartsAs
  <2>3. config # NoFile BY <2>1 DEF Inv, Steps, IsAt
  <2> QED BY <2>1, <2>2, <2>3 DEF Quiet, MovedBefore, IsAt
<1>5. CASE CopyEnds(t)
  <2>1. config # NoFile BY <1>5 DEF Inv, Steps, IsAt, CopyEnds
  <2>2. session'[p].logs = Logs(OrBlank(config)) BY <1>5, StartsAs DEF CopyEnds
  <2> QED BY <2>1, <2>2, AsAsked DEF Quiet
<1> QED BY <1>1, <1>2, <1>3, <1>4, <1>5

LEMMA NextQuiet ==
    ASSUME Inv, [Next]_vars, NEW p \in Processes, Starting(p)
    PROVE  Quiet(p)
<1>1. CASE UNCHANGED vars BY <1>1, NoStart DEF vars
<1>2. ASSUME NEW t \in Threads,
             \/ Open(t) \/ EditConfig(t) \/ Migrate(t) \/ SaveEmpties(t) \/ SaveFills(t)
             \/ \E profile \in Profiles, name \in Secrets : StartAdd(t, profile, name)
             \/ AddReads(t) \/ AddReplaces(t) \/ AddFails(t) \/ StartInit(t)
             \/ \E profile \in Profiles, found \in SUBSET Secrets :
                    InitEmpties(t, profile, found)
             \/ InitFills(t)
      PROVE  FALSE
  <2>1. UNCHANGED session
    BY <1>2 DEF Open, EditConfig, Migrate, SaveEmpties, SaveFills, StartAdd, AddReads,
                AddReplaces, AddFails, StartInit, InitEmpties, InitFills
  <2> QED BY <2>1, NoStart
<1>3. ASSUME NEW t \in Threads,
             \/ LoadConfig(t) \/ OpenUnlogged(t)
             \/ CopyCreates(t) \/ CopyFills(t) \/ CopyEnds(t)
      PROVE  Quiet(p)
  BY <1>3, LoadQuiet
<1>4. ASSUME NEW t \in Threads,
             Record(t) \/ Measure(t) \/ Reset(t) \/ WriteText(t) \/ WriteEnd(t)
      PROVE  FALSE
  BY <1>4, LogNoStart
<1>5. ASSUME NEW q \in Processes, Close(q) \/ Crash(q) PROVE FALSE
  BY <1>5 DEF Close, Crash, Starting, Inv, TypeOK
<1>6. CASE EditByHand BY <1>6, NoStart DEF EditByHand
<1> QED BY <1>1, <1>2, <1>3, <1>4, <1>5, <1>6 DEF Next

(***************************************************************************)
(* A session logs exactly when its user has auditing on, except where the  *)
(* settings are half written, crossed or being moved, or the log cannot be *)
(* opened (Secrets::load and GlobalConfig::load).                          *)
(***************************************************************************)
THEOREM QuietStays == Spec => QuietIsKept
<1>1. Inv /\ [Next]_vars =>
          [\A p \in Processes : Starting(p) =>
               \/ session'[p].logs = Logs(asked.config)
               \/ "config" \in halfway \cup crossed
               \/ MovedBefore(p)
               \/ trouble' # trouble /\ ~session'[p].logs]_vars
  BY NextQuiet DEF Quiet
<1> QED BY <1>1, InitInv, NextInv, PTL DEF Spec, QuietIsKept

-----------------------------------------------------------------------------
(* The audit log.                                                           *)

(* A thread that opens a session, and the steps taken under the lock.        *)
Opening(t) == task[t].step \in LoadSteps /\ task[t].job.op = "open"
Holding == {"reset", "text", "end"}

(* A process opens one session at a time, and no two have the same number.  *)
SessionsApart ==
    /\ \A p \in Processes : session[p] # None => session[p].id > left["open"]
    /\ \A p, q \in Processes :
           session[p] # None /\ session[q] # None /\ session[p].id = session[q].id => p = q
    /\ \A t \in Threads : Opening(t) =>
           /\ task[t].job.id > left["open"]
           /\ session[ProcessOf[t]] = None
           /\ \A p \in Processes : session[p] # None => session[p].id # task[t].job.id
    /\ \A t, u \in Threads :
           /\ Opening(t) /\ Opening(u)
           /\ task[t].job.id = task[u].job.id \/ ProcessOf[t] = ProcessOf[u]
           => t = u

(* The log has no text of a session not yet open, nor do its writers.       *)
PiecesKnown ==
    /\ \A i \in 1..Len(log) : log[i] # EndOfLine =>
           /\ log[i].by > left["open"]
           /\ \A t \in Threads : Opening(t) => task[t].job.id # log[i].by
    /\ \A t \in Threads : task[t].step \in Logging => task[t].id[1] = session[ProcessOf[t]].id

OneHolds ==
    \A t \in Threads : task[t].step \in Holding => session[ProcessOf[t]].lock = t

(* The text of an event stays in the log, or the event is excused.          *)
Has(id) == \E i \in 1..Len(log) : log[i] = Text(id)
TextsStay ==
    /\ \A id \in traced : id[1] > 0 /\ (id \in excused \/ Has(id))
    /\ \A t \in Threads : task[t].step = "end" => task[t].id \in excused \/ Has(task[t].id)

(* A text that ends the log is about to get its end of line, if its session *)
(* is still there.                                                          *)
Unended(piece) == piece # EndOfLine /\ piece.whole /\ Id(piece) \notin excused
LastIsEnded ==
    Len(log) > 0 /\ Unended(log[Len(log)]) =>
        \A p \in Processes : session[p] # None /\ session[p].id = log[Len(log)].by =>
            \E t \in Threads : /\ ProcessOf[t] = p /\ task[t].step = "end"
                               /\ task[t].id = Id(log[Len(log)])

(* No text of a session follows another of it on one line.                  *)
NoneFollows ==
    \A i \in 1..Len(log) : i > 1 /\ Unended(log[i - 1]) =>
        log[i] = EndOfLine \/ ~log[i].whole \/ log[i].by # log[i - 1].by

(* What those who measured the log still write, one piece or two each, is   *)
(* counted to it.                                                           *)
At(steps) == {p \in Processes : \E t \in Threads : ProcessOf[t] = p /\ task[t].step \in steps}
Room == IF Limit < LineSize THEN LineSize ELSE Limit
RoomIsKept ==
    Len(log) + Cardinality(At({"text"})) + Cardinality(At({"text", "end"}))
        <= Room + LineSize * (Cardinality(Processes) - 1 + trouble)

LogInv ==
    /\ SessionsApart /\ PiecesKnown /\ OneHolds
    /\ TextsStay /\ LastIsEnded /\ NoneFollows /\ RoomIsKept

LEMMA Counts ==
    ASSUME NEW A \in SUBSET Processes, NEW B \in SUBSET Processes, NEW p \in Processes
    PROVE  /\ Cardinality(A) \in Nat /\ Cardinality(B) \in Nat
           /\ Cardinality(Processes) \in Nat /\ 1 <= Cardinality(Processes)
           /\ Cardinality(A) <= Cardinality(Processes)
           /\ A \subseteq B => Cardinality(A) <= Cardinality(B)
           /\ A \subseteq B \cup {p} => Cardinality(A) <= Cardinality(B) + 1
           /\ p \in B /\ A \subseteq B \ {p} => Cardinality(A) + 1 <= Cardinality(B)
<1>1. IsFiniteSet(Processes) BY CountsAreNatural
<1>2. IsFiniteSet(A) /\ IsFiniteSet(B) BY <1>1, FS_Subset
<1>3. /\ Cardinality(A) \in Nat /\ Cardinality(B) \in Nat /\ Cardinality(Processes) \in Nat
      /\ Cardinality(A) <= Cardinality(Processes)
  BY <1>1, <1>2, FS_CardinalityType, FS_Subset
<1>4. 1 <= Cardinality(Processes)
  BY <1>1, <1>3, FS_EmptySet
<1>5. A \subseteq B => Cardinality(A) <= Cardinality(B) BY <1>2, FS_Subset
<1>6. ASSUME A \subseteq B \cup {p} PROVE Cardinality(A) <= Cardinality(B) + 1
  <2>1. /\ IsFiniteSet(B \cup {p})
        /\ Cardinality(B \cup {p}) = Cardinality(B) \/ Cardinality(B \cup {p}) = Cardinality(B) + 1
    BY <1>2, FS_AddElement
  <2>2. Cardinality(A) <= Cardinality(B \cup {p}) BY <1>6, <2>1, FS_Subset
  <2> QED BY <1>3, <2>1, <2>2
<1>7. ASSUME p \in B, A \subseteq B \ {p} PROVE Cardinality(A) + 1 <= Cardinality(B)
  <2>1. IsFiniteSet(B \ {p}) /\ Cardinality(B \ {p}) = Cardinality(B) - 1
    BY <1>2, <1>7, FS_RemoveElement
  <2>2. Cardinality(A) <= Cardinality(B \ {p}) BY <1>7, <2>1, FS_Subset
  <2> QED BY <1>3, <2>1, <2>2
<1> QED BY <1>3, <1>4, <1>5, <1>6, <1>7

(* One line of room for each who measured, counted against the bound.       *)
LEMMA RoomStays ==
    ASSUME Inv, RoomIsKept, NEW p \in Processes,
           Len(log') \in Nat, trouble' \in Nat, trouble <= trouble',
           \/ /\ At({"text"})' \subseteq At({"text"})
              /\ At({"text", "end"})' \subseteq At({"text", "end"})
              /\ Len(log') <= Len(log)
           \/ /\ At({"text"})' \subseteq At({"text"}) \cup {p}
              /\ At({"text", "end"})' \subseteq At({"text", "end"}) \cup {p}
              /\ Len(log') = Len(log) /\ trouble' = trouble + 1
           \/ /\ At({"text"})' \subseteq At({"text"}) \ {p} /\ p \in At({"text"})
              /\ At({"text", "end"})' \subseteq At({"text", "end"})
              /\ Len(log') <= Len(log) + 1
           \/ /\ At({"text"})' \subseteq At({"text"})
              /\ At({"text", "end"})' \subseteq At({"text", "end"}) \ {p}
              /\ p \in At({"text", "end"})
              /\ Len(log') <= Len(log) + 1
           \/ Len(log') = 0 \/ Len(log') + LineSize <= Limit
    PROVE  RoomIsKept'
<1> DEFINE n == Cardinality(Processes)
           a == Cardinality(At({"text"}))
           b == Cardinality(At({"text", "end"}))
           c == Cardinality(At({"text"})')
           d == Cardinality(At({"text", "end"})')
<1>1. /\ At({"text"}) \in SUBSET Processes /\ At({"text", "end"}) \in SUBSET Processes
      /\ At({"text"})' \in SUBSET Processes /\ At({"text", "end"})' \in SUBSET Processes
  BY DEF At
<1>2. /\ a \in Nat /\ b \in Nat /\ c \in Nat /\ d \in Nat /\ n \in Nat /\ 1 <= n
      /\ c <= n /\ d <= n
  BY <1>1, Counts
<1>3. /\ At({"text"})' \subseteq At({"text"}) => c <= a
      /\ At({"text"})' \subseteq At({"text"}) \cup {p} => c <= a + 1
      /\ p \in At({"text"}) /\ At({"text"})' \subseteq At({"text"}) \ {p} => c + 1 <= a
  BY <1>1, Counts
<1>4. /\ At({"text", "end"})' \subseteq At({"text", "end"}) => d <= b
      /\ At({"text", "end"})' \subseteq At({"text", "end"}) \cup {p} => d <= b + 1
      /\ p \in At({"text", "end"}) /\ At({"text", "end"})' \subseteq At({"text", "end"}) \ {p}
            => d + 1 <= b
  BY <1>1, Counts
<1>5. /\ Limit \in Nat /\ Room \in Nat /\ LineSize = 2 /\ 2 <= Room /\ Limit <= Room
      /\ Len(log) \in Nat /\ trouble \in Nat
  BY CountsAreNatural DEF Limit, Room, LineSize, Inv, TypeOK
<1>6. Len(log) + a + b <= Room + 2 * (n - 1 + trouble) BY <1>5 DEF RoomIsKept
<1>7. RoomIsKept' <=> Len(log') + c + d <= Room + 2 * (n - 1 + trouble')
  BY <1>5 DEF RoomIsKept, Room, Limit, LineSize
<1> DEFINE k == n - 1 + trouble
           l == n - 1 + trouble'
<1>8. k \in Nat /\ l \in Nat /\ k <= l BY <1>2, <1>5
<1>9. 2 * k = k + k /\ 2 * l = l + l BY <1>8
<1> HIDE DEF a, b, c, d
<1>10. CASE \/ c <= a /\ d <= b /\ Len(log') <= Len(log)
            \/ c + 1 <= a /\ d <= b /\ Len(log') <= Len(log) + 1
            \/ c <= a /\ d + 1 <= b /\ Len(log') <= Len(log) + 1
  <2>1. Len(log') + c + d <= Len(log) + a + b BY <1>2, <1>5, <1>10
  <2> HIDE DEF n, k, l
  <2>2. Len(log') + c + d <= Room + l + l BY <1>2, <1>5, <1>6, <1>8, <1>9, <2>1 DEF k
  <2> QED BY <1>5, <1>7, <1>8, <1>9, <2>2 DEF l
<1>11. CASE c <= a + 1 /\ d <= b + 1 /\ Len(log') = Len(log) /\ trouble' = trouble + 1
  BY <1>2, <1>5, <1>6, <1>7, <1>11
<1>12. CASE Len(log') = 0 \/ Len(log') + LineSize <= Limit
  <2>1. Len(log') + c + d <= Room - 2 + n + n BY <1>2, <1>5, <1>12
  <2>2. n + n - 2 <= l + l BY <1>2, <1>5
  <2> HIDE DEF n, l
  <2>3. Len(log') + c + d <= Room + l + l BY <1>2, <1>5, <1>8, <2>1, <2>2
  <2> QED BY <1>5, <1>7, <1>8, <1>9, <2>3 DEF l
<1> QED BY <1>3, <1>4, <1>10, <1>11, <1>12

LEMMA InitLog == Init => LogInv
<1> SUFFICES ASSUME Init PROVE LogInv OBVIOUS
<1>1. \A t \in Threads : task[t].step = "idle" BY Constants DEF Init
<1>2. \A p \in Processes : session[p] = None BY DEF Init
<1>3. Len(log) = 0 /\ traced = {} BY DEF Init
<1>4. SessionsApart /\ PiecesKnown /\ OneHolds
  BY <1>1, <1>2, <1>3 DEF SessionsApart, PiecesKnown, OneHolds, Opening, LoadSteps, Logging,
                          Holding
<1>5. TextsStay /\ LastIsEnded /\ NoneFollows
  BY <1>1, <1>3 DEF TextsStay, LastIsEnded, NoneFollows
<1>6. RoomIsKept
  <2>1. At({"text"}) = {} /\ At({"text", "end"}) = {} BY <1>1 DEF At
  <2>2. Cardinality({}) = 0 BY FS_EmptySet
  <2>3. PICK p : p \in Processes BY CountsAreNatural
  <2>4. Cardinality(Processes) \in Nat /\ 1 <= Cardinality(Processes) BY <2>3, Counts
  <2>5. trouble = 0 /\ Room \in Nat /\ LineSize = 2
    BY CountsAreNatural DEF Init, Limit, Room, LineSize
  <2> DEFINE n == Cardinality(Processes)
  <2> HIDE DEF n
  <2>6. 0 <= Room + 2 * (n - 1 + 0) BY <2>4, <2>5 DEF n
  <2>7. Cardinality(At({"text"})) = 0 /\ Cardinality(At({"text", "end"})) = 0 BY <2>1, <2>2
  <2>8. 0 + 0 + 0 <= Room + LineSize * (n - 1 + trouble) BY <2>5, <2>6
  <2> QED BY <1>3, <2>7, <2>8 DEF RoomIsKept, n
<1> QED BY <1>4, <1>5, <1>6 DEF LogInv

(* What happens away from the log.                                          *)
LEMMA Elsewhere ==
    ASSUME Inv, LogInv, UNCHANGED <<trail, session>>,
           left'["open"] = left["open"], trouble' \in {trouble, trouble + 1},
           \A t \in Threads :
               /\ task[t].step \in Logging \/ task'[t].step \in Logging => task'[t] = task[t]
               /\ Opening(t)' => Opening(t) /\ task'[t].job = task[t].job
    PROVE  LogInv'
<1>1. UNCHANGED <<log, traced, excused, session>> BY DEF trail
<1>2. SessionsApart' BY <1>1 DEF LogInv, SessionsApart
<1>3. PiecesKnown' BY <1>1 DEF LogInv, PiecesKnown
<1>4. OneHolds' BY <1>1 DEF LogInv, OneHolds, Holding, Logging
<1>5. TextsStay' BY <1>1 DEF LogInv, TextsStay, Has, Logging
<1>6. LastIsEnded'
  <2> SUFFICES ASSUME Len(log) > 0, Unended(log[Len(log)]), NEW p \in Processes,
                      session[p] # None, session[p].id = log[Len(log)].by
               PROVE  \E t \in Threads : /\ ProcessOf[t] = p /\ task'[t].step = "end"
                                         /\ task'[t].id = Id(log[Len(log)])
    BY <1>1 DEF LastIsEnded, Unended
  <2>1. PICK t \in Threads : /\ ProcessOf[t] = p /\ task[t].step = "end"
                             /\ task[t].id = Id(log[Len(log)])
    BY DEF LogInv, LastIsEnded
  <2> QED BY <2>1 DEF Logging
<1>7. NoneFollows' BY <1>1 DEF LogInv, NoneFollows, Unended
<1>8. RoomIsKept'
  <2>1. At({"text"})' \subseteq At({"text"}) /\ At({"text", "end"})' \subseteq At({"text", "end"})
    BY DEF At, Logging
  <2>2. Len(log') = Len(log) /\ Len(log) \in Nat /\ trouble' \in Nat /\ trouble <= trouble'
    BY <1>1 DEF Inv, TypeOK
  <2>3. PICK p : p \in Processes BY CountsAreNatural
  <2> QED BY <2>1, <2>2, <2>3, RoomStays DEF LogInv
<1> QED BY <1>2, <1>3, <1>4, <1>5, <1>6, <1>7, <1>8 DEF LogInv

(* A thread that goes on with r, away from the log.                         *)
LEMMA GoesElsewhere ==
    ASSUME Inv, LogInv, NEW t \in Threads, NEW r, task' = [task EXCEPT ![t] = r],
           task[t].step \notin Logging, r.step \notin Logging,
           r.step \in LoadSteps /\ r.job.op = "open" => Opening(t) /\ r.job = task[t].job,
           UNCHANGED <<trail, session>>,
           left'["open"] = left["open"], trouble' \in {trouble, trouble + 1}
    PROVE  LogInv'
<1>1. \A u \in Threads : task'[u] = IF u = t THEN r ELSE task[u] BY DEF Inv, TypeOK
<1>2. \A u \in Threads :
          /\ task[u].step \in Logging \/ task'[u].step \in Logging => task'[u] = task[u]
          /\ Opening(u)' => Opening(u) /\ task'[u].job = task[u].job
  BY <1>1 DEF Opening
<1> QED BY <1>2, Elsewhere

LEMMA EndsElsewhere ==
    ASSUME Inv, LogInv, NEW t \in Threads, Done(t), task[t].step \notin Logging,
           UNCHANGED <<trail, session>>,
           left'["open"] = left["open"], trouble' \in {trouble, trouble + 1}
    PROVE  LogInv'
<1>1. task' = [task EXCEPT ![t] = Idle] BY DEF Done, Does
<1>2. Idle.step \notin Logging /\ Idle.step \notin LoadSteps
  BY Constants DEF Logging, LoadSteps
<1> QED BY <1>1, <1>2, GoesElsewhere

(* A session that opens has a number no other has or had, and no thread of  *)
(* its process is at the log.                                               *)
LEMMA OpenedLog ==
    ASSUME Inv, LogInv, NEW t \in Threads, Opening(t), NEW logs, Opened(t, logs), Done(t),
           UNCHANGED <<trail, left>>, trouble' \in {trouble, trouble + 1}
    PROVE  LogInv'
<1> DEFINE p == ProcessOf[t]
           s == [id |-> task[t].job.id, manifest |-> task[t].base,
                 logs |-> logs, seq |-> 0, lock |-> None]
<1>1. s.id = task[t].job.id OBVIOUS
<1>2. session' = [session EXCEPT ![p] = s] BY DEF Opened
<1> HIDE DEF s
<1>3. p \in Processes /\ session[p] = None BY ThreadsRun DEF LogInv, SessionsApart
<1>4. \A q \in Processes : session'[q] = IF q = p THEN s ELSE session[q]
  BY <1>2 DEF Inv, TypeOK
<1>5. \A u \in Threads : task'[u] = IF u = t THEN Idle ELSE task[u]
  BY DEF Done, Does, Inv, TypeOK
<1>6. /\ Idle.step \notin Logging /\ Idle.step \notin LoadSteps
      /\ task[t].step \notin Logging
  BY Constants DEF Logging, LoadSteps, Opening
<1>7. \A u \in Threads :
          /\ Opening(u)' => u # t /\ Opening(u) /\ task'[u] = task[u]
          /\ task[u].step \in Logging \/ task'[u].step \in Logging =>
                /\ task'[u] = task[u] /\ ProcessOf[u] # p /\ ProcessOf[u] \in Processes
                /\ session'[ProcessOf[u]] = session[ProcessOf[u]]
  BY <1>3, <1>4, <1>5, <1>6, ThreadsRun DEF Opening, Inv, Steps
<1>8. UNCHANGED <<log, traced, excused, left>> BY DEF trail
<1>9. SessionsApart'
  <2>1. \A q \in Processes : session'[q] # None =>
            /\ session'[q].id > left["open"]
            /\ q # p => session[q] # None /\ session'[q] = session[q]
                        /\ session[q].id # task[t].job.id
            /\ q = p => session'[q].id = task[t].job.id
    BY <1>1, <1>3, <1>4 DEF LogInv, SessionsApart
  <2>2. \A q1, q2 \in Processes :
            session'[q1] # None /\ session'[q2] # None /\ session'[q1].id = session'[q2].id
                => q1 = q2
    BY <2>1 DEF LogInv, SessionsApart
  <2>3. \A u \in Threads : Opening(u)' =>
            /\ task'[u].job.id > left["open"]
            /\ session'[ProcessOf[u]] = None
            /\ \A q \in Processes : session'[q] # None => session'[q].id # task'[u].job.id
    BY <1>3, <1>4, <1>7, <2>1, ThreadsRun DEF LogInv, SessionsApart
  <2>4. \A u, v \in Threads :
            /\ Opening(u)' /\ Opening(v)'
            /\ task'[u].job.id = task'[v].job.id \/ ProcessOf[u] = ProcessOf[v]
            => u = v
    BY <1>7 DEF LogInv, SessionsApart
  <2> QED BY <1>8, <2>1, <2>2, <2>3, <2>4 DEF SessionsApart
<1>10. PiecesKnown' BY <1>7, <1>8 DEF LogInv, PiecesKnown
<1>11. OneHolds' BY <1>7 DEF LogInv, OneHolds, Holding, Logging
<1>12. TextsStay' BY <1>7, <1>8 DEF LogInv, TextsStay, Has, Logging
<1>13. LastIsEnded'
  <2> SUFFICES ASSUME Len(log) > 0, Unended(log[Len(log)]), NEW q \in Processes,
                      session'[q] # None, session'[q].id = log[Len(log)].by
               PROVE  \E u \in Threads : /\ ProcessOf[u] = q /\ task'[u].step = "end"
                                         /\ task'[u].id = Id(log[Len(log)])
    BY <1>8 DEF LastIsEnded, Unended
  <2>1. Len(log) \in 1..Len(log) /\ log[Len(log)] # EndOfLine
    BY DEF Inv, TypeOK, Unended
  <2>2. q # p BY <1>1, <1>3, <1>4, <2>1 DEF LogInv, PiecesKnown
  <2>3. PICK u \in Threads : /\ ProcessOf[u] = q /\ task[u].step = "end"
                             /\ task[u].id = Id(log[Len(log)])
    BY <1>4, <2>2 DEF LogInv, LastIsEnded
  <2> QED BY <1>7, <2>3 DEF Logging
<1>14. NoneFollows' BY <1>8 DEF LogInv, NoneFollows, Unended
<1>15. RoomIsKept'
  <2>1. At({"text"})' \subseteq At({"text"}) /\ At({"text", "end"})' \subseteq At({"text", "end"})
    BY <1>7 DEF At, Logging
  <2>2. Len(log') = Len(log) /\ Len(log) \in Nat /\ trouble' \in Nat /\ trouble <= trouble'
    BY <1>8 DEF Inv, TypeOK
  <2> QED BY <1>3, <2>1, <2>2, RoomStays DEF LogInv
<1> QED BY <1>9, <1>10, <1>11, <1>12, <1>13, <1>14, <1>15 DEF LogInv

(* The settings were read: a session opens, an edit goes on, or the command *)
(* ends.                                                                    *)
LEMMA LoadedLog ==
    ASSUME Inv, LogInv, NEW t \in Threads, task[t].step \in LoadSteps, NEW c, Loaded(t, c),
           UNCHANGED <<trail, left>>, trouble' \in {trouble, trouble + 1}
    PROVE  LogInv'
<1>1. task[t].step \notin Logging BY DEF LoadSteps, Logging
<1>2. CASE Done(t) /\ UNCHANGED session BY <1>1, <1>2, EndsElsewhere DEF trail
<1>3. CASE task[t].job.op = "open" /\ Opened(t, Logs(OrBlank(c))) /\ Done(t)
  BY <1>3, OpenedLog DEF Opening
<1>4. CASE /\ Does(t, [step |-> "save", edit |-> task[t].job, base |-> OrBlank(c)])
           /\ UNCHANGED session
  <2> DEFINE r == [step |-> "save", edit |-> task[t].job, base |-> OrBlank(c)]
  <2>1. r.step \notin Logging /\ r.step \notin LoadSteps BY DEF Logging, LoadSteps
  <2>2. task' = [task EXCEPT ![t] = r] BY <1>4 DEF Does
  <2> HIDE DEF r
  <2> QED BY <1>1, <1>4, <2>1, <2>2, GoesElsewhere
<1> QED BY <1>2, <1>3, <1>4 DEF Loaded

LEMMA OpenLog == ASSUME Inv, LogInv, NEW t \in Threads, Open(t) PROVE LogInv'
<1> DEFINE p == ProcessOf[t]
           id == left["open"]
           r == [step |-> "load", job |-> [op |-> "open", id |-> id], base |-> manifest]
<1>1. task' = [task EXCEPT ![t] = r] BY DEF Open, Loads, Does
<1>2. r.step = "load" /\ r.job.op = "open" /\ r.job.id = id OBVIOUS
<1> HIDE DEF r
<1>3. /\ id \in Nat /\ id > 0 /\ left'["open"] = id - 1
  BY DEF Open, Spends, Inv, TypeOK
<1> HIDE DEF id
<1>4. p \in Processes /\ session[p] = None /\ task[t].step = "idle"
      /\ \A u \in Threads : ProcessOf[u] = p => task[u].step = "idle"
  BY ThreadsRun, Constants DEF Open, Free, Process
<1>5. \A u \in Threads : task'[u] = IF u = t THEN r ELSE task[u]
  BY <1>1 DEF Inv, TypeOK
<1>6. UNCHANGED <<log, traced, excused, session, trouble>> BY DEF Open, trail
<1>7. \A u \in Threads :
          /\ Opening(u)' /\ u # t =>
                Opening(u) /\ task'[u] = task[u] /\ ProcessOf[u] # p
          /\ task[u].step \in Logging \/ task'[u].step \in Logging => task'[u] = task[u]
  BY <1>2, <1>4, <1>5 DEF Opening, Logging, LoadSteps
<1>8. /\ \A q \in Processes : session[q] # None =>
             session[q].id \in Nat /\ session[q].id > id
      /\ \A u \in Threads : Opening(u) => task[u].job.id \in Nat /\ task[u].job.id > id
  <2>1. \A q \in Processes : session[q] # None =>
             session[q].id \in Nat /\ session[q].id > id
    BY DEF Inv, TypeOK, Sessions, LogInv, SessionsApart, id
  <2>2. ASSUME NEW u \in Threads, Opening(u)
        PROVE  task[u].job.id \in Nat /\ task[u].job.id > id
    <3>1. task[u] \in Tasks BY DEF Inv, TypeOK
    <3>2. task[u].job \in Jobs BY <2>2, <3>1, Carried DEF Opening, LoadSteps
    <3>3. task[u].job.id \in Nat BY <2>2, <3>2 DEF Opening, Jobs, Edits
    <3> QED BY <2>2, <3>3 DEF LogInv, SessionsApart, id
  <2> QED BY <2>1, <2>2
<1>9. SessionsApart'
  <2>1. \A q \in Processes : session[q] # None => session[q].id > id - 1
    BY <1>3, <1>8
  <2>2. \A u \in Threads : Opening(u)' =>
            /\ task'[u].job.id > id - 1
            /\ session[ProcessOf[u]] = None
            /\ \A q \in Processes : session[q] # None => session[q].id # task'[u].job.id
    BY <1>2, <1>3, <1>4, <1>5, <1>7, <1>8 DEF LogInv, SessionsApart
  <2>3. \A u, v \in Threads :
            /\ Opening(u)' /\ Opening(v)'
            /\ task'[u].job.id = task'[v].job.id \/ ProcessOf[u] = ProcessOf[v]
            => u = v
    <3> SUFFICES ASSUME NEW u \in Threads, NEW v \in Threads, Opening(u)', Opening(v)',
                        task'[u].job.id = task'[v].job.id \/ ProcessOf[u] = ProcessOf[v],
                        u # v
                 PROVE  FALSE
      OBVIOUS
    <3>1. CASE u # t /\ v # t BY <1>7, <3>1 DEF LogInv, SessionsApart
    <3>2. CASE u = t BY <1>2, <1>3, <1>5, <1>7, <1>8, <3>2
    <3>3. CASE v = t BY <1>2, <1>3, <1>5, <1>7, <1>8, <3>3
    <3> QED BY <3>1, <3>2, <3>3
  <2> QED BY <1>3, <1>6, <2>1, <2>2, <2>3 DEF LogInv, SessionsApart
<1>10. PiecesKnown'
  <2>1. ASSUME NEW i \in 1..Len(log), log[i] # EndOfLine
        PROVE  /\ log[i].by > id - 1
               /\ \A u \in Threads : Opening(u)' => task'[u].job.id # log[i].by
    <3> log[i] \in Pieces BY DEF Inv, TypeOK
    <3>1. log[i].by \in Nat BY DEF Pieces
    <3>2. log[i].by > id BY <2>1 DEF LogInv, PiecesKnown, id
    <3>3. \A u \in Threads : Opening(u) => task[u].job.id # log[i].by
      BY <2>1 DEF LogInv, PiecesKnown
    <3> QED BY <1>2, <1>3, <1>5, <1>7, <3>1, <3>2, <3>3
  <2> QED BY <1>3, <1>6, <1>7, <2>1 DEF LogInv, PiecesKnown
<1>11. OneHolds' BY <1>6, <1>7 DEF LogInv, OneHolds, Holding, Logging
<1>12. TextsStay' BY <1>6, <1>7 DEF LogInv, TextsStay, Has, Logging
<1>13. LastIsEnded'
  <2> SUFFICES ASSUME Len(log) > 0, Unended(log[Len(log)]), NEW q \in Processes,
                      session[q] # None, session[q].id = log[Len(log)].by
               PROVE  \E u \in Threads : /\ ProcessOf[u] = q /\ task'[u].step = "end"
                                         /\ task'[u].id = Id(log[Len(log)])
    BY <1>6 DEF LastIsEnded, Unended
  <2>1. PICK u \in Threads : /\ ProcessOf[u] = q /\ task[u].step = "end"
                             /\ task[u].id = Id(log[Len(log)])
    BY DEF LogInv, LastIsEnded
  <2> QED BY <1>7, <2>1 DEF Logging
<1>14. NoneFollows' BY <1>6 DEF LogInv, NoneFollows, Unended
<1>15. RoomIsKept'
  <2>1. At({"text"})' \subseteq At({"text"}) /\ At({"text", "end"})' \subseteq At({"text", "end"})
    BY <1>7 DEF At, Logging
  <2>2. Len(log') = Len(log) /\ Len(log) \in Nat /\ trouble' \in Nat /\ trouble <= trouble'
    BY <1>6 DEF Inv, TypeOK
  <2> QED BY <1>4, <2>1, <2>2, RoomStays DEF LogInv
<1> QED BY <1>9, <1>10, <1>11, <1>12, <1>13, <1>14, <1>15 DEF LogInv

(* Two threads of a process do not hold the lock at once.                   *)
LEMMA OneAtOnce ==
    ASSUME LogInv, NEW t \in Threads, NEW u \in Threads, ProcessOf[t] = ProcessOf[u],
           task[t].step \in Holding, task[u].step \in Holding
    PROVE  t = u
BY DEF LogInv, OneHolds

(* A thread of an open session goes on with r and adds no text but its own. *)
LEMMA NumbersStay ==
    ASSUME Inv, LogInv, NEW t \in Threads, NEW r, task' = [task EXCEPT ![t] = r],
           NEW s, session' = [session EXCEPT ![ProcessOf[t]] = s],
           session[ProcessOf[t]] # None, s.id = session[ProcessOf[t]].id,
           r.step \notin LoadSteps,
           r.step \in Logging => r.id[1] = s.id,
           left'["open"] = left["open"],
           \A i \in 1..Len(log') :
               \/ log'[i] = EndOfLine \/ log'[i].by = s.id
               \/ \E j \in 1..Len(log) : log[j] = log'[i]
    PROVE  SessionsApart' /\ PiecesKnown'
<1> DEFINE p == ProcessOf[t]
<1>1. p \in Processes BY ThreadsRun
<1>2. \A u \in Threads : task'[u] = IF u = t THEN r ELSE task[u] BY DEF Inv, TypeOK
<1>3. \A q \in Processes : session'[q] = IF q = p THEN s ELSE session[q] BY DEF Inv, TypeOK
<1>4. \A u \in Threads : Opening(u)' => Opening(u) /\ task'[u] = task[u] /\ ProcessOf[u] # p
  BY <1>2 DEF Opening, LogInv, SessionsApart
<1>5. \A q \in Processes : session'[q] # None =>
          session[q] # None /\ session'[q].id = session[q].id
  BY <1>3
<1>6. SessionsApart'
  <2>1. \A u \in Threads : Opening(u)' =>
            /\ task'[u].job.id > left["open"]
            /\ session'[ProcessOf[u]] = None
            /\ \A q \in Processes : session'[q] # None => session'[q].id # task'[u].job.id
    BY <1>3, <1>4, <1>5, ThreadsRun DEF LogInv, SessionsApart
  <2>2. \A q, o \in Processes :
           session'[q] # None /\ session'[o] # None /\ session'[q].id = session'[o].id => q = o
    BY <1>5 DEF LogInv, SessionsApart
  <2>3. \A u, v \in Threads :
            /\ Opening(u)' /\ Opening(v)'
            /\ task'[u].job.id = task'[v].job.id \/ ProcessOf[u] = ProcessOf[v]
            => u = v
    BY <1>4 DEF LogInv, SessionsApart
  <2>4. \A q \in Processes : session'[q] # None => session'[q].id > left["open"]
    BY <1>5 DEF LogInv, SessionsApart
  <2> QED BY <2>1, <2>2, <2>3, <2>4 DEF SessionsApart
<1>7. PiecesKnown'
  <2>1. ASSUME NEW i \in 1..Len(log'), log'[i] # EndOfLine
        PROVE  /\ log'[i].by > left["open"]
               /\ \A u \in Threads : Opening(u)' => task'[u].job.id # log'[i].by
    <3>1. CASE log'[i].by = s.id
      BY <1>1, <1>4, <3>1 DEF LogInv, SessionsApart
    <3>2. CASE \E j \in 1..Len(log) : log[j] = log'[i]
      BY <1>4, <2>1, <3>2 DEF LogInv, PiecesKnown
    <3> QED BY <2>1, <3>1, <3>2
  <2>2. \A u \in Threads : task'[u].step \in Logging =>
            task'[u].id[1] = session'[ProcessOf[u]].id
    BY <1>2, <1>3, ThreadsRun DEF LogInv, PiecesKnown
  <2> QED BY <2>1, <2>2 DEF PiecesKnown
<1> QED BY <1>6, <1>7

(* A thread other than those at the end of a text goes on, and the log      *)
(* stays as it is.                                                          *)
LEMMA EndStays ==
    ASSUME Inv, LogInv, NEW t \in Threads, NEW r, task' = [task EXCEPT ![t] = r],
           task[t].step = "end" => task[t].id \in excused',
           NEW s, session' = [session EXCEPT ![ProcessOf[t]] = s],
           session[ProcessOf[t]] # None, s.id = session[ProcessOf[t]].id,
           r.step # "end",
           UNCHANGED <<log, traced>>, excused \subseteq excused'
    PROVE  TextsStay' /\ LastIsEnded' /\ NoneFollows'
<1>1. \A u \in Threads : task'[u] = IF u = t THEN r ELSE task[u] BY DEF Inv, TypeOK
<1>2. \A q \in Processes : session'[q] # None =>
          session[q] # None /\ session'[q].id = session[q].id
  BY DEF Inv, TypeOK
<1>3. TextsStay' BY <1>1 DEF LogInv, TextsStay, Has
<1>4. LastIsEnded'
  <2> SUFFICES ASSUME Len(log) > 0, Unended(log[Len(log)])', NEW q \in Processes,
                      session'[q] # None, session'[q].id = log[Len(log)].by
               PROVE  \E u \in Threads : /\ ProcessOf[u] = q /\ task'[u].step = "end"
                                         /\ task'[u].id = Id(log[Len(log)])
    BY DEF LastIsEnded
  <2>1. Unended(log[Len(log)]) /\ Id(log[Len(log)]) \notin excused' BY DEF Unended
  <2>2. PICK u \in Threads : /\ ProcessOf[u] = q /\ task[u].step = "end"
                             /\ task[u].id = Id(log[Len(log)])
    BY <1>2, <2>1 DEF LogInv, LastIsEnded
  <2>3. u # t BY <2>1, <2>2
  <2> QED BY <1>1, <2>2, <2>3
<1>5. NoneFollows' BY DEF LogInv, NoneFollows, Unended
<1> QED BY <1>3, <1>4, <1>5

LEMMA RecordLog == ASSUME Inv, LogInv, NEW t \in Threads, Record(t) PROVE LogInv'
<1> DEFINE p == ProcessOf[t]
           r == [step |-> "measure", id |-> <<session[p].id, session[p].seq>>]
           s == [session[p] EXCEPT !.seq = @ + 1]
<1>1. p \in Processes /\ session[p] \in Sessions /\ session[p] # None
  BY ThreadsRun DEF Record, Inv, TypeOK
<1>2. s.id = session[p].id /\ s.lock = session[p].lock BY <1>1 DEF Sessions
<1>3. r.step = "measure" /\ r.id[1] = session[p].id OBVIOUS
<1>4. task' = [task EXCEPT ![t] = r] BY DEF Record, Does
<1>5. session' = [session EXCEPT ![p] = s] BY DEF Record
<1>6. UNCHANGED <<log, traced, excused, trouble>> /\ left'["open"] = left["open"]
  BY DEF Record, trail, Spends, Inv, TypeOK
<1> HIDE DEF r, s
<1>7. task[t].step = "idle" BY Constants DEF Record, Free
<1>8. SessionsApart' /\ PiecesKnown'
  BY <1>1, <1>2, <1>3, <1>4, <1>5, <1>6, NumbersStay DEF LoadSteps
<1>9. TextsStay' /\ LastIsEnded' /\ NoneFollows'
  BY <1>1, <1>2, <1>3, <1>4, <1>5, <1>6, <1>7, EndStays
<1>10. \A u \in Threads : task'[u].step \in Holding => u # t /\ task'[u] = task[u]
  BY <1>3, <1>4 DEF Inv, TypeOK, Holding
<1>11. OneHolds'
  <2>1. \A q \in Processes : session'[q] = IF q = p THEN s ELSE session[q]
    BY <1>5 DEF Inv, TypeOK
  <2> QED BY <1>2, <1>10, <2>1, ThreadsRun DEF LogInv, OneHolds
<1>12. RoomIsKept'
  <2>1. At({"text"})' \subseteq At({"text"}) /\ At({"text", "end"})' \subseteq At({"text", "end"})
    BY <1>10 DEF At, Holding
  <2>2. Len(log') = Len(log) /\ Len(log) \in Nat /\ trouble' \in Nat /\ trouble <= trouble'
    BY <1>6 DEF Inv, TypeOK
  <2> QED BY <1>1, <2>1, <2>2, RoomStays DEF LogInv
<1> QED BY <1>8, <1>9, <1>11, <1>12 DEF LogInv

LEMMA MeasureLog == ASSUME Inv, LogInv, NEW t \in Threads, Measure(t) PROVE LogInv'
<1> DEFINE p == ProcessOf[t]
           s == [session[p] EXCEPT !.lock = t]
<1>1. task[t].step = "measure" /\ session[p].lock = None BY DEF Measure, IsAt, Process
<1>2. p \in Processes /\ session[p] \in Sessions /\ session[p] # None
  BY <1>1, LogAt DEF Logging
<1>3. s.id = session[p].id /\ s.lock = t BY <1>2 DEF Sessions
<1>4. session' = [session EXCEPT ![p] = s] BY DEF Measure
<1> HIDE DEF s
<1>5. PICK next \in {"reset", "text"} :
          /\ Step(t, next)
          /\ \/ next = "reset" /\ trouble' = trouble
             \/ log = <<>> /\ trouble' = trouble
             \/ Len(log) + LineSize <= Limit /\ trouble' = trouble
             \/ trouble' = trouble + 1
  <2>1. Len(log) \in Nat /\ Limit \in Nat /\ LineSize = 2
    BY CountsAreNatural DEF Inv, TypeOK, Limit, LineSize
  <2>2. CASE log # <<>> /\ Len(log) + LineSize > Limit BY <2>2 DEF Measure, Fault
  <2>3. CASE ~(log # <<>> /\ Len(log) + LineSize > Limit)
    BY <2>1, <2>3 DEF Measure, Fault
  <2> QED BY <2>2, <2>3
<1> DEFINE r == [task[t] EXCEPT !.step = next]
<1>6. r.step = next /\ task' = [task EXCEPT ![t] = r] /\ r.id = task[t].id
  <2>1. task[t] \in [step : Logging, id : EventIds]
    BY <1>1, Carried DEF Logging, Inv, TypeOK
  <2> QED BY <1>1, <1>5, <2>1, LogAt DEF Logging
<1> HIDE DEF r
<1>7. UNCHANGED <<log, traced, left>> /\ excused \subseteq excused' BY DEF Measure
<1>8. SessionsApart' /\ PiecesKnown'
  <2>1. r.id[1] = s.id BY <1>1, <1>3, <1>6 DEF LogInv, PiecesKnown, Logging
  <2> QED BY <1>2, <1>3, <1>4, <1>6, <1>7, <2>1, NumbersStay DEF LoadSteps
<1>9. TextsStay' /\ LastIsEnded' /\ NoneFollows'
  BY <1>1, <1>2, <1>3, <1>4, <1>6, <1>7, EndStays
<1>10. \A u \in Threads : u # t => task'[u] = task[u]
  BY <1>6 DEF Inv, TypeOK
<1>11. OneHolds'
  <2>1. \A q \in Processes : session'[q] = IF q = p THEN s ELSE session[q]
    BY <1>4 DEF Inv, TypeOK
  <2>2. \A u \in Threads : task[u].step \in Holding => ProcessOf[u] # p
    BY <1>1, AbsenceIsTold DEF LogInv, OneHolds
  <2>3. \A u \in Threads : u # t => (task'[u].step \in Holding => session'[ProcessOf[u]].lock = u)
    BY <1>10, <2>1, <2>2, ThreadsRun DEF LogInv, OneHolds
  <2>4. session'[ProcessOf[t]].lock = t BY <1>2, <1>3, <2>1
  <2> QED BY <2>3, <2>4 DEF OneHolds
<1>12. RoomIsKept'
  <2>1. /\ Len(log') = Len(log) /\ Len(log) \in Nat /\ trouble' \in Nat
        /\ trouble <= trouble' /\ LineSize = 2
    BY <1>5, <1>7 DEF Inv, TypeOK, LineSize
  <2>2. CASE next = "reset" /\ trouble' = trouble
    <3>1. At({"text"})' \subseteq At({"text"})
      BY <1>6, <1>10, <2>2 DEF At, Inv, TypeOK
    <3>2. At({"text", "end"})' \subseteq At({"text", "end"})
      BY <1>6, <1>10, <2>2 DEF At, Inv, TypeOK
    <3> QED BY <1>2, <2>1, <3>1, <3>2, RoomStays DEF LogInv
  <2>3. CASE log = <<>> \/ Len(log) + LineSize <= Limit
    <3>1. Len(log') = 0 \/ Len(log') + LineSize <= Limit BY <1>7, <2>3
    <3> QED BY <1>2, <2>1, <3>1, RoomStays DEF LogInv
  <2>4. CASE trouble' = trouble + 1
    <3>1. /\ At({"text"})' \subseteq At({"text"}) \cup {p}
          /\ At({"text", "end"})' \subseteq At({"text", "end"}) \cup {p}
      BY <1>10 DEF At
    <3> QED BY <1>2, <2>1, <2>4, <3>1, RoomStays DEF LogInv
  <2> QED BY <1>5, <2>2, <2>3, <2>4
<1> QED BY <1>8, <1>9, <1>11, <1>12 DEF LogInv

LEMMA TextIs ==
    ASSUME NEW id \in EventIds
    PROVE  /\ Id(Text(id)) = id /\ Text(id).by = id[1] /\ Text(id).whole
           /\ Half(id).by = id[1] /\ ~Half(id).whole
           /\ id[1] > 0 => Text(id) # EndOfLine
<1>1. id[1] \in Nat /\ id[2] \in Nat /\ id = <<id[1], id[2]>> BY DEF EventIds
<1>2. Text(id).by = id[1] /\ Text(id).seq = id[2] /\ Text(id).whole BY DEF Text
<1>3. Half(id).by = id[1] /\ ~Half(id).whole BY DEF Half, Text
<1>4. EndOfLine.by = 0 BY DEF EndOfLine
<1> QED BY <1>1, <1>2, <1>3, <1>4 DEF Id

(* A piece more at the end of the log.                                      *)
LEMMA Longer ==
    ASSUME Inv, NEW piece \in Pieces, log' = Append(log, piece)
    PROVE  /\ Len(log) \in Nat /\ Len(log') = Len(log) + 1
           /\ \A i \in 1..Len(log') : i \in 1..Len(log) \/ i = Len(log) + 1
           /\ \A i \in 1..Len(log) : i \in 1..Len(log') /\ log'[i] = log[i]
           /\ log'[Len(log')] = piece /\ Len(log') \in 1..Len(log')
           /\ \A id \in EventIds : Has(id) \/ piece = Text(id) => Has(id)'
<1>1. log \in Seq(Pieces) BY DEF Inv, TypeOK
<1>2. /\ Len(log) \in Nat /\ Len(log') = Len(log) + 1
      /\ \A i \in 1..Len(log) : i \in 1..Len(log') /\ log'[i] = log[i]
      /\ log'[Len(log')] = piece
  BY <1>1
<1>3. /\ \A i \in 1..Len(log') : i \in 1..Len(log) \/ i = Len(log) + 1
      /\ Len(log') \in 1..Len(log')
  BY <1>2
<1>4. \A id \in EventIds : Has(id) \/ piece = Text(id) => Has(id)' BY <1>2, <1>3 DEF Has
<1> QED BY <1>2, <1>3, <1>4

(* No piece is lost or its loss is excused.                                 *)
LEMMA MoreIsKept ==
    ASSUME Inv, LogInv, NEW t \in Threads, NEW r, task' = [task EXCEPT ![t] = r],
           task[t].step \in Logging,
           NEW piece \in Pieces, log' = Append(log, piece),
           excused \subseteq excused',
           \/ traced' = traced
           \/ traced' = traced \cup {task[t].id} /\ task[t].step = "end",
           r.step = "end" => r.id = task[t].id /\ piece = Text(r.id)
    PROVE  TextsStay'
<1> DEFINE Now(id) == \E i \in 1..Len(log') : log'[i] = Text(id)
<1>1. \A u \in Threads : task'[u] = IF u = t THEN r ELSE task[u] BY DEF Inv, TypeOK
<1>2. \A id \in EventIds : Has(id) \/ piece = Text(id) => Now(id) BY Longer DEF Has
<1>3. \A u \in Threads : task[u].step \in Logging => task[u].id \in EventIds
  BY LogAt
<1>4. ASSUME NEW u \in Threads, task'[u].step = "end"
      PROVE  task'[u].id \in excused' \/ Now(task'[u].id)
  <2> HIDE DEF Now
  <2> DEFINE id == task'[u].id
  <2>1. CASE u = t
    <3>1. id = task[t].id /\ piece = Text(id) /\ id \in EventIds BY <1>1, <1>3, <1>4, <2>1
    <3> QED BY <1>2, <3>1
  <2>2. CASE u # t
    <3>1. task[u].step = "end" /\ id = task[u].id BY <1>1, <1>4, <2>2
    <3>2. id \in EventIds /\ (id \in excused \/ Has(id))
      BY <1>3, <3>1 DEF LogInv, TextsStay, Logging
    <3> HIDE DEF id
    <3>3. id \in excused' \/ Now(id) BY <1>2, <3>2
    <3> QED BY <3>3 DEF id
  <2> QED BY <2>1, <2>2
<1>5. task[t].id[1] > 0 /\ task[t].id[1] \in Nat
  <2>1. /\ ProcessOf[t] \in Processes /\ session[ProcessOf[t]] # None
        /\ session[ProcessOf[t]] \in Sessions
    BY LogAt
  <2>2. task[t].id[1] = session[ProcessOf[t]].id /\ session[ProcessOf[t]].id > left["open"]
    BY <2>1 DEF LogInv, PiecesKnown, SessionsApart
  <2>3. session[ProcessOf[t]].id \in Nat /\ left["open"] \in Nat
    BY <2>1 DEF Sessions, Inv, TypeOK
  <2> QED BY <2>2, <2>3
<1>6. \A id \in traced : id \in EventIds BY DEF Inv, TypeOK
<1>7. \A id \in traced' : id[1] > 0 /\ (id \in excused' \/ Now(id))
  BY <1>2, <1>3, <1>5, <1>6 DEF LogInv, TextsStay, Logging
<1> QED BY <1>4, <1>7 DEF TextsStay, Has

LEMMA ResetLog == ASSUME Inv, LogInv, NEW t \in Threads, Reset(t) PROVE LogInv'
<1> DEFINE p == ProcessOf[t]
           r == [task[t] EXCEPT !.step = "text"]
<1>1. task[t].step = "reset" /\ Step(t, "text") BY DEF Reset, IsAt
<1>2. /\ p \in Processes /\ session[p] # None
      /\ r.step = "text" /\ task' = [task EXCEPT ![t] = r] /\ r.id = task[t].id
  <2>1. task[t] \in [step : Logging, id : EventIds]
    BY <1>1, Carried DEF Logging, Inv, TypeOK
  <2> QED BY <1>1, <2>1, LogAt DEF Logging
<1> HIDE DEF r
<1>3. UNCHANGED <<traced, session, left>> BY DEF Reset
<1> DEFINE s == session[p]
<1>4. session' = [session EXCEPT ![p] = s] /\ s.id = session[p].id
  BY <1>3 DEF Inv, TypeOK
<1> HIDE DEF s
<1>5. /\ excused \subseteq excused'
      /\ \/ log' = <<>> /\ excused' = excused \cup Ids(log) /\ trouble' = trouble
         \/ log' = log /\ trouble' = trouble + 1
  BY DEF Reset, Fault
<1>6. SessionsApart' /\ PiecesKnown'
  <2>1. r.id[1] = s.id BY <1>1, <1>2, <1>4 DEF LogInv, PiecesKnown, Logging
  <2>2. \A i \in 1..Len(log') : \E j \in 1..Len(log) : log[j] = log'[i] BY <1>5
  <2>3. left'["open"] = left["open"] BY <1>3
  <2> QED BY <1>2, <1>4, <2>1, <2>2, <2>3, NumbersStay DEF LoadSteps
<1>7. \A u \in Threads : task'[u] = IF u = t THEN r ELSE task[u] BY <1>2 DEF Inv, TypeOK
<1>8. OneHolds' BY <1>1, <1>3, <1>7 DEF LogInv, OneHolds, Holding
<1>9. CASE log' = log /\ trouble' = trouble + 1
  <2>1. TextsStay' /\ LastIsEnded' /\ NoneFollows'
    BY <1>1, <1>2, <1>3, <1>4, <1>5, <1>9, EndStays
  <2>2. RoomIsKept'
    <3>1. /\ At({"text"})' \subseteq At({"text"}) \cup {p}
          /\ At({"text", "end"})' \subseteq At({"text", "end"}) \cup {p}
      BY <1>7 DEF At
    <3>2. Len(log') = Len(log) /\ Len(log) \in Nat /\ trouble' \in Nat /\ trouble <= trouble'
      BY <1>9 DEF Inv, TypeOK
    <3> QED BY <1>2, <1>9, <3>1, <3>2, RoomStays DEF LogInv
  <2> QED BY <1>6, <1>8, <2>1, <2>2 DEF LogInv
<1>10. CASE log' = <<>> /\ excused' = excused \cup Ids(log) /\ trouble' = trouble
  <2>1. LastIsEnded' /\ NoneFollows' BY <1>10 DEF LastIsEnded, NoneFollows
  <2>2. \A id \in EventIds : id[1] > 0 /\ Has(id) => id \in excused'
    <3> SUFFICES ASSUME NEW id \in EventIds, id[1] > 0, Has(id) PROVE id \in Ids(log)
      BY <1>10
    <3>1. PICK i \in 1..Len(log) : log[i] = Text(id) BY DEF Has
    <3>2. log[i] \in Range(log) BY DEF Range, Inv, TypeOK
    <3> QED BY <3>1, <3>2, TextIs DEF Ids
  <2>3. TextsStay'
    <3>1. \A id \in traced : id[1] > 0 /\ id \in excused'
      BY <1>5, <2>2 DEF LogInv, TextsStay, Inv, TypeOK
    <3>2. ASSUME NEW u \in Threads, task[u].step = "end" PROVE task[u].id \in excused'
      <4>1. /\ task[u].id \in EventIds /\ ProcessOf[u] \in Processes
            /\ session[ProcessOf[u]] # None /\ session[ProcessOf[u]] \in Sessions
        BY <3>2, LogAt DEF Logging
      <4>2. task[u].id[1] = session[ProcessOf[u]].id /\ session[ProcessOf[u]].id > left["open"]
        BY <3>2, <4>1 DEF LogInv, PiecesKnown, SessionsApart, Logging
      <4>3. session[ProcessOf[u]].id \in Nat /\ left["open"] \in Nat
        BY <4>1 DEF Sessions, Inv, TypeOK
      <4>4. task[u].id[1] > 0 BY <4>2, <4>3
      <4> QED BY <1>5, <2>2, <3>2, <4>1, <4>4 DEF LogInv, TextsStay
    <3> QED BY <1>2, <1>3, <1>7, <3>1, <3>2 DEF TextsStay
  <2>4. RoomIsKept'
    <3>1. Len(log') = 0 /\ trouble' \in Nat /\ trouble <= trouble'
      BY <1>10 DEF Inv, TypeOK
    <3> QED BY <1>2, <3>1, RoomStays DEF LogInv
  <2> QED BY <1>6, <1>8, <2>1, <2>3, <2>4 DEF LogInv
<1> QED BY <1>5, <1>9, <1>10

(* A thread that goes on with r without holding the lock any longer.        *)
LEMMA LetsGo ==
    ASSUME Inv, LogInv, NEW t \in Threads, task[t].step \in Holding,
           NEW r, task' = [task EXCEPT ![t] = r],
           NEW s, session' = [session EXCEPT ![ProcessOf[t]] = s],
           r.step \in Holding => s.lock = session[ProcessOf[t]].lock
    PROVE  OneHolds'
<1>1. \A u \in Threads : task'[u] = IF u = t THEN r ELSE task[u] BY DEF Inv, TypeOK
<1>2. \A q \in Processes : session'[q] = IF q = ProcessOf[t] THEN s ELSE session[q]
  BY DEF Inv, TypeOK
<1>3. \A u \in Threads : task[u].step \in Holding /\ u # t => ProcessOf[u] # ProcessOf[t]
  BY OneAtOnce
<1> QED BY <1>1, <1>2, <1>3, ThreadsRun DEF LogInv, OneHolds

(* A thread leaves a step that no other thread of its process is at.        *)
LEMMA Leaves ==
    ASSUME Inv, LogInv, NEW t \in Threads, NEW r, task' = [task EXCEPT ![t] = r],
           NEW steps \in SUBSET Holding, task[t].step \in steps, r.step \notin steps
    PROVE  At(steps)' \subseteq At(steps) \ {ProcessOf[t]} /\ ProcessOf[t] \in At(steps)
<1>1. \A u \in Threads : task'[u] = IF u = t THEN r ELSE task[u] BY DEF Inv, TypeOK
<1>2. \A u \in Threads : task[u].step \in steps /\ u # t => ProcessOf[u] # ProcessOf[t]
  BY OneAtOnce
<1> QED BY <1>1, <1>2, ThreadsRun DEF At

LEMMA WriteTextLog == ASSUME Inv, LogInv, NEW t \in Threads, WriteText(t) PROVE LogInv'
<1> DEFINE p == ProcessOf[t]
           id == task[t].id
<1>1. task[t].step = "text" BY DEF WriteText, IsAt
<1>2. /\ p \in Processes /\ session[p] # None /\ session[p] \in Sessions
      /\ id \in EventIds /\ id[1] = session[p].id
      /\ task[t] \in [step : Logging, id : EventIds]
  BY <1>1, LogAt, Carried DEF Logging, LogInv, PiecesKnown, Inv, TypeOK
<1>3. UNCHANGED <<traced, left>> BY DEF WriteText
<1>4. Text(id) \in Pieces /\ Half(id) \in Pieces BY <1>2, LogTypes
<1>5. ASSUME NEW x \in Pieces, log' = Append(log, x), x.by = id[1]
      PROVE  \A i \in 1..Len(log') :
               \/ log'[i] = EndOfLine \/ log'[i].by = session[p].id
               \/ \E j \in 1..Len(log) : log[j] = log'[i]
  BY <1>2, <1>5, Longer
<1>6. CASE log' = Append(log, Text(id)) /\ Step(t, "end") /\ UNCHANGED <<session, trouble, excused>>
  <2> DEFINE r == [task[t] EXCEPT !.step = "end"]
             s == session[p]
  <2>1. r.step = "end" /\ task' = [task EXCEPT ![t] = r] /\ r.id = id
    BY <1>1, <1>2, <1>6, LogAt DEF Logging
  <2>2. session' = [session EXCEPT ![p] = s] /\ s.id = session[p].id /\ s.lock = session[p].lock
    BY <1>6 DEF Inv, TypeOK
  <2> HIDE DEF r, s
  <2>3. SessionsApart' /\ PiecesKnown'
    <3>1. \A i \in 1..Len(log') :
               \/ log'[i] = EndOfLine \/ log'[i].by = s.id
               \/ \E j \in 1..Len(log) : log[j] = log'[i]
      BY <1>2, <1>4, <1>5, <1>6, <2>2, TextIs
    <3>2. left'["open"] = left["open"] BY <1>3
    <3>3. r.step \notin LoadSteps /\ r.id[1] = s.id BY <1>2, <2>1, <2>2 DEF LoadSteps
    <3> HIDE DEF p, id
    <3> QED BY <1>2, <2>1, <2>2, <3>1, <3>2, <3>3, NumbersStay DEF p
  <2>4. OneHolds' BY <1>1, <2>1, <2>2, LetsGo DEF Holding
  <2>5. TextsStay' BY <1>1, <1>3, <1>4, <1>6, <2>1, MoreIsKept DEF Logging
  <2>6. \A u \in Threads : task'[u] = IF u = t THEN r ELSE task[u] BY <2>1 DEF Inv, TypeOK
  <2>7. log'[Len(log')] = Text(id) /\ Text(id).by = session[p].id /\ Id(Text(id)) = id
    BY <1>2, <1>4, <1>6, Longer, TextIs
  <2>8. LastIsEnded'
    <3> SUFFICES ASSUME NEW q \in Processes, session[q] # None, session[q].id = session[p].id
                 PROVE  \E u \in Threads : /\ ProcessOf[u] = q /\ task'[u].step = "end"
                                           /\ task'[u].id = id
      BY <1>6, <2>7 DEF LastIsEnded
    <3>1. q = p BY <1>2 DEF LogInv, SessionsApart
    <3> QED BY <2>1, <2>6, <3>1
  <2>9. NoneFollows'
    <3> SUFFICES ASSUME NEW i \in 1..Len(log'), i > 1, Unended(log'[i - 1])
                 PROVE  \/ log'[i] = EndOfLine \/ ~log'[i].whole
                        \/ log'[i].by # log'[i - 1].by
      BY <1>6 DEF NoneFollows, Unended
    <3>1. CASE i \in 1..Len(log)
      <4>1. i - 1 \in 1..Len(log) BY <3>1, <1>4, <1>6, Longer
      <4>2. log'[i] = log[i] /\ log'[i - 1] = log[i - 1] BY <3>1, <4>1, <1>4, <1>6, Longer
      <4> QED BY <3>1, <4>2 DEF LogInv, NoneFollows
    <3>2. CASE i = Len(log) + 1
      <4>1. Len(log) \in Nat /\ Len(log) > 0 /\ i - 1 = Len(log) /\ Len(log) \in 1..Len(log)
        BY <3>2, <1>4, <1>6, Longer
      <4>2. log'[i] = Text(id) /\ log'[i - 1] = log[Len(log)]
        BY <3>2, <4>1, <2>7, <1>4, <1>6, Longer
      <4>3. ASSUME log[Len(log)].by = session[p].id PROVE FALSE
        <5>1. PICK u \in Threads : ProcessOf[u] = p /\ task[u].step = "end"
          BY <1>2, <4>1, <4>2, <4>3 DEF LogInv, LastIsEnded
        <5>2. u = t BY <1>1, <5>1, OneAtOnce DEF Holding
        <5> QED BY <1>1, <5>1, <5>2
      <4> QED BY <2>7, <4>2, <4>3
    <3> QED BY <1>4, <1>6, <3>1, <3>2, Longer
  <2>10. RoomIsKept'
    <3>1. At({"text"})' \subseteq At({"text"}) \ {p} /\ p \in At({"text"})
      BY <1>1, <2>1, Leaves DEF Holding
    <3>2. At({"text", "end"})' \subseteq At({"text", "end"})
      BY <1>1, <2>6 DEF At
    <3>3. /\ Len(log') \in Nat /\ Len(log') <= Len(log) + 1
          /\ trouble' \in Nat /\ trouble <= trouble'
      BY <1>4, <1>6, Longer DEF Inv, TypeOK
    <3> QED BY <1>2, <3>1, <3>2, <3>3, RoomStays DEF LogInv
  <2> QED BY <2>3, <2>4, <2>5, <2>8, <2>9, <2>10 DEF LogInv
<1>7. CASE log' \in {log, Append(log, Half(id))} /\ Unwritten(t)
  <2> DEFINE s == [session[p] EXCEPT !.lock = None]
  <2>1. s.id = session[p].id BY <1>2 DEF Sessions
  <2>2. /\ session' = [session EXCEPT ![p] = s] /\ task' = [task EXCEPT ![t] = Idle]
        /\ excused' = excused \cup {id} /\ trouble' = trouble + 1
    BY <1>7 DEF Unwritten, Unlocks, Done, Does, Fault
  <2> HIDE DEF s
  <2>3. Idle.step = "idle" BY Constants
  <2>4. \A u \in Threads : task'[u] = IF u = t THEN Idle ELSE task[u] BY <2>2 DEF Inv, TypeOK
  <2>5. SessionsApart' /\ PiecesKnown'
    <3>1. \A i \in 1..Len(log') :
               \/ log'[i] = EndOfLine \/ log'[i].by = s.id
               \/ \E j \in 1..Len(log) : log[j] = log'[i]
      <4>1. CASE log' = log BY <4>1
      <4>2. CASE log' = Append(log, Half(id)) BY <1>2, <1>4, <1>5, <2>1, <4>2, TextIs
      <4> QED BY <1>7, <4>1, <4>2
    <3>2. left'["open"] = left["open"] BY <1>3
    <3>3. Idle.step \notin LoadSteps /\ Idle.step \notin Logging
      BY <2>3 DEF LoadSteps, Logging
    <3> HIDE DEF p, id
    <3> QED BY <1>2, <2>1, <2>2, <3>1, <3>2, <3>3, NumbersStay DEF p
  <2>6. OneHolds' BY <1>1, <2>2, <2>3, LetsGo DEF Holding
  <2>7. TextsStay' /\ LastIsEnded' /\ NoneFollows'
    <3>1. CASE log' = log
      BY <1>1, <1>2, <1>3, <2>1, <2>2, <2>3, <3>1, EndStays
    <3>2. CASE log' = Append(log, Half(id))
      <4>1. TextsStay' BY <1>1, <1>3, <1>4, <2>2, <2>3, <3>2, MoreIsKept DEF Logging
      <4>2. log'[Len(log')] = Half(id) /\ ~Half(id).whole
        BY <1>2, <1>4, <3>2, Longer, TextIs
      <4>3. LastIsEnded' BY <4>2 DEF LastIsEnded, Unended
      <4>4. NoneFollows'
        <5> SUFFICES ASSUME NEW i \in 1..Len(log'), i > 1, Unended(log'[i - 1])
                     PROVE  \/ log'[i] = EndOfLine \/ ~log'[i].whole
                            \/ log'[i].by # log'[i - 1].by
          BY <2>2 DEF NoneFollows, Unended
        <5>1. CASE i \in 1..Len(log)
          <6>1. i - 1 \in 1..Len(log) BY <5>1, <1>4, <3>2, Longer
          <6>2. log'[i] = log[i] /\ log'[i - 1] = log[i - 1] BY <5>1, <6>1, <1>4, <3>2, Longer
          <6> QED BY <5>1, <6>2 DEF LogInv, NoneFollows
        <5>2. CASE i = Len(log) + 1 BY <5>2, <4>2, <1>4, <3>2, Longer
        <5> QED BY <1>4, <3>2, <5>1, <5>2, Longer
      <4> QED BY <4>1, <4>3, <4>4
    <3> QED BY <1>7, <3>1, <3>2
  <2>8. RoomIsKept'
    <3>1. At({"text"})' \subseteq At({"text"}) \ {p} /\ p \in At({"text"})
      BY <1>1, <2>2, <2>3, Leaves DEF Holding
    <3>2. At({"text", "end"})' \subseteq At({"text", "end"}) BY <1>1, <2>3, <2>4 DEF At
    <3>3. Len(log') \in Nat /\ Len(log') <= Len(log) + 1
      BY <1>4, <1>7, Longer DEF Inv, TypeOK
    <3>4. trouble' \in Nat /\ trouble <= trouble' BY <2>2 DEF Inv, TypeOK
    <3> QED BY <1>2, <3>1, <3>2, <3>3, <3>4, RoomStays DEF LogInv
  <2> QED BY <2>5, <2>6, <2>7, <2>8 DEF LogInv
<1> QED BY <1>6, <1>7 DEF WriteText

LEMMA WriteEndLog == ASSUME Inv, LogInv, NEW t \in Threads, WriteEnd(t) PROVE LogInv'
<1> DEFINE p == ProcessOf[t]
           id == task[t].id
           s == [session[p] EXCEPT !.lock = None]
<1>1. task[t].step = "end" BY DEF WriteEnd, IsAt
<1>2. p \in Processes /\ session[p] # None /\ session[p] \in Sessions /\ id \in EventIds
  BY <1>1, LogAt DEF Logging
<1>3. left' = left BY DEF WriteEnd
<1>4. EndOfLine \in Pieces BY <1>2, LogTypes
<1>5. s.id = session[p].id BY <1>2 DEF Sessions
<1>6. session' = [session EXCEPT ![p] = s] /\ task' = [task EXCEPT ![t] = Idle]
  BY DEF WriteEnd, Unwritten, Unlocks, Done, Does
<1> HIDE DEF s
<1>7. /\ excused \subseteq excused'
      /\ \/ log' = Append(log, EndOfLine) /\ traced' = traced \cup {id} /\ excused' = excused
         \/ log' = log /\ traced' = traced /\ id \in excused'
      /\ trouble' \in Nat /\ trouble <= trouble'
  BY DEF WriteEnd, Unwritten, Fault, Inv, TypeOK
<1>8. Idle.step = "idle" /\ Idle.step \notin LoadSteps /\ Idle.step \notin Logging
  BY Constants DEF LoadSteps, Logging
<1>9. SessionsApart' /\ PiecesKnown'
  <2>1. \A i \in 1..Len(log') :
             \/ log'[i] = EndOfLine \/ log'[i].by = s.id
             \/ \E j \in 1..Len(log) : log[j] = log'[i]
    <3>1. CASE log' = log BY <3>1
    <3>2. CASE log' = Append(log, EndOfLine) BY <1>4, <3>2, Longer
    <3> QED BY <1>7, <3>1, <3>2
  <2>2. left'["open"] = left["open"] BY <1>3
  <2> HIDE DEF p, id
  <2> QED BY <1>2, <1>5, <1>6, <1>8, <2>1, <2>2, NumbersStay DEF p
<1>10. OneHolds' BY <1>1, <1>6, <1>8, LetsGo DEF Holding
<1>11. TextsStay' /\ LastIsEnded' /\ NoneFollows'
  <2>1. CASE log' = log /\ traced' = traced /\ id \in excused'
    BY <1>2, <1>5, <1>6, <1>7, <1>8, <2>1, EndStays
  <2>2. CASE log' = Append(log, EndOfLine) /\ traced' = traced \cup {id} /\ excused' = excused
    <3>1. TextsStay' BY <1>1, <1>4, <1>6, <1>7, <1>8, <2>2, MoreIsKept DEF Logging
    <3>2. log'[Len(log')] = EndOfLine BY <1>4, <2>2, Longer
    <3>3. LastIsEnded' BY <3>2 DEF LastIsEnded, Unended
    <3>4. NoneFollows'
      <4> SUFFICES ASSUME NEW i \in 1..Len(log'), i > 1, Unended(log'[i - 1])
                   PROVE  \/ log'[i] = EndOfLine \/ ~log'[i].whole
                          \/ log'[i].by # log'[i - 1].by
        BY <2>2 DEF NoneFollows, Unended
      <4>1. CASE i \in 1..Len(log)
        <5>1. i - 1 \in 1..Len(log) BY <4>1, <1>4, <2>2, Longer
        <5>2. log'[i] = log[i] /\ log'[i - 1] = log[i - 1] BY <4>1, <5>1, <1>4, <2>2, Longer
        <5> QED BY <4>1, <5>2 DEF LogInv, NoneFollows
      <4>2. CASE i = Len(log) + 1 BY <3>2, <4>2, <1>4, <2>2, Longer
      <4> QED BY <1>4, <2>2, <4>1, <4>2, Longer
    <3> QED BY <3>1, <3>3, <3>4
  <2> QED BY <1>7, <2>1, <2>2
<1>12. RoomIsKept'
  <2>1. \A u \in Threads : task'[u] = IF u = t THEN Idle ELSE task[u] BY <1>6 DEF Inv, TypeOK
  <2>2. At({"text"})' \subseteq At({"text"}) BY <1>8, <2>1 DEF At
  <2>3. /\ At({"text", "end"})' \subseteq At({"text", "end"}) \ {p}
        /\ p \in At({"text", "end"})
    BY <1>1, <1>6, <1>8, Leaves DEF Holding
  <2>4. Len(log') \in Nat /\ Len(log') <= Len(log) + 1 BY <1>4, <1>7, Longer DEF Inv, TypeOK
  <2> QED BY <1>2, <1>7, <2>2, <2>3, <2>4, RoomStays DEF LogInv
<1> QED BY <1>9, <1>10, <1>11, <1>12 DEF LogInv

(* A process that closes its session or is killed: none of its threads are  *)
(* at work any longer.                                                      *)
LEMMA GoneLog ==
    ASSUME Inv, LogInv, NEW p \in Processes, session' = [session EXCEPT ![p] = None],
           \A t \in Threads : IF ProcessOf[t] = p THEN task'[t].step = "idle"
                              ELSE task'[t] = task[t],
           UNCHANGED <<trail, left>>, trouble' \in {trouble, trouble + 1}
    PROVE  LogInv'
<1>1. UNCHANGED <<log, traced, excused, left>> BY DEF trail
<1>2. \A q \in Processes : session'[q] = IF q = p THEN None ELSE session[q]
  BY DEF Inv, TypeOK
<1>3. \A t \in Threads :
          /\ Opening(t)' => Opening(t) /\ task'[t] = task[t] /\ ProcessOf[t] # p
          /\ task'[t].step \in Logging =>
                 task[t].step \in Logging /\ task'[t] = task[t] /\ ProcessOf[t] # p
  BY DEF Opening, LoadSteps, Logging
<1>4. SessionsApart'
  <2>1. \A q \in Processes : session'[q] # None => session[q] # None /\ session'[q] = session[q]
    BY <1>2
  <2>2. \A t \in Threads : Opening(t)' => session'[ProcessOf[t]] = session[ProcessOf[t]]
    BY <1>2, <1>3, ThreadsRun
  <2> QED BY <1>1, <1>3, <2>1, <2>2 DEF LogInv, SessionsApart
<1>5. PiecesKnown' BY <1>1, <1>2, <1>3, ThreadsRun DEF LogInv, PiecesKnown
<1>6. OneHolds' BY <1>2, <1>3, ThreadsRun DEF LogInv, OneHolds, Holding, Logging
<1>7. TextsStay' BY <1>1, <1>3 DEF LogInv, TextsStay, Has, Logging
<1>8. LastIsEnded'
  <2> SUFFICES ASSUME Len(log) > 0, Unended(log[Len(log)]), NEW q \in Processes,
                      session'[q] # None, session'[q].id = log[Len(log)].by
               PROVE  \E u \in Threads : /\ ProcessOf[u] = q /\ task'[u].step = "end"
                                         /\ task'[u].id = Id(log[Len(log)])
    BY <1>1 DEF LastIsEnded, Unended
  <2>1. q # p /\ session[q] # None /\ session[q].id = log[Len(log)].by BY <1>2
  <2>2. PICK u \in Threads : /\ ProcessOf[u] = q /\ task[u].step = "end"
                             /\ task[u].id = Id(log[Len(log)])
    BY <2>1 DEF LogInv, LastIsEnded
  <2>3. task'[u] = task[u] BY <2>1, <2>2
  <2> QED BY <2>2, <2>3
<1>9. NoneFollows' BY <1>1 DEF LogInv, NoneFollows, Unended
<1>10. RoomIsKept'
  <2>1. At({"text"})' \subseteq At({"text"}) /\ At({"text", "end"})' \subseteq At({"text", "end"})
    BY <1>3 DEF At, Logging
  <2>2. Len(log') = Len(log) /\ Len(log) \in Nat /\ trouble' \in Nat /\ trouble <= trouble'
    BY <1>1 DEF Inv, TypeOK
  <2> QED BY <2>1, <2>2, RoomStays DEF LogInv
<1> QED BY <1>4, <1>5, <1>6, <1>7, <1>8, <1>9, <1>10 DEF LogInv

LEMMA CloseLog == ASSUME Inv, LogInv, NEW p \in Processes, Close(p) PROVE LogInv'
<1>1. \A t \in Threads : IF ProcessOf[t] = p THEN task'[t].step = "idle"
                         ELSE task'[t] = task[t]
  BY Constants DEF Close, Free
<1> QED BY <1>1, GoneLog DEF Close

LEMMA CrashLog == ASSUME Inv, LogInv, NEW p \in Processes, Crash(p) PROVE LogInv'
<1>1. \A t \in Threads : IF ProcessOf[t] = p THEN task'[t].step = "idle"
                         ELSE task'[t] = task[t]
  BY Constants DEF Crash
<1> QED BY <1>1, GoneLog DEF Crash, Fault

(* Commands on the two files.                                               *)
LEMMA CopyLog ==
    ASSUME Inv, LogInv, NEW t \in Threads,
           \/ LoadConfig(t) \/ OpenUnlogged(t) \/ Migrate(t)
           \/ CopyCreates(t) \/ CopyFills(t) \/ CopyEnds(t)
    PROVE  LogInv'
<1>1. CASE LoadConfig(t)
  BY <1>1, LoadedLog DEF LoadConfig, IsAt, LoadSteps
<1>2. CASE OpenUnlogged(t)
  BY <1>2, OpenedLog DEF OpenUnlogged, IsAt, LoadSteps, Opening, Fault
<1>3. CASE Migrate(t)
  <2> DEFINE r == [task[t] EXCEPT !.step = "copy"]
  <2>1. task[t].step = "load" BY <1>3 DEF Migrate, IsAt
  <2>2. r.step = "copy" /\ r.job = task[t].job
    BY <2>1, GoesOn DEF Inv, TypeOK
  <2>3. task' = [task EXCEPT ![t] = r] BY <1>3 DEF Migrate, Step, Inv, TypeOK
  <2> HIDE DEF r
  <2> QED BY <1>3, <2>1, <2>2, <2>3, GoesElsewhere DEF Migrate, Opening, LoadSteps, Logging
<1>4. CASE CopyCreates(t)
  <2>1. task[t].step = "copy" BY <1>4 DEF CopyCreates, IsAt
  <2>2. CASE /\ Does(t, [step |-> "fill", job |-> task[t].job, base |-> task[t].base,
                         text |-> legacy])
             /\ UNCHANGED <<session, trouble>>
    <3> DEFINE r == [step |-> "fill", job |-> task[t].job, base |-> task[t].base,
                     text |-> legacy]
    <3>1. r.step = "fill" /\ r.job = task[t].job OBVIOUS
    <3>2. task' = [task EXCEPT ![t] = r] BY <2>2 DEF Does
    <3> HIDE DEF r
    <3>3. UNCHANGED <<trail, left>> BY <1>4 DEF CopyCreates
    <3> QED BY <2>1, <2>2, <3>1, <3>2, <3>3, GoesElsewhere DEF Opening, LoadSteps, Logging
  <2>3. CASE Loaded(t, legacy) /\ trouble' \in {trouble, trouble + 1}
    <3>1. UNCHANGED <<trail, left>> BY <1>4 DEF CopyCreates
    <3> QED BY <2>1, <2>3, <3>1, LoadedLog DEF LoadSteps
  <2> QED BY <1>4, <2>2, <2>3 DEF CopyCreates, Fault
<1>5. CASE CopyFills(t)
  <2>1. task[t].step = "fill" /\ UNCHANGED <<trail, left>> BY <1>5 DEF CopyFills, IsAt
  <2>2. CASE Step(t, "backup") /\ UNCHANGED <<session, trouble>>
    <3> DEFINE r == [task[t] EXCEPT !.step = "backup"]
    <3>1. r.step = "backup" /\ r.job = task[t].job
      BY <2>1, GoesOn DEF Inv, TypeOK
    <3>2. task' = [task EXCEPT ![t] = r] BY <2>2 DEF Step, Inv, TypeOK
    <3> HIDE DEF r
    <3> QED BY <2>1, <2>2, <3>1, <3>2, GoesElsewhere DEF Opening, LoadSteps, Logging
  <2>3. CASE Loaded(t, legacy) /\ Fault
    BY <2>1, <2>3, LoadedLog DEF LoadSteps, Fault
  <2> QED BY <1>5, <2>2, <2>3 DEF CopyFills
<1>6. CASE CopyEnds(t)
  <2>1. /\ task[t].step \in LoadSteps /\ Loaded(t, config) /\ UNCHANGED <<trail, left>>
        /\ trouble' \in {trouble, trouble + 1}
    BY <1>6 DEF CopyEnds, IsAt, LoadSteps, Fault
  <2> QED BY <2>1, LoadedLog
<1> QED BY <1>1, <1>2, <1>3, <1>4, <1>5, <1>6

(* The other commands on them take a thread from one step to another.       *)
LEMMA EditLog ==
    ASSUME Inv, LogInv, NEW t \in Threads,
           \/ EditConfig(t) \/ SaveEmpties(t) \/ SaveFills(t)
           \/ \E profile \in Profiles, name \in Secrets : StartAdd(t, profile, name)
           \/ AddReads(t) \/ AddReplaces(t) \/ AddFails(t) \/ StartInit(t)
           \/ \E profile \in Profiles, found \in SUBSET Secrets :
                  InitEmpties(t, profile, found)
           \/ InitFills(t)
    PROVE  LogInv'
<1>1. /\ UNCHANGED <<trail, session>> /\ left'["open"] = left["open"]
      /\ trouble' \in {trouble, trouble + 1} /\ task[t].step \notin Logging
  <2>1. task[t].step \in {"idle", "save", "write", "describe", "replace", "reflect",
                          "initialize"}
    BY Constants DEF EditConfig, Loads, SaveEmpties, SaveFills, StartAdd, AddReads, AddReplaces,
       AddFails, StartInit, InitEmpties, InitFills, IsAt, Free
  <2>2. UNCHANGED <<trail, session>> /\ left'["open"] = left["open"]
    BY DEF EditConfig, SaveEmpties, SaveFills, StartAdd, AddReads, AddReplaces,
           AddFails, StartInit, InitEmpties, InitFills, Spends, Inv, TypeOK
  <2>3. trouble' \in {trouble, trouble + 1}
    BY DEF EditConfig, SaveEmpties, SaveFills, StartAdd, AddReads, AddReplaces,
           AddFails, StartInit, InitEmpties, InitFills, Fault
  <2> QED BY <2>1, <2>2, <2>3 DEF Logging
<1>2. CASE EditConfig(t)
  <2>1. PICK edit \in Edits : Loads(t, edit) BY <1>2 DEF EditConfig
  <2> DEFINE r == [step |-> "load", job |-> edit, base |-> manifest]
  <2>2. r.step = "load" /\ r.job.op # "open" BY DEF Edits
  <2>3. task' = [task EXCEPT ![t] = r] BY <2>1 DEF Loads, Does
  <2> HIDE DEF r
  <2> QED BY <1>1, <2>2, <2>3, GoesElsewhere DEF Logging
<1>3. CASE \E r : Does(t, r) /\ r.step \notin LoadSteps /\ r.step \notin Logging
  BY <1>1, <1>3, GoesElsewhere DEF Does
<1>4. CASE AddReplaces(t)
  <2>1. \A u \in Threads :
            \/ task'[u] = task[u]
            \/ /\ task'[u].step \in {"idle", "initialize"}
               /\ task[u].step \in {"replace", "initialize"}
    <3>1. \A u \in Threads : task[u] \in Tasks BY DEF Inv, TypeOK
    <3> QED BY <1>4, <3>1, GoesOn, Constants DEF AddReplaces, IsAt
  <2>2. \A u \in Threads :
            /\ task[u].step \in Logging \/ task'[u].step \in Logging => task'[u] = task[u]
            /\ Opening(u)' => Opening(u) /\ task'[u].job = task[u].job
    BY <2>1 DEF Opening, LoadSteps, Logging
  <2> QED BY <1>1, <2>2, Elsewhere
<1>5. ASSUME ~EditConfig(t), ~AddReplaces(t)
      PROVE  \E r : Does(t, r) /\ r.step \notin LoadSteps /\ r.step \notin Logging
  <2>1. Idle.step \notin LoadSteps /\ Idle.step \notin Logging
    BY Constants DEF LoadSteps, Logging
  <2>2. CASE SaveEmpties(t)
    <3>1. CASE Done(t) BY <2>1, <3>1 DEF Done
    <3>2. CASE Step(t, "write")
      <4> DEFINE r == [task[t] EXCEPT !.step = "write"]
      <4>1. r.step = "write" BY <2>2, GoesOn DEF SaveEmpties, IsAt, Inv, TypeOK
      <4>2. Does(t, r) BY <3>2 DEF Step, Does, Inv, TypeOK
      <4> HIDE DEF r
      <4> QED BY <4>1, <4>2 DEF LoadSteps, Logging
    <3> QED BY <2>2, <3>1, <3>2 DEF SaveEmpties
  <2>3. CASE SaveFills(t) BY <2>1, <2>3 DEF SaveFills, Done
  <2>4. CASE \E profile \in Profiles, name \in Secrets : StartAdd(t, profile, name)
    <3>1. PICK r : Does(t, r) /\ r.step = "describe"
      BY <2>4 DEF StartAdd
    <3> QED BY <3>1 DEF LoadSteps, Logging
  <2>5. CASE AddReads(t)
    <3>1. Done(t) \/ \E r : Does(t, r) /\ r.step = "replace" BY <2>5 DEF AddReads
    <3> QED BY <2>1, <3>1 DEF LoadSteps, Logging, Done
  <2>6. CASE AddFails(t) BY <2>1, <2>6 DEF AddFails, Done
  <2>7. CASE StartInit(t)
    <3>1. PICK r : Does(t, r) /\ r.step = "reflect" BY <2>7 DEF StartInit
    <3> QED BY <3>1 DEF LoadSteps, Logging
  <2>8. CASE \E profile \in Profiles, found \in SUBSET Secrets :
                 InitEmpties(t, profile, found)
    <3>1. Done(t) \/ \E r : Does(t, r) /\ r.step = "initialize" BY <2>8 DEF InitEmpties
    <3> QED BY <2>1, <3>1 DEF LoadSteps, Logging, Done
  <2>9. CASE InitFills(t) BY <2>1, <2>9 DEF InitFills, Done
  <2> QED BY <1>5, <2>2, <2>3, <2>4, <2>5, <2>6, <2>7, <2>8, <2>9
<1> QED BY <1>2, <1>3, <1>4, <1>5

LEMMA NextLog == ASSUME Inv, LogInv, [Next]_vars PROVE LogInv'
<1>1. CASE UNCHANGED vars
  <2>1. UNCHANGED <<trail, session, left, trouble, task>> BY <1>1 DEF vars
  <2> QED BY <2>1, Elsewhere DEF Opening
<1>2. CASE EditByHand
  <2>1. UNCHANGED <<trail, session, task, trouble>> /\ left'["open"] = left["open"]
    BY <1>2 DEF EditByHand, Spends, Inv, TypeOK
  <2> QED BY <2>1, Elsewhere DEF Opening
<1>3. ASSUME NEW t \in Threads,
             Record(t) \/ Measure(t) \/ Reset(t) \/ WriteText(t) \/ WriteEnd(t)
      PROVE  LogInv'
  BY <1>3, RecordLog, MeasureLog, ResetLog, WriteTextLog, WriteEndLog
<1>4. ASSUME NEW p \in Processes, Close(p) \/ Crash(p) PROVE LogInv'
  BY <1>4, CloseLog, CrashLog
<1> QED BY <1>1, <1>2, <1>3, <1>4, OpenLog, CopyLog, EditLog DEF Next

LEMMA LogInvKeeps == ASSUME Inv, LogInv PROVE LogKeeps
<1>1. LogIsBounded
  <2> DEFINE a == Cardinality(At({"text"}))
             b == Cardinality(At({"text", "end"}))
             bound == Room + LineSize * (Cardinality(Processes) - 1 + trouble)
  <2>1. PICK p : p \in Processes BY CountsAreNatural
  <2>2. At({"text"}) \in SUBSET Processes /\ At({"text", "end"}) \in SUBSET Processes BY DEF At
  <2>3. a \in Nat /\ b \in Nat /\ Cardinality(Processes) \in Nat BY <2>1, <2>2, Counts
  <2>4. Room \in Nat /\ LineSize = 2 /\ trouble \in Nat /\ Len(log) \in Nat
    BY CountsAreNatural DEF Limit, Room, LineSize, Inv, TypeOK
  <2>5. bound \in Int BY <2>3, <2>4
  <2>6. Len(log) + a + b <= bound BY DEF LogInv, RoomIsKept
  <2> HIDE DEF a, b, bound
  <2>7. Len(log) <= bound BY <2>3, <2>4, <2>5, <2>6
  <2> QED BY <2>7 DEF bound, Room, LogIsBounded
<1>2. TracesLast
  <2> SUFFICES ASSUME NEW id \in traced, id \notin excused, id \notin Shown
               PROVE  \E i \in 1..Len(log) :
                          /\ log[i] = Text(id)
                          /\ \E other \in Beside(i) :
                                 other.by # id[1] \/ ~other.whole \/ Id(other) \in excused
    BY DEF TracesLast
  <2>1. id \in EventIds /\ id[1] > 0 /\ Has(id)
    BY DEF Inv, TypeOK, LogInv, TextsStay
  <2>2. PICK i \in 1..Len(log) : log[i] = Text(id) BY <2>1 DEF Has
  <2>3. /\ log[i] # EndOfLine /\ log[i].whole /\ Id(log[i]) = id /\ log[i].by = id[1]
    BY <2>1, <2>2, TextIs
  <2>4. ~Alone(i) BY <2>3 DEF Shown
  <2>5. Len(log) \in Nat /\ i \in Nat BY DEF Inv, TypeOK
  <2>6. CASE i > 1 /\ log[i - 1] # EndOfLine
    <3>1. i - 1 \in 1..Len(log) BY <2>5, <2>6
    <3>2. log[i - 1] \in Beside(i) BY <2>6, <3>1 DEF Beside
    <3>3. log[i - 1].by # id[1] \/ ~log[i - 1].whole \/ Id(log[i - 1]) \in excused
      BY <2>3, <2>6 DEF LogInv, NoneFollows, Unended
    <3> QED BY <2>2, <3>2, <3>3
  <2>7. CASE i < Len(log) /\ log[i + 1] # EndOfLine
    <3>1. i + 1 \in 1..Len(log) /\ i + 1 > 1 /\ (i + 1) - 1 = i BY <2>5, <2>7
    <3>2. log[i + 1] \in Beside(i) BY <2>7, <3>1 DEF Beside
    <3>3. Unended(log[i]) BY <2>3 DEF Unended
    <3>4. log[i + 1].by # id[1] \/ ~log[i + 1].whole
      BY <2>3, <2>7, <3>1, <3>3 DEF LogInv, NoneFollows
    <3> QED BY <2>2, <3>2, <3>4
  <2> QED BY <2>4, <2>6, <2>7 DEF Alone
<1> QED BY <1>1, <1>2 DEF LogKeeps

(***************************************************************************)
(* The audit log outgrows its cap by at most a line for each other process *)
(* and each fault, and keeps every event whose recording returned, unless  *)
(* a reset dropped it, its loss was announced or text that is not its      *)
(* session's stands on its line (audit.rs locks the file per process).     *)
(***************************************************************************)
THEOREM LogStays == Spec => []LogKeeps
<1>1. Init => Inv /\ LogInv BY InitInv, InitLog
<1>2. Inv /\ LogInv /\ [Next]_vars => Inv' /\ LogInv' BY NextInv, NextLog
<1>3. Inv /\ LogInv => LogKeeps BY LogInvKeeps
<1> QED BY <1>1, <1>2, <1>3, PTL DEF Spec
=============================================================================
