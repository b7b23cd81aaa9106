------------------------- MODULE DiagnosticsProofs -------------------------
(***************************************************************************)
(* Of Diagnostics, for any number of documents, changes and saves, however *)
(* the threads meet: the timers are found by what cancels them, and so are *)
(* the tasks, but for the strays; nothing else runs for a closed document, *)
(* and nothing else replaces newer diagnostics by older ones, but a task   *)
(* of a document of which a change is on its way to replace them in turn.  *)
(*                                                                         *)
(* TInv is of types and of the documents of tasks and timers.  LInv is of  *)
(* the registry: each task has its entry or somebody who sees to it, and   *)
(* an older task of a document is about to be superseded.  AgeInv says     *)
(* that nothing is newer than its text.  RunInv is of what runs from which *)
(* text, and of what will replace it.                                      *)
(***************************************************************************)
EXTENDS Diagnostics, TLAPS

(* What is known of who is in the middle of something.                     *)
DocumentsKnown ==
  /\ \A o \in owed : o.version \in Timers
  /\ main.at \in {"closing", "aborting", "cancelling"} => main.doc \in Documents
  /\ \A t \in Tasks : task[t].at # "unborn" => task[t].doc \in Documents
  /\ \A i \in Timers : timer[i].at # "unborn" => timer[i].doc \in Documents
  /\ \A a \in Registrars : registering[a].task # None =>
        task[registering[a].task].at # "unborn"
  /\ \A a \in Registrars : registering[a].previous # None =>
        task[registering[a].previous].at # "unborn"
  /\ main.handle # None => main.at = "aborting" /\ task[main.handle].at # "unborn"
  /\ \A d \in Documents : active_tasks[d] # None =>
        task[active_tasks[d]].at # "unborn"
  /\ \A i \in Timers : registering[i].task # None => timer[i].at # "unborn"

TInv == TypeOK /\ DocumentsKnown /\ SleepersTracked

LEMMA Apart ==
  /\ Main \notin Timers /\ None \notin Timers /\ None \notin Tasks
  /\ None \notin Registrars \ {Main} /\ None \notin Documents
  /\ Main \in Registrars /\ Timers \subseteq Registrars /\ Timers \subseteq Versions
  /\ 0 \in Versions /\ Versions \subseteq Nat /\ Timers \subseteq Nat
  /\ Tasks \subseteq Nat
BY DiagnosticsAssumption DEF Timers, Tasks, Registrars, Versions

LEMMA IdleFacts ==
  /\ Idle \in RegistrarRecord
  /\ Idle.task = None /\ Idle.finished = None /\ Idle.previous = None
BY DEF Idle, RegistrarRecord

LEMMA RestFacts ==
  ASSUME NEW l \in {"idle", "closing", "aborting", "cancelling", "clearing",
                    "stopping", "down"}
  PROVE  /\ Rest(l) \in MainRecord
         /\ Rest(l).at = l /\ Rest(l).doc = None /\ Rest(l).handle = None
BY DEF Rest, MainRecord

LEMMA UnbornFacts ==
  /\ Unborn \in TaskRecord /\ Unborn \in TimerRecord
  /\ Unborn.doc = None /\ Unborn.snapshot = 0 /\ Unborn.at = "unborn"
BY Apart DEF Unborn, TaskRecord, TimerRecord

(* The fields of the records, and what a change of one does.               *)
LEMMA TaskFields ==
  ASSUME NEW r \in TaskRecord, NEW l \in {"unborn", "collecting", "publishing", "done"}
  PROVE  /\ [r EXCEPT !.at = l] \in TaskRecord
         /\ [r EXCEPT !.at = l].at = l /\ [r EXCEPT !.at = l].doc = r.doc
         /\ [r EXCEPT !.at = l].snapshot = r.snapshot
         /\ r.doc \in Documents \cup {None} /\ r.snapshot \in Versions
         /\ r.at \in {"unborn", "collecting", "publishing", "done"}
BY DEF TaskRecord

LEMMA TimerFields ==
  ASSUME NEW r \in TimerRecord, NEW l \in {"unborn", "sleeping", "firing", "done"}
  PROVE  /\ [r EXCEPT !.at = l] \in TimerRecord
         /\ [r EXCEPT !.at = l].at = l /\ [r EXCEPT !.at = l].doc = r.doc
         /\ [r EXCEPT !.at = l].snapshot = r.snapshot
         /\ r.doc \in Documents \cup {None} /\ r.snapshot \in Versions
         /\ r.at \in {"unborn", "sleeping", "firing", "done"}
BY DEF TimerRecord

LEMMA RegistrarFields ==
  ASSUME NEW r \in RegistrarRecord, NEW t \in Tasks \cup {None},
         NEW f \in (SUBSET Documents) \cup {None}
  PROVE  /\ [r EXCEPT !.task = t] \in RegistrarRecord
         /\ [r EXCEPT !.task = t].task = t
         /\ [r EXCEPT !.task = t].finished = r.finished
         /\ [r EXCEPT !.task = t].previous = r.previous
         /\ [r EXCEPT !.finished = f] \in RegistrarRecord
         /\ [r EXCEPT !.finished = f].task = r.task
         /\ [r EXCEPT !.finished = f].finished = f
         /\ [r EXCEPT !.finished = f].previous = r.previous
         /\ [r EXCEPT !.previous = t] \in RegistrarRecord
         /\ [r EXCEPT !.previous = t].task = r.task
         /\ [r EXCEPT !.previous = t].previous = t
         /\ r.task \in Tasks \cup {None} /\ r.previous \in Tasks \cup {None}
         /\ r.finished \in (SUBSET Documents) \cup {None}
BY DEF RegistrarRecord

LEMMA MainFields ==
  ASSUME NEW r \in MainRecord, NEW d \in Documents \cup {None},
         NEW t \in Tasks \cup {None},
         NEW l \in {"idle", "closing", "aborting", "cancelling", "clearing",
                    "stopping", "down"}
  PROVE  /\ [r EXCEPT !.at = l, !.handle = t] \in MainRecord
         /\ [r EXCEPT !.at = l, !.handle = t].at = l
         /\ [r EXCEPT !.at = l, !.handle = t].doc = r.doc
         /\ [r EXCEPT !.at = l, !.handle = t].handle = t
         /\ [r EXCEPT !.doc = d] \in MainRecord
         /\ [r EXCEPT !.doc = d].at = r.at
         /\ [r EXCEPT !.doc = d].doc = d
         /\ [r EXCEPT !.doc = d].handle = r.handle
         /\ r.handle \in Tasks \cup {None} /\ r.doc \in Documents \cup {None}
BY DEF MainRecord

LEMMA InitTInv == Init => TInv
<1> SUFFICES ASSUME Init PROVE TInv
  OBVIOUS
<1>1. /\ task \in [Tasks -> TaskRecord] /\ timer \in [Timers -> TimerRecord]
      /\ \A t \in Tasks : task[t].at = "unborn"
      /\ \A i \in Timers : timer[i].at = "unborn"
  BY UnbornFacts DEF Init
<1>2. /\ registering \in [Registrars -> RegistrarRecord]
      /\ \A a \in Registrars : /\ registering[a].task = None
                               /\ registering[a].previous = None
  BY IdleFacts DEF Init
<1>3. /\ text \in [Documents -> Versions] /\ tree \subseteq Documents
      /\ version \in Versions /\ saves \in Versions /\ owed = {}
      /\ published \in [Documents -> Versions] /\ due \in [Documents -> Versions]
      /\ strays \subseteq Tasks
  BY Apart DEF Init
<1>4. main \in MainRecord /\ main.at = "idle" /\ main.handle = None
  BY RestFacts DEF Init
<1>5. /\ active_tasks \in [Documents -> Tasks \cup {None}]
      /\ \A d \in Documents : active_tasks[d] = None
      /\ active_timers \in [Documents -> Timers \cup {None}]
  BY DEF Init
<1>6. TypeOK
  BY <1>1, <1>2, <1>3, <1>4, <1>5 DEF TypeOK
<1>7. DocumentsKnown /\ SleepersTracked
  BY <1>1, <1>2, <1>3, <1>4, <1>5, Apart DEF DocumentsKnown, SleepersTracked
<1>8. QED
  BY <1>6, <1>7 DEF TInv
-----------------------------------------------------------------------------
(* What a step keeps: of the tasks, if none is born; of the registry; of   *)
(* the timers; of the rest.                                                *)
TasksKept ==
  /\ task' \in [Tasks -> TaskRecord]
  /\ \A t \in Tasks : /\ task[t].at = "unborn" <=> task'[t].at = "unborn"
                      /\ task'[t].doc = task[t].doc

EntriesKept ==
  /\ active_tasks' \in [Documents -> Tasks \cup {None}]
  /\ \A d \in Documents : active_tasks'[d] # None =>
        task[active_tasks'[d]].at # "unborn"
  /\ registering' \in [Registrars -> RegistrarRecord]
  /\ \A a \in Registrars : /\ registering'[a].task \in {None, registering[a].task}
                           /\ registering'[a].previous # None =>
                                task[registering'[a].previous].at # "unborn"

TimersKept ==
  /\ timer' \in [Timers -> TimerRecord]
  /\ \A i \in Timers : timer'[i].at # "unborn" => timer'[i].doc \in Documents
  /\ \A i \in Timers : timer[i].at # "unborn" => timer'[i].at # "unborn"
  /\ active_timers' \in [Documents -> Timers \cup {None}]
  /\ SleepersTracked'

MainKept ==
  /\ version' \in Versions /\ saves' \in Versions
  /\ owed' \subseteq [doc : Documents, kind : {"open", "change"}, version : Versions]
  /\ \A o \in owed' : o.version \in Timers
  /\ text' \in [Documents -> Versions] /\ tree' \subseteq Documents
  /\ main' \in MainRecord
  /\ main'.at \in {"closing", "aborting", "cancelling"} => main'.doc \in Documents
  /\ main'.handle # None => main'.at = "aborting" /\ task[main'.handle].at # "unborn"
  /\ published' \in [Documents -> Versions] /\ due' \in [Documents -> Versions]
  /\ strays' \subseteq Tasks

LEMMA RegistryTInv ==
  ASSUME TInv, MainKept, TasksKept, EntriesKept, TimersKept PROVE TInv'
<1>1. TypeOK'
  BY DEF TypeOK, MainKept, TasksKept, EntriesKept, TimersKept
<1>2. /\ \A o \in owed' : o.version \in Timers
      /\ main'.at \in {"closing", "aborting", "cancelling"} => main'.doc \in Documents
  BY DEF MainKept
<1>3. /\ \A t \in Tasks : task'[t].at # "unborn" => task'[t].doc \in Documents
      /\ \A i \in Timers : timer'[i].at # "unborn" => timer'[i].doc \in Documents
  BY DEF TInv, DocumentsKnown, TasksKept, TimersKept
<1>4. ASSUME NEW a \in Registrars, registering'[a].task # None
      PROVE  task'[registering'[a].task].at # "unborn"
  <2>1. registering'[a].task = registering[a].task
    BY <1>4 DEF EntriesKept
  <2>2. registering[a].task \in Tasks /\ task[registering[a].task].at # "unborn"
    BY <1>4, <2>1, RegistrarFields DEF TInv, TypeOK, DocumentsKnown
  <2>3. QED
    BY <2>1, <2>2 DEF TasksKept
<1>5. ASSUME NEW a \in Registrars, registering'[a].previous # None
      PROVE  task'[registering'[a].previous].at # "unborn"
  <2>1. registering'[a].previous \in Tasks
    BY <1>5, RegistrarFields DEF EntriesKept
  <2>2. task[registering'[a].previous].at # "unborn"
    BY <1>5 DEF EntriesKept
  <2>3. QED
    BY <2>1, <2>2 DEF TasksKept
<1>6. ASSUME NEW d \in Documents, active_tasks'[d] # None
      PROVE  task'[active_tasks'[d]].at # "unborn"
  BY <1>6 DEF EntriesKept, TasksKept
<1>7. main'.handle # None => main'.at = "aborting" /\ task'[main'.handle].at # "unborn"
  <2>1. main'.handle \in Tasks \cup {None}
    BY MainFields DEF MainKept
  <2>2. QED
    BY <2>1 DEF MainKept, TasksKept
<1>8. \A i \in Timers : registering'[i].task # None => timer'[i].at # "unborn"
  BY Apart DEF TInv, DocumentsKnown, EntriesKept, TimersKept
<1>9. DocumentsKnown'
  BY <1>2, <1>3, <1>4, <1>5, <1>6, <1>7, <1>8 DEF DocumentsKnown
<1>10. QED
  BY <1>1, <1>9 DEF TInv, TimersKept

(* What is kept by leaving it alone.                                       *)
LEMMA Kept ==
  ASSUME TInv
  PROVE  /\ UNCHANGED task => TasksKept
         /\ UNCHANGED <<active_tasks, registering>> => EntriesKept
         /\ UNCHANGED <<timer, active_timers>> => TimersKept
         /\ /\ UNCHANGED <<version, saves, owed, text, tree, main, published, due>>
            /\ strays' \subseteq Tasks
            => MainKept
<1>1. UNCHANGED task => TasksKept
  BY DEF TInv, TypeOK, TasksKept
<1>2. UNCHANGED <<active_tasks, registering>> => EntriesKept
  BY DEF TInv, TypeOK, DocumentsKnown, EntriesKept
<1>3. UNCHANGED <<timer, active_timers>> => TimersKept
  BY DEF TInv, TypeOK, DocumentsKnown, TimersKept, SleepersTracked
<1>4. /\ UNCHANGED <<version, saves, owed, text, tree, main, published, due>>
      /\ strays' \subseteq Tasks
      => MainKept
  BY DEF TInv, TypeOK, DocumentsKnown, MainKept
<1>5. QED
  BY <1>1, <1>2, <1>3, <1>4

(* The types, unfolded.                                                    *)
LEMMA Typed ==
  ASSUME TInv
  PROVE  /\ task \in [Tasks -> TaskRecord] /\ timer \in [Timers -> TimerRecord]
         /\ registering \in [Registrars -> RegistrarRecord] /\ main \in MainRecord
         /\ active_tasks \in [Documents -> Tasks \cup {None}]
         /\ active_timers \in [Documents -> Timers \cup {None}]
         /\ text \in [Documents -> Versions] /\ tree \subseteq Documents
         /\ version \in Versions /\ saves \in Versions
         /\ published \in [Documents -> Versions] /\ due \in [Documents -> Versions]
         /\ strays \subseteq Tasks
         /\ owed \subseteq [doc : Documents, kind : {"open", "change"},
                            version : Versions]
BY DEF TInv, TypeOK

(* The actions that store a text or a tree.                                *)
LEMMA StoreTInv ==
  ASSUME TInv, NEW d \in Documents, Open(d) \/ Change(d) \/ ParseOnDemand(d)
  PROVE  TInv'
<1>1. CASE Open(d) \/ Change(d)
  <2>1. PICK k \in {"open", "change"} : StoreText(d, k)
    BY <1>1 DEF Open, Change
  <2>2. /\ version' = version + 1 /\ version' \in Timers /\ version' \in Versions
        /\ text' = [text EXCEPT ![d] = version'] /\ tree' \subseteq Documents
        /\ owed' = owed \cup {[doc |-> d, kind |-> k, version |-> version']}
        /\ UNCHANGED <<saves, main, taskVars, timerVars, registering, published, due,
                       strays>>
    <3>1. version + saves < MaxInputs /\ version \in Nat /\ saves \in Nat /\ MaxInputs \in Nat
      BY <2>1, Typed, Apart, DiagnosticsAssumption DEF StoreText
    <3>2. version + 1 \in Timers /\ version + 1 \in Versions
      BY <3>1 DEF Timers, Versions
    <3>3. tree' \subseteq Documents
      BY <2>1, Typed DEF StoreText
    <3>4. QED
      BY <2>1, <3>2, <3>3 DEF StoreText
  <2>3. MainKept
    BY <2>2, Typed DEF MainKept, TInv, DocumentsKnown
  <2>4. QED
    BY <2>2, <2>3, Kept, RegistryTInv DEF taskVars, timerVars
<1>2. CASE ParseOnDemand(d)
  <2>1. /\ tree' \subseteq Documents
        /\ UNCHANGED <<text, version, saves, owed, main, taskVars, timerVars,
                       registering, published, due, strays>>
    BY <1>2, Typed DEF ParseOnDemand
  <2>2. MainKept
    BY <2>1, Typed DEF MainKept, TInv, DocumentsKnown
  <2>3. QED
    BY <2>1, <2>2, Kept, RegistryTInv DEF taskVars, timerVars
<1>3. QED
  BY <1>1, <1>2
-----------------------------------------------------------------------------
(* What a registrar that spawns a task has done.                           *)
LEMMA SpawnFacts ==
  ASSUME TInv, NEW a \in Registrars, NEW d \in Documents, NEW s \in Versions,
         Spawn(a, d, s)
  PROVE  \E t \in Tasks :
           /\ task[t] = Unborn /\ \A u \in Tasks : u < t => task[u] # Unborn
           /\ task' \in [Tasks -> TaskRecord]
           /\ registering' \in [Registrars -> RegistrarRecord]
           /\ task'[t].doc = d /\ task'[t].snapshot = s /\ task'[t].at = "collecting"
           /\ \A u \in Tasks \ {t} : task'[u] = task[u]
           /\ registering'[a].task = t
           /\ registering'[a].finished = registering[a].finished
           /\ registering'[a].previous = registering[a].previous
           /\ \A b \in Registrars \ {a} : registering'[b] = registering[b]
<1> DEFINE new == [doc |-> d, snapshot |-> s, at |-> "collecting"]
<1>1. PICK t \in Tasks :
        /\ task[t] = Unborn /\ \A u \in 1..(t - 1) : task[u] # Unborn
        /\ task' = [task EXCEPT ![t] = new]
        /\ registering' = [registering EXCEPT ![a] = [registering[a] EXCEPT !.task = t]]
  BY DEF Spawn
<1>2. new \in TaskRecord /\ new.doc = d /\ new.snapshot = s /\ new.at = "collecting"
  BY DEF TaskRecord
<1> HIDE DEF new
<1>3. /\ task' \in [Tasks -> TaskRecord] /\ task'[t] = new
      /\ \A u \in Tasks \ {t} : task'[u] = task[u]
  BY <1>1, <1>2, Typed
<1> DEFINE r == [registering[a] EXCEPT !.task = t]
<1>4. /\ r \in RegistrarRecord /\ r.task = t
      /\ r.finished = registering[a].finished /\ r.previous = registering[a].previous
  <2>1. registering[a] \in RegistrarRecord
    BY Typed
  <2>2. QED
    BY <2>1, RegistrarFields
<1> HIDE DEF r
<1>5. /\ registering' \in [Registrars -> RegistrarRecord] /\ registering'[a] = r
      /\ \A b \in Registrars \ {a} : registering'[b] = registering[b]
  <2>1. registering' = [registering EXCEPT ![a] = r]
    BY <1>1 DEF r
  <2>2. QED
    BY <1>4, <2>1, Typed
<1>6. ASSUME NEW u \in Tasks, u < t PROVE task[u] # Unborn
  <2>1. u \in 1..(t - 1)
    BY <1>6, DiagnosticsAssumption DEF Tasks
  <2>2. QED
    BY <1>1, <2>1
<1>7. QED
  BY <1>1, <1>2, <1>3, <1>4, <1>5, <1>6

(* A step that spawns a task and keeps the rest.                           *)
LEMMA SpawnTInv ==
  ASSUME TInv, NEW a \in Registrars, NEW d \in Documents, NEW s \in Versions,
         Spawn(a, d, s), MainKept, TimersKept, UNCHANGED active_tasks,
         a \in Timers => timer'[a].at # "unborn"
  PROVE  TInv'
<1>1. PICK t \in Tasks :
        /\ task[t] = Unborn
        /\ task' \in [Tasks -> TaskRecord]
        /\ registering' \in [Registrars -> RegistrarRecord]
        /\ task'[t].doc = d /\ task'[t].snapshot = s /\ task'[t].at = "collecting"
        /\ \A u \in Tasks \ {t} : task'[u] = task[u]
        /\ registering'[a].task = t
        /\ registering'[a].previous = registering[a].previous
        /\ \A b \in Registrars \ {a} : registering'[b] = registering[b]
  BY SpawnFacts
<1>2. TypeOK'
  BY <1>1, Typed DEF TypeOK, MainKept, TimersKept
<1>3. \A u \in Tasks : task[u].at # "unborn" => task'[u].at # "unborn"
  BY <1>1
<1>4. /\ \A o \in owed' : o.version \in Timers
      /\ main'.at \in {"closing", "aborting", "cancelling"} => main'.doc \in Documents
      /\ \A i \in Timers : timer'[i].at # "unborn" => timer'[i].doc \in Documents
  BY DEF MainKept, TimersKept
<1>5. \A u \in Tasks : task'[u].at # "unborn" => task'[u].doc \in Documents
  BY <1>1 DEF TInv, DocumentsKnown
<1>6. \A b \in Registrars : registering[b].task \in Tasks \cup {None}
                            /\ registering[b].previous \in Tasks \cup {None}
  BY Typed, RegistrarFields
<1>7. /\ \A b \in Registrars : registering'[b].task # None =>
            task'[registering'[b].task].at # "unborn"
      /\ \A b \in Registrars : registering'[b].previous # None =>
            task'[registering'[b].previous].at # "unborn"
  BY <1>1, <1>3, <1>6 DEF TInv, DocumentsKnown
<1>8. main'.handle # None => main'.at = "aborting" /\ task'[main'.handle].at # "unborn"
  <2>1. main'.handle \in Tasks \cup {None}
    BY MainFields DEF MainKept
  <2>2. QED
    BY <1>3, <2>1 DEF MainKept
<1>9. \A e \in Documents : active_tasks'[e] # None =>
         task'[active_tasks'[e]].at # "unborn"
  BY <1>3, Typed DEF TInv, DocumentsKnown
<1>10. \A i \in Timers : registering'[i].task # None => timer'[i].at # "unborn"
  BY <1>1, Apart DEF TInv, DocumentsKnown, TimersKept
<1>11. DocumentsKnown'
  BY <1>4, <1>5, <1>7, <1>8, <1>9, <1>10 DEF DocumentsKnown
<1>12. QED
  BY <1>2, <1>11 DEF TInv, TimersKept

LEMMA SnapshotFacts ==
  ASSUME TInv, NEW d \in Documents
  PROVE  Snapshot(d) \in Versions /\ Snapshot(d) \in {0, text[d]}
BY Typed, Apart DEF Snapshot

LEMMA SpawnDiagnosticsTInv ==
  ASSUME TInv, NEW d \in Documents, SpawnDiagnostics(d), owed' \subseteq owed,
         saves' \in Versions
  PROVE  TInv'
<1>1. /\ Spawn(Main, d, Snapshot(d))
      /\ due' = [due EXCEPT ![d] = Snapshot(d)]
      /\ UNCHANGED <<text, tree, version, main, active_tasks, timerVars, published,
                     strays>>
  BY DEF SpawnDiagnostics, Triggered
<1>2. MainKept
  BY <1>1, Typed, SnapshotFacts DEF MainKept, TInv, DocumentsKnown
<1>3. TimersKept
  BY <1>1, Kept DEF timerVars
<1>4. QED
  BY <1>1, <1>2, <1>3, Apart, SnapshotFacts, SpawnTInv
-----------------------------------------------------------------------------
(* The timers.                                                             *)
LEMMA AbortTimerFacts ==
  ASSUME TInv, NEW d \in Documents
  PROVE  /\ AbortTimer(d) \in [Timers -> TimerRecord]
         /\ \A i \in Timers :
              /\ AbortTimer(d)[i].doc = timer[i].doc
              /\ AbortTimer(d)[i].snapshot = timer[i].snapshot
              /\ AbortTimer(d)[i].at # "unborn" <=> timer[i].at # "unborn"
              /\ AbortTimer(d)[i].at \in {timer[i].at, "done"}
              /\ AbortTimer(d)[i].at = "sleeping" =>
                   timer[i].at = "sleeping" /\ timer[i].doc # d
              /\ i # active_timers[d] => AbortTimer(d)[i] = timer[i]
<1>1. ASSUME NEW i \in Timers
      PROVE  /\ AbortTimer(d)[i] \in TimerRecord
             /\ AbortTimer(d)[i].doc = timer[i].doc
             /\ AbortTimer(d)[i].snapshot = timer[i].snapshot
             /\ AbortTimer(d)[i].at # "unborn" <=> timer[i].at # "unborn"
             /\ AbortTimer(d)[i].at \in {timer[i].at, "done"}
             /\ AbortTimer(d)[i].at = "sleeping" =>
                  timer[i].at = "sleeping" /\ timer[i].doc # d
             /\ i # active_timers[d] => AbortTimer(d)[i] = timer[i]
  <2>1. timer[i] \in TimerRecord
    BY Typed
  <2>2. CASE i = active_timers[d] /\ timer[i].at = "sleeping"
    <3>1. AbortTimer(d)[i] = [timer[i] EXCEPT !.at = "done"]
      BY <2>2 DEF AbortTimer
    <3>2. /\ [timer[i] EXCEPT !.at = "done"] \in TimerRecord
          /\ [timer[i] EXCEPT !.at = "done"].at = "done"
          /\ [timer[i] EXCEPT !.at = "done"].doc = timer[i].doc
          /\ [timer[i] EXCEPT !.at = "done"].snapshot = timer[i].snapshot
      BY <2>1, TimerFields
    <3>3. QED
      BY <2>2, <3>1, <3>2
  <2>3. CASE ~(i = active_timers[d] /\ timer[i].at = "sleeping")
    BY <2>1, <2>3 DEF AbortTimer, TInv, SleepersTracked
  <2>4. QED
    BY <2>2, <2>3
<1>2. QED
  BY <1>1 DEF AbortTimer

LEMMA AbortTimerKeeps ==
  ASSUME TInv, NEW d \in Documents, timer' = AbortTimer(d),
         active_timers' = [active_timers EXCEPT ![d] = None]
  PROVE  TimersKept
<1>1. /\ active_timers' \in [Documents -> Timers \cup {None}]
      /\ \A e \in Documents \ {d} : active_timers'[e] = active_timers[e]
  BY Typed
<1>2. SleepersTracked'
  <2> SUFFICES ASSUME NEW i \in Timers, timer'[i].at = "sleeping"
               PROVE  active_timers'[timer'[i].doc] = i
    BY DEF SleepersTracked
  <2>1. timer'[i].doc = timer[i].doc /\ timer[i].at = "sleeping" /\ timer[i].doc # d
    BY AbortTimerFacts
  <2>2. timer[i].doc \in Documents /\ active_timers[timer[i].doc] = i
    BY <2>1 DEF TInv, DocumentsKnown, SleepersTracked
  <2>3. QED
    BY <1>1, <2>1, <2>2
<1>3. QED
  BY <1>1, <1>2, AbortTimerFacts DEF TimersKept, TInv, DocumentsKnown

(* What a change does to the timers: its own begins to sleep, that of the  *)
(* document ends if it sleeps, and those of other documents go on.         *)
LEMMA ChangeTimers ==
  ASSUME TInv, NEW o \in owed, ChangeTrigger(o)
  PROVE  /\ o.doc \in Documents /\ o.version \in Timers
         /\ timer' \in [Timers -> TimerRecord]
         /\ timer'[o.version].doc = o.doc
         /\ timer'[o.version].snapshot = Snapshot(o.doc)
         /\ timer'[o.version].at = "sleeping"
         /\ \A i \in Timers \ {o.version} : timer'[i] = AbortTimer(o.doc)[i]
         /\ active_timers' \in [Documents -> Timers \cup {None}]
         /\ active_timers'[o.doc] = o.version
         /\ \A e \in Documents \ {o.doc} : active_timers'[e] = active_timers[e]
         /\ owed' = owed \ {o}
         /\ UNCHANGED <<text, tree, version, saves, main, taskVars, registering,
                        published, strays>>
<1> DEFINE d == o.doc
           n == o.version
           new == [doc |-> d, snapshot |-> Snapshot(d), at |-> "sleeping"]
<1>1. d \in Documents /\ n \in Timers
  BY DEF TInv, TypeOK, DocumentsKnown
<1>2. Snapshot(d) \in Versions
  BY <1>1, SnapshotFacts
<1>3. /\ owed' = owed \ {o}
      /\ timer' = [AbortTimer(d) EXCEPT ![n] = new]
      /\ active_timers' = [active_timers EXCEPT ![d] = n]
      /\ UNCHANGED <<text, tree, version, saves, main, taskVars, registering,
                     published, strays>>
  BY DEF ChangeTrigger, Triggered
<1>4. /\ new \in TimerRecord /\ new.doc = d /\ new.at = "sleeping"
      /\ new.snapshot = Snapshot(d)
  BY <1>1, <1>2 DEF TimerRecord
<1> HIDE DEF d, n, new
<1>5. /\ timer' \in [Timers -> TimerRecord]
      /\ timer'[n] = new /\ \A i \in Timers \ {n} : timer'[i] = AbortTimer(d)[i]
  BY <1>1, <1>3, <1>4, AbortTimerFacts
<1>6. /\ active_timers' \in [Documents -> Timers \cup {None}]
      /\ active_timers'[d] = n
      /\ \A e \in Documents \ {d} : active_timers'[e] = active_timers[e]
  BY <1>1, <1>3, Typed
<1>7. QED
  BY <1>1, <1>3, <1>4, <1>5, <1>6 DEF d, n

LEMMA ChangeTriggerTInv ==
  ASSUME TInv, NEW o \in owed, ChangeTrigger(o) PROVE TInv'
<1>1. MainKept
  <2>1. due' \in [Documents -> Versions]
    BY Typed, ChangeTimers, SnapshotFacts DEF ChangeTrigger, Triggered
  <2>2. QED
    BY <2>1, Typed, ChangeTimers DEF MainKept, TInv, DocumentsKnown
<1>2. SleepersTracked'
  <2> SUFFICES ASSUME NEW i \in Timers, timer'[i].at = "sleeping"
               PROVE  active_timers'[timer'[i].doc] = i
    BY DEF SleepersTracked
  <2>1. CASE i = o.version
    BY <2>1, ChangeTimers
  <2>2. CASE i # o.version
    <3>1. timer'[i] = AbortTimer(o.doc)[i] /\ o.doc \in Documents
      BY <2>2, ChangeTimers
    <3>2. timer'[i].doc = timer[i].doc /\ timer[i].at = "sleeping"
          /\ timer[i].doc # o.doc
      BY <3>1, AbortTimerFacts
    <3>3. timer[i].doc \in Documents /\ active_timers[timer[i].doc] = i
      BY <3>2 DEF TInv, DocumentsKnown, SleepersTracked
    <3>4. QED
      BY <3>2, <3>3, ChangeTimers
  <2>3. QED
    BY <2>1, <2>2
<1>3. TimersKept
  <2>1. ASSUME NEW i \in Timers
        PROVE  /\ timer'[i].at # "unborn" => timer'[i].doc \in Documents
               /\ timer[i].at # "unborn" => timer'[i].at # "unborn"
    <3>1. CASE i = o.version
      BY <3>1, ChangeTimers
    <3>2. CASE i # o.version
      <4>1. timer'[i] = AbortTimer(o.doc)[i] /\ o.doc \in Documents
        BY <3>2, ChangeTimers
      <4>2. QED
        BY <4>1, AbortTimerFacts DEF TInv, DocumentsKnown
    <3>3. QED
      BY <3>1, <3>2
  <2>2. QED
    BY <1>2, <2>1, ChangeTimers DEF TimersKept
<1>4. QED
  BY <1>1, <1>3, ChangeTimers, Kept, RegistryTInv DEF taskVars

(* A timer wakes up.                                                       *)
LEMMA FireTimers ==
  ASSUME TInv, NEW i \in Timers, Fire(i)
  PROVE  /\ timer[i].at = "sleeping" /\ timer'[i].at = "firing"
         /\ timer[i].doc \in Documents /\ timer[i].snapshot \in Versions
         /\ timer' \in [Timers -> TimerRecord]
         /\ timer'[i].doc = timer[i].doc /\ timer'[i].snapshot = timer[i].snapshot
         /\ \A j \in Timers \ {i} : timer'[j] = timer[j]
         /\ Spawn(i, timer[i].doc, timer[i].snapshot)
         /\ UNCHANGED <<storeVars, main, active_tasks, active_timers, published, due,
                        strays>>
<1>1. timer[i] \in TimerRecord /\ timer[i].at = "sleeping"
  BY Typed DEF Fire
<1>2. timer' = [timer EXCEPT ![i] = [timer[i] EXCEPT !.at = "firing"]]
  BY DEF Fire
<1>3. timer'[i] = [timer[i] EXCEPT !.at = "firing"]
      /\ \A j \in Timers \ {i} : timer'[j] = timer[j]
  BY <1>2, Typed
<1>4. /\ timer' \in [Timers -> TimerRecord] /\ timer'[i].at = "firing"
      /\ timer'[i].doc = timer[i].doc /\ timer'[i].snapshot = timer[i].snapshot
      /\ timer[i].snapshot \in Versions
  <2>1. /\ [timer[i] EXCEPT !.at = "firing"] \in TimerRecord
        /\ [timer[i] EXCEPT !.at = "firing"].at = "firing"
        /\ [timer[i] EXCEPT !.at = "firing"].doc = timer[i].doc
        /\ [timer[i] EXCEPT !.at = "firing"].snapshot = timer[i].snapshot
        /\ timer[i].snapshot \in Versions
    BY <1>1, TimerFields
  <2>2. timer' \in [Timers -> TimerRecord]
    BY <1>2, <2>1, Typed
  <2>3. QED
    BY <1>3, <2>1, <2>2
<1>5. timer[i].doc \in Documents
  BY <1>1 DEF TInv, DocumentsKnown
<1>6. QED
  BY <1>1, <1>3, <1>4, <1>5 DEF Fire

LEMMA FireTInv ==
  ASSUME TInv, NEW i \in Timers, Fire(i) PROVE TInv'
<1>1. MainKept
  BY FireTimers, Kept, Typed DEF storeVars
<1>2. TimersKept
  <2>1. SleepersTracked'
    BY FireTimers, Typed DEF SleepersTracked, TInv
  <2>2. QED
    BY <2>1, FireTimers, Typed DEF TimersKept, TInv, DocumentsKnown
<1>3. QED
  BY <1>1, <1>2, FireTimers, SpawnTInv, Apart
-----------------------------------------------------------------------------
(* The steps of the registry, one by one.                                  *)
LEMMA AbortFacts ==
  ASSUME TInv, NEW S \in SUBSET Tasks, Abort(S)
  PROVE  /\ task' \in [Tasks -> TaskRecord]
         /\ strays \subseteq strays' /\ strays' \subseteq Tasks
         /\ \A t \in Tasks : /\ task'[t].doc = task[t].doc
                             /\ task'[t].snapshot = task[t].snapshot
                             /\ t \notin S => task'[t] = task[t]
                             /\ task'[t].at \in {task[t].at, "done"}
                             /\ t \in S => task'[t].at = "done" \/ t \in strays'
<1>1. PICK late \in SUBSET {t \in S : task[t].at = "publishing"} :
        /\ task' = [t \in Tasks |-> IF t \in S \ late
                                    THEN [task[t] EXCEPT !.at = "done"] ELSE task[t]]
        /\ strays' = strays \cup late
  BY DEF Abort
<1>2. ASSUME NEW t \in Tasks
      PROVE  /\ task'[t] \in TaskRecord
             /\ task'[t].doc = task[t].doc /\ task'[t].snapshot = task[t].snapshot
             /\ t \notin S => task'[t] = task[t]
             /\ task'[t].at \in {task[t].at, "done"}
             /\ t \in S => task'[t].at = "done" \/ t \in strays'
  <2>1. task[t] \in TaskRecord
    BY Typed
  <2>2. CASE t \in S \ late
    <3>1. task'[t] = [task[t] EXCEPT !.at = "done"]
      BY <1>1, <2>2
    <3>2. /\ [task[t] EXCEPT !.at = "done"] \in TaskRecord
          /\ [task[t] EXCEPT !.at = "done"].at = "done"
          /\ [task[t] EXCEPT !.at = "done"].doc = task[t].doc
          /\ [task[t] EXCEPT !.at = "done"].snapshot = task[t].snapshot
      BY <2>1, TaskFields
    <3>3. QED
      BY <2>2, <3>1, <3>2
  <2>3. CASE t \notin S \ late
    <3>1. task'[t] = task[t]
      BY <1>1, <2>3
    <3>2. QED
      BY <1>1, <2>1, <2>3, <3>1
  <2>4. QED
    BY <2>2, <2>3
<1>3. strays' \subseteq Tasks
  BY <1>1, Typed
<1>4. QED
  BY <1>1, <1>2, <1>3

LEMMA EntriesFacts ==
  ASSUME TInv, NEW ds \in SUBSET Documents
  PROVE  /\ Entries(ds) \subseteq Tasks
         /\ \A t \in Entries(ds) : task[t].at # "unborn"
         /\ \A d \in ds : active_tasks[d] # None => active_tasks[d] \in Entries(ds)
BY Typed DEF Entries, TInv, DocumentsKnown

LEMMA RunningFacts ==
  ASSUME TInv, NEW d \in Documents
  PROVE  /\ Running(active_tasks[d]) \in Tasks \cup {None}
         /\ Running(active_tasks[d]) # None =>
               task[Running(active_tasks[d])].at # "unborn"
         /\ \A t \in Tasks : active_tasks[d] = t /\ Live(t) =>
               Running(active_tasks[d]) = t
BY Typed, Apart DEF Running, TInv, DocumentsKnown

LEMMA UnregisteredFacts ==
  ASSUME TInv, NEW d \in Documents
  PROVE  /\ Unregistered(d) \subseteq Tasks
         /\ \A a \in Registrars :
               registering[a].task # None /\ task[registering[a].task].doc = d =>
                  registering[a].task \in Unregistered(d)
         /\ \A t \in Unregistered(d) :
               /\ task[t].doc = d /\ t \in Tasks
               /\ \E a \in Registrars : registering[a].task = t
<1>1. \A a \in Registrars : registering[a].task \in Tasks \cup {None}
  BY Typed, RegistrarFields
<1>2. QED
  BY <1>1, Apart DEF Unregistered

LEMMA FindFacts ==
  ASSUME TInv, NEW a \in Registrars, FindFinished(a)
  PROVE  /\ registering' \in [Registrars -> RegistrarRecord]
         /\ \A b \in Registrars :
               /\ registering'[b].task = registering[b].task
               /\ registering'[b].previous = registering[b].previous
         /\ registering[a].task # None
         /\ \A b \in Registrars \ {a} : registering'[b] = registering[b]
         /\ UNCHANGED <<storeVars, main, taskVars, timerVars, published, due, strays>>
<1>1. PICK found \in SUBSET Documents :
        /\ registering' = [registering EXCEPT ![a] =
                             [registering[a] EXCEPT !.finished = found]]
        /\ registering[a].task # None
        /\ UNCHANGED <<storeVars, main, taskVars, timerVars, published, due, strays>>
  BY DEF FindFinished
<1> DEFINE r == [registering[a] EXCEPT !.finished = found]
<1>2. /\ r \in RegistrarRecord
      /\ r.task = registering[a].task /\ r.previous = registering[a].previous
  <2>1. registering[a] \in RegistrarRecord
    BY Typed
  <2>2. QED
    BY <2>1, RegistrarFields
<1>3. registering' = [registering EXCEPT ![a] = r]
  BY <1>1
<1> HIDE DEF r
<1>4. QED
  BY <1>1, <1>2, <1>3, Typed

LEMMA RemoveFacts ==
  ASSUME TInv, NEW a \in Registrars, RemoveFinished(a)
  PROVE  \E d \in Documents :
           /\ registering' \in [Registrars -> RegistrarRecord]
           /\ \A b \in Registrars :
                 /\ registering'[b].task = registering[b].task
                 /\ registering'[b].previous = registering[b].previous
           /\ registering[a].task # None
           /\ \A b \in Registrars \ {a} : registering'[b] = registering[b]
           /\ active_tasks' \in [Documents -> Tasks \cup {None}]
           /\ active_tasks'[d] = None
           /\ \A e \in Documents \ {d} : active_tasks'[e] = active_tasks[e]
           /\ strays' = strays \cup {t \in Entries({d}) : Live(t)}
           /\ strays' \subseteq Tasks
           /\ UNCHANGED <<storeVars, main, task, timerVars, published, due>>
<1>1. /\ registering[a] \in RegistrarRecord
      /\ registering[a].finished \in (SUBSET Documents) \cup {None}
      /\ registering[a].finished # None
  BY Typed, RegistrarFields DEF RemoveFinished
<1>2. PICK d \in Documents :
        /\ registering' = [registering EXCEPT ![a] =
              [registering[a] EXCEPT !.finished = registering[a].finished \ {d}]]
        /\ active_tasks' = [active_tasks EXCEPT ![d] = None]
        /\ strays' = strays \cup {t \in Entries({d}) : Live(t)}
        /\ registering[a].task # None
        /\ UNCHANGED <<storeVars, main, task, timerVars, published, due>>
  BY <1>1 DEF RemoveFinished
<1>3. PICK f : f = registering[a].finished \ {d}
  OBVIOUS
<1>4. f \in SUBSET Documents
  BY <1>1, <1>3
<1> DEFINE r == [registering[a] EXCEPT !.finished = f]
<1>5. /\ r \in RegistrarRecord
      /\ r.task = registering[a].task /\ r.previous = registering[a].previous
  BY <1>1, <1>4, RegistrarFields
<1>6. registering' = [registering EXCEPT ![a] = r]
  BY <1>2, <1>3
<1> HIDE DEF r
<1>7. /\ registering' \in [Registrars -> RegistrarRecord]
      /\ \A b \in Registrars :
            /\ registering'[b].task = registering[b].task
            /\ registering'[b].previous = registering[b].previous
      /\ \A b \in Registrars \ {a} : registering'[b] = registering[b]
  BY <1>5, <1>6, Typed
<1>8. /\ active_tasks' \in [Documents -> Tasks \cup {None}]
      /\ active_tasks'[d] = None
      /\ \A e \in Documents \ {d} : active_tasks'[e] = active_tasks[e]
  BY <1>2, Typed
<1>9. strays' \subseteq Tasks
  BY <1>2, EntriesFacts, Typed
<1>10. QED
  BY <1>2, <1>7, <1>8, <1>9

(* The task t of d gets its entry.                                         *)
Inserted(a, t, d) ==
  /\ t = registering[a].task /\ d = task[t].doc /\ task[t].at # "unborn"
  /\ active_tasks' \in [Documents -> Tasks \cup {None}]
  /\ active_tasks'[d] = t
  /\ \A e \in Documents \ {d} : active_tasks'[e] = active_tasks[e]
  /\ registering' \in [Registrars -> RegistrarRecord]
  /\ registering'[a].task = None
  /\ registering'[a].previous = Running(active_tasks[d])
  /\ \A b \in Registrars \ {a} : registering'[b] = registering[b]
  /\ timer' \in [Timers -> TimerRecord]
  /\ a \in Timers => timer'[a].at = "done" /\ timer[a].at # "unborn"
  /\ \A i \in Timers : /\ timer'[i].doc = timer[i].doc
                       /\ timer'[i].snapshot = timer[i].snapshot
                       /\ timer'[i].at # "unborn" <=> timer[i].at # "unborn"
                       /\ i # a => timer'[i] = timer[i]
  /\ due' \in [Documents -> Versions]
  /\ strays' = strays \cup {u \in Unregistered(d) : u < t}
  /\ strays' \subseteq Tasks
  /\ UNCHANGED <<storeVars, main, task, active_timers, published>>

LEMMA InsertFacts ==
  ASSUME TInv, NEW a \in Registrars, Insert(a)
  PROVE  \E t \in Tasks, d \in Documents : Inserted(a, t, d)
<1> DEFINE t == registering[a].task
           d == task[t].doc
<1>1. t \in Tasks /\ task[t].at # "unborn" /\ d \in Documents
  <2>1. t \in Tasks /\ task[t].at # "unborn"
    BY Typed, RegistrarFields DEF Insert, TInv, DocumentsKnown
  <2>2. QED
    BY <2>1 DEF TInv, DocumentsKnown
<1>2. /\ active_tasks' = [active_tasks EXCEPT ![d] = t]
      /\ registering' = [registering EXCEPT ![a] =
                           [Idle EXCEPT !.previous = Running(active_tasks[d])]]
      /\ timer' = IF a = Main THEN timer
                  ELSE [timer EXCEPT ![a] = [timer[a] EXCEPT !.at = "done"]]
      /\ due' = [due EXCEPT ![d] = IF task[t].snapshot = 0 THEN 0 ELSE @]
      /\ strays' = strays \cup {u \in Unregistered(d) : u < t}
      /\ UNCHANGED <<storeVars, main, task, active_timers, published>>
  BY DEF Insert
<1>3. a \in Timers => timer[a].at # "unborn"
  BY DEF Insert, TInv, DocumentsKnown
<1> HIDE DEF t, d
<1>4. /\ active_tasks' \in [Documents -> Tasks \cup {None}]
      /\ active_tasks'[d] = t
      /\ \A e \in Documents \ {d} : active_tasks'[e] = active_tasks[e]
  BY <1>1, <1>2, Typed
<1> DEFINE r == [Idle EXCEPT !.previous = Running(active_tasks[d])]
<1>5. r \in RegistrarRecord /\ r.task = None /\ r.previous = Running(active_tasks[d])
  BY <1>1, IdleFacts, RunningFacts, RegistrarFields
<1>6. registering' = [registering EXCEPT ![a] = r]
  BY <1>2
<1> HIDE DEF r
<1>7. /\ registering' \in [Registrars -> RegistrarRecord]
      /\ registering'[a].task = None
      /\ registering'[a].previous = Running(active_tasks[d])
      /\ \A b \in Registrars \ {a} : registering'[b] = registering[b]
  BY <1>5, <1>6, Typed
<1>8. /\ timer' \in [Timers -> TimerRecord]
      /\ a \in Timers => timer'[a].at = "done"
      /\ \A i \in Timers : /\ timer'[i].doc = timer[i].doc
                           /\ timer'[i].snapshot = timer[i].snapshot
                           /\ timer'[i].at # "unborn" <=> timer[i].at # "unborn"
                           /\ i # a => timer'[i] = timer[i]
  <2>1. CASE a = Main
    BY <1>2, <2>1, Typed, Apart
  <2>2. CASE a # Main
    <3>1. a \in Timers /\ timer[a] \in TimerRecord
      BY <2>2, Typed DEF Registrars
    <3>2. /\ [timer[a] EXCEPT !.at = "done"] \in TimerRecord
          /\ [timer[a] EXCEPT !.at = "done"].at = "done"
          /\ [timer[a] EXCEPT !.at = "done"].doc = timer[a].doc
          /\ [timer[a] EXCEPT !.at = "done"].snapshot = timer[a].snapshot
      BY <3>1, TimerFields
    <3>3. /\ timer' \in [Timers -> TimerRecord]
          /\ timer'[a] = [timer[a] EXCEPT !.at = "done"]
          /\ \A i \in Timers \ {a} : timer'[i] = timer[i]
      BY <1>2, <2>2, <3>1, <3>2, Typed
    <3>4. QED
      BY <1>3, <3>1, <3>2, <3>3
  <2>3. QED
    BY <2>1, <2>2
<1>9. due' \in [Documents -> Versions]
  BY <1>1, <1>2, Typed, Apart
<1>10. strays' \subseteq Tasks
  BY <1>1, <1>2, UnregisteredFacts, Typed
<1>11. Inserted(a, t, d)
  BY <1>1, <1>2, <1>3, <1>4, <1>7, <1>8, <1>9, <1>10 DEF t, d, Inserted
<1>12. QED
  BY <1>1, <1>11

LEMMA AbortPreviousFacts ==
  ASSUME TInv, NEW a \in Registrars, AbortPrevious(a)
  PROVE  /\ registering[a].previous \in Tasks
         /\ task[registering[a].previous].at # "unborn"
         /\ Abort({registering[a].previous})
         /\ registering' \in [Registrars -> RegistrarRecord]
         /\ registering'[a] = Idle
         /\ \A b \in Registrars \ {a} : registering'[b] = registering[b]
         /\ UNCHANGED <<storeVars, main, active_tasks, timerVars, published, due>>
BY Typed, RegistrarFields, IdleFacts DEF AbortPrevious, TInv, DocumentsKnown
-----------------------------------------------------------------------------
(* The steps of the close and of the shutdown.                             *)
LEMMA CloseFacts ==
  ASSUME TInv, NEW d \in Documents, Close(d)
  PROVE  /\ main.at \in {"idle", "down"} /\ registering[Main] = Idle
         /\ text' \in [Documents -> Versions] /\ text'[d] = 0
         /\ \A e \in Documents \ {d} : text'[e] = text[e]
         /\ tree' \subseteq Documents
         /\ main' \in MainRecord
         /\ main'.at = "closing" /\ main'.doc = d /\ main'.handle = None
         /\ UNCHANGED <<version, saves, owed, taskVars, timerVars, registering,
                        published, due, strays>>
<1>1. /\ Rest("closing") \in MainRecord
      /\ Rest("closing").at = "closing" /\ Rest("closing").handle = None
  BY RestFacts
<1>2. main' = [Rest("closing") EXCEPT !.doc = d]
  BY DEF Close
<1>3. /\ main' \in MainRecord
      /\ main'.at = "closing" /\ main'.doc = d /\ main'.handle = None
  BY <1>1, <1>2 DEF MainRecord
<1>4. text' \in [Documents -> Versions] /\ text'[d] = 0
      /\ \A e \in Documents \ {d} : text'[e] = text[e]
  BY Typed, Apart DEF Close
<1>5. QED
  BY <1>3, <1>4, Typed DEF Close, MainFree

LEMMA CloseTaskFacts ==
  ASSUME TInv, CloseTask
  PROVE  /\ main.at = "closing" /\ main.doc \in Documents
         /\ active_tasks' \in [Documents -> Tasks \cup {None}]
         /\ active_tasks'[main.doc] = None
         /\ \A e \in Documents \ {main.doc} : active_tasks'[e] = active_tasks[e]
         /\ main' \in MainRecord
         /\ main'.at = "aborting" /\ main'.doc = main.doc
         /\ main'.handle = Running(active_tasks[main.doc])
         /\ UNCHANGED <<storeVars, task, timerVars, registering, published, due,
                        strays>>
<1>1. main.at = "closing" /\ main.doc \in Documents /\ main \in MainRecord
  BY Typed DEF CloseTask, TInv, DocumentsKnown
<1>2. /\ active_tasks' = [active_tasks EXCEPT ![main.doc] = None]
      /\ main' = [main EXCEPT !.at = "aborting",
                              !.handle = Running(active_tasks[main.doc])]
      /\ UNCHANGED <<storeVars, task, timerVars, registering, published, due, strays>>
  BY DEF CloseTask, RemoveDocument
<1>3. /\ main' \in MainRecord
      /\ main'.at = "aborting" /\ main'.doc = main.doc
      /\ main'.handle = Running(active_tasks[main.doc])
  <2>1. PICK h \in Tasks \cup {None} : h = Running(active_tasks[main.doc])
    BY <1>1, RunningFacts
  <2>2. QED
    BY <1>1, <1>2, <2>1 DEF MainRecord
<1>4. QED
  BY <1>1, <1>2, <1>3, Typed

LEMMA AbortTaskFacts ==
  ASSUME TInv, AbortTask
  PROVE  /\ main.at = "aborting" /\ main.doc \in Documents
         /\ main.handle \in Tasks \cup {None}
         /\ main.handle # None => task[main.handle].at # "unborn"
         /\ Abort({main.handle} \ {None})
         /\ main' \in MainRecord
         /\ main'.at = "cancelling" /\ main'.doc = main.doc /\ main'.handle = None
         /\ UNCHANGED <<storeVars, active_tasks, timerVars, registering, published,
                        due>>
<1>1. /\ main.at = "aborting" /\ main.doc \in Documents /\ main \in MainRecord
      /\ main.handle # None => task[main.handle].at # "unborn"
  BY Typed DEF AbortTask, TInv, DocumentsKnown
<1>2. main' = [main EXCEPT !.at = "cancelling", !.handle = None]
  BY DEF AbortTask
<1>3. /\ main' \in MainRecord /\ main.handle \in Tasks \cup {None}
      /\ main'.at = "cancelling" /\ main'.doc = main.doc /\ main'.handle = None
  BY <1>1, <1>2 DEF MainRecord
<1>4. QED
  BY <1>1, <1>3 DEF AbortTask

LEMMA OutlastingFacts ==
  ASSUME TInv, NEW ds \in SUBSET Documents
  PROVE  /\ Outlasting(ds) \subseteq Tasks
         /\ \A d \in ds : /\ active_tasks[d] # None =>
                               active_tasks[d] \in Outlasting(ds)
                          /\ Unregistered(d) \subseteq Outlasting(ds)
BY EntriesFacts, UnregisteredFacts DEF Outlasting

LEMMA CloseTimerFacts ==
  ASSUME TInv, CloseTimer
  PROVE  /\ main.at = "cancelling" /\ main.doc \in Documents
         /\ timer' = AbortTimer(main.doc)
         /\ active_timers' = [active_timers EXCEPT ![main.doc] = None]
         /\ strays' = strays \cup Outlasting({main.doc})
         /\ strays' \subseteq Tasks
         /\ main' \in MainRecord /\ main'.at = "idle" /\ main'.handle = None
         /\ UNCHANGED <<storeVars, taskVars, registering, published, due>>
<1>1. main.at = "cancelling" /\ main.doc \in Documents
  BY DEF CloseTimer, TInv, DocumentsKnown
<1>2. strays' = strays \cup Outlasting({main.doc}) /\ strays' \subseteq Tasks
  <2>1. strays' = strays \cup Outlasting({main.doc})
    BY DEF CloseTimer
  <2>2. QED
    BY <1>1, <2>1, OutlastingFacts, Typed
<1>3. QED
  BY <1>1, <1>2, RestFacts DEF CloseTimer

LEMMA AbortAllFacts ==
  ASSUME TInv, AbortAll
  PROVE  /\ main.at = "idle" /\ registering[Main] = Idle
         /\ Abort(Entries(Documents))
         /\ main' \in MainRecord /\ main'.at = "clearing" /\ main'.handle = None
         /\ UNCHANGED <<storeVars, active_tasks, timerVars, registering, published,
                        due>>
BY RestFacts DEF AbortAll, MainFree

LEMMA ClearTasksFacts ==
  ASSUME TInv, ClearTasks
  PROVE  /\ main.at = "clearing"
         /\ active_tasks' = [d \in Documents |-> None]
         /\ strays' = strays \cup {t \in Entries(Documents) : Live(t)}
         /\ strays' \subseteq Tasks
         /\ main' \in MainRecord /\ main'.at = "stopping" /\ main'.handle = None
         /\ UNCHANGED <<storeVars, task, timerVars, registering, published, due>>
<1>1. strays' = strays \cup {t \in Entries(Documents) : Live(t)}
      /\ strays' \subseteq Tasks
  BY EntriesFacts, Typed DEF ClearTasks
<1>2. QED
  BY <1>1, RestFacts DEF ClearTasks

LEMMA CancelAllFacts ==
  ASSUME TInv, CancelAll
  PROVE  /\ main.at = "stopping"
         /\ timer' \in [Timers -> TimerRecord]
         /\ \A i \in Timers : /\ timer'[i].doc = timer[i].doc
                              /\ timer'[i].snapshot = timer[i].snapshot
                              /\ timer'[i].at # "unborn" <=> timer[i].at # "unborn"
                              /\ timer'[i].at \in {timer[i].at, "done"}
                              /\ timer'[i].at # "sleeping"
         /\ active_timers' = [d \in Documents |-> None]
         /\ strays' = strays \cup Outlasting(Documents)
         /\ strays' \subseteq Tasks
         /\ main' \in MainRecord /\ main'.at = "down" /\ main'.handle = None
         /\ UNCHANGED <<storeVars, taskVars, registering, published, due>>
<1> DEFINE found == {active_timers[d] : d \in Documents}
<1>1. /\ main.at = "stopping"
      /\ timer' = [i \in Timers |-> IF i \in found /\ timer[i].at = "sleeping"
                                    THEN [timer[i] EXCEPT !.at = "done"] ELSE timer[i]]
      /\ active_timers' = [d \in Documents |-> None]
      /\ strays' = strays \cup Outlasting(Documents)
      /\ main' = Rest("down")
      /\ UNCHANGED <<storeVars, taskVars, registering, published, due>>
  BY DEF CancelAll
<1>2. \A i \in Timers : timer[i].at = "sleeping" => i \in found
  BY DEF TInv, DocumentsKnown, SleepersTracked
<1> HIDE DEF found
<1>3. ASSUME NEW i \in Timers
      PROVE  /\ timer'[i] \in TimerRecord
             /\ timer'[i].doc = timer[i].doc
             /\ timer'[i].snapshot = timer[i].snapshot
             /\ timer'[i].at # "unborn" <=> timer[i].at # "unborn"
             /\ timer'[i].at \in {timer[i].at, "done"}
             /\ timer'[i].at # "sleeping"
  <2>1. timer[i] \in TimerRecord
    BY Typed
  <2>2. CASE timer[i].at = "sleeping"
    <3>1. timer'[i] = [timer[i] EXCEPT !.at = "done"]
      BY <1>1, <1>2, <2>2
    <3>2. /\ [timer[i] EXCEPT !.at = "done"] \in TimerRecord
          /\ [timer[i] EXCEPT !.at = "done"].at = "done"
          /\ [timer[i] EXCEPT !.at = "done"].doc = timer[i].doc
          /\ [timer[i] EXCEPT !.at = "done"].snapshot = timer[i].snapshot
      BY <2>1, TimerFields
    <3>3. QED
      BY <2>2, <3>1, <3>2
  <2>3. CASE timer[i].at # "sleeping"
    BY <1>1, <2>1, <2>3
  <2>4. QED
    BY <2>2, <2>3
<1>4. timer' \in [Timers -> TimerRecord]
  BY <1>1, <1>3
<1>5. strays' \subseteq Tasks
  BY <1>1, OutlastingFacts, Typed
<1>6. QED
  BY <1>1, <1>3, <1>4, <1>5, RestFacts

(* The steps of a task.                                                    *)
LEMMA RunFacts ==
  ASSUME TInv, NEW t \in Tasks, Run(t)
  PROVE  /\ Live(t)
         /\ task' \in [Tasks -> TaskRecord]
         /\ task'[t].doc = task[t].doc /\ task'[t].snapshot = task[t].snapshot
         /\ task'[t].at \in {"publishing", "done"}
         /\ task'[t].at = "publishing" => task[t].snapshot # 0
         /\ \A u \in Tasks \ {t} : task'[u] = task[u]
         /\ published' \in [Documents -> Versions]
         /\ \/ Collected(t) /\ UNCHANGED <<published, strays>>
            \/ /\ Publish(t)
               /\ published' = [published EXCEPT ![task[t].doc] = task[t].snapshot]
               /\ strays' = strays \cup {u \in {t} : Superseding(u)}
         /\ strays' \subseteq Tasks
         /\ UNCHANGED <<storeVars, main, active_tasks, timerVars, registering, due>>
<1> DEFINE l == IF task[t].snapshot = 0 \/ task[t].at = "publishing"
                THEN "done" ELSE "publishing"
<1>1. /\ Live(t)
      /\ task' = [task EXCEPT ![t] = [task[t] EXCEPT !.at = l]]
      /\ \/ Collected(t) /\ UNCHANGED <<published, strays>>
         \/ /\ Publish(t)
            /\ published' = [published EXCEPT ![task[t].doc] = task[t].snapshot]
            /\ strays' = strays \cup {u \in {t} : Superseding(u)}
      /\ UNCHANGED <<storeVars, main, active_tasks, timerVars, registering, due>>
  BY DEF Run, Collected, Publish, Live
<1>2. l \in {"publishing", "done"} /\ (l = "publishing" => task[t].snapshot # 0)
  OBVIOUS
<1> HIDE DEF l
<1>3. task[t] \in TaskRecord
  BY Typed
<1>4. /\ [task[t] EXCEPT !.at = l] \in TaskRecord
      /\ [task[t] EXCEPT !.at = l].at = l
      /\ [task[t] EXCEPT !.at = l].doc = task[t].doc
      /\ [task[t] EXCEPT !.at = l].snapshot = task[t].snapshot
      /\ task[t].snapshot \in Versions
  BY <1>2, <1>3 DEF TaskRecord
<1>5. /\ task' \in [Tasks -> TaskRecord] /\ task'[t] = [task[t] EXCEPT !.at = l]
      /\ \A u \in Tasks \ {t} : task'[u] = task[u]
  BY <1>1, <1>4, Typed
<1>6. published' \in [Documents -> Versions]
  BY <1>1, <1>4, Typed
<1>7. strays' \subseteq Tasks
  BY <1>1, Typed
<1>8. QED
  BY <1>1, <1>2, <1>4, <1>5, <1>6, <1>7
-----------------------------------------------------------------------------
(* All of these keep the types.                                            *)
LEMMA AbortKeepsTasks ==
  ASSUME TInv, NEW S \in SUBSET Tasks, Abort(S), \A t \in S : task[t].at # "unborn"
  PROVE  TasksKept
<1>1. ASSUME NEW t \in Tasks
      PROVE  (task[t].at = "unborn" <=> task'[t].at = "unborn")
             /\ task'[t].doc = task[t].doc
  BY AbortFacts
<1>2. QED
  BY <1>1, AbortFacts DEF TasksKept

LEMMA RegistrationTInv ==
  ASSUME TInv, NEW a \in Registrars, Registration(a) PROVE TInv'
<1>1. CASE FindFinished(a)
  <2>1. EntriesKept
    BY <1>1, FindFacts, Typed DEF EntriesKept, TInv, DocumentsKnown, taskVars
  <2>2. QED
    BY <1>1, <2>1, FindFacts, Typed, Kept, RegistryTInv
       DEF storeVars, taskVars, timerVars
<1>2. CASE RemoveFinished(a)
  <2>1. EntriesKept /\ strays' \subseteq Tasks
    BY <1>2, RemoveFacts, Typed DEF EntriesKept, TInv, DocumentsKnown
  <2>2. UNCHANGED <<storeVars, main, task, timerVars, published, due>>
    BY <1>2 DEF RemoveFinished
  <2>3. QED
    BY <2>1, <2>2, Kept, RegistryTInv DEF storeVars, timerVars
<1>3. CASE Insert(a)
  <2>1. PICK t \in Tasks, d \in Documents : Inserted(a, t, d)
    BY <1>3, InsertFacts
  <2>2. EntriesKept
    <3>1. \A b \in Registrars : registering'[b].previous # None =>
             task[registering'[b].previous].at # "unborn"
      BY <2>1, RunningFacts DEF TInv, DocumentsKnown, Inserted
    <3>2. \A e \in Documents : active_tasks'[e] # None =>
             task[active_tasks'[e]].at # "unborn"
      BY <2>1 DEF TInv, DocumentsKnown, Inserted
    <3>3. \A b \in Registrars : registering'[b].task \in {None, registering[b].task}
      BY <2>1 DEF Inserted
    <3>4. QED
      BY <2>1, <3>1, <3>2, <3>3 DEF EntriesKept, Inserted
  <2>3. TimersKept
    BY <2>1, Typed DEF TimersKept, Inserted, SleepersTracked, TInv, DocumentsKnown
  <2>4. MainKept
    BY <2>1, Typed DEF MainKept, Inserted, TInv, DocumentsKnown, storeVars
  <2>5. QED
    BY <2>1, <2>2, <2>3, <2>4, Kept, RegistryTInv DEF Inserted
<1>4. CASE AbortPrevious(a)
  <2>1. PICK p \in Tasks : /\ p = registering[a].previous /\ task[p].at # "unborn"
                           /\ Abort({p})
    BY <1>4, AbortPreviousFacts
  <2>2. TasksKept /\ strays' \subseteq Tasks
    BY <2>1, AbortKeepsTasks, AbortFacts
  <2>3. EntriesKept
    BY <1>4, AbortPreviousFacts, IdleFacts, Typed
       DEF EntriesKept, TInv, DocumentsKnown
  <2>4. QED
    BY <1>4, <2>2, <2>3, AbortPreviousFacts, Kept, RegistryTInv
       DEF storeVars, timerVars
<1>5. QED
  BY <1>1, <1>2, <1>3, <1>4 DEF Registration

LEMMA ClosingTInv ==
  ASSUME TInv, Closing \/ AbortAll \/ (\E d \in Documents : Close(d)) PROVE TInv'
<1>1. CASE \E d \in Documents : Close(d)
  <2>1. PICK d \in Documents : Close(d)
    BY <1>1
  <2>2. MainKept
    BY <2>1, CloseFacts, Typed DEF MainKept, TInv, DocumentsKnown
  <2>3. QED
    BY <2>1, <2>2, CloseFacts, Kept, RegistryTInv DEF taskVars, timerVars
<1>2. CASE CloseTask
  <2>1. EntriesKept
    BY <1>2, CloseTaskFacts, Typed DEF EntriesKept, TInv, DocumentsKnown
  <2>2. MainKept
    BY <1>2, CloseTaskFacts, RunningFacts, Typed
       DEF MainKept, TInv, DocumentsKnown, storeVars
  <2>3. QED
    BY <1>2, <2>1, <2>2, CloseTaskFacts, Kept, RegistryTInv DEF timerVars
<1>3. CASE AbortTask
  <2>1. PICK S \in SUBSET Tasks : S = {main.handle} \ {None}
    BY <1>3, AbortTaskFacts
  <2>2. Abort(S) /\ \A t \in S : task[t].at # "unborn"
    BY <1>3, <2>1, AbortTaskFacts
  <2>3. TasksKept /\ strays' \subseteq Tasks
    BY <2>2, AbortKeepsTasks, AbortFacts
  <2>4. MainKept
    BY <1>3, <2>3, AbortTaskFacts, Typed DEF MainKept, TInv, DocumentsKnown, storeVars
  <2>5. QED
    BY <1>3, <2>3, <2>4, AbortTaskFacts, Kept, RegistryTInv DEF timerVars
<1>4. CASE CloseTimer
  <2>1. TimersKept
    BY <1>4, CloseTimerFacts, AbortTimerKeeps
  <2>2. MainKept
    BY <1>4, CloseTimerFacts, Typed DEF MainKept, TInv, DocumentsKnown, storeVars
  <2>3. QED
    BY <1>4, <2>1, <2>2, CloseTimerFacts, Kept, RegistryTInv DEF taskVars
<1>5. CASE AbortAll
  <2>1. PICK S \in SUBSET Tasks : S = Entries(Documents)
    BY EntriesFacts
  <2>2. Abort(S) /\ \A t \in S : task[t].at # "unborn"
    BY <1>5, <2>1, AbortAllFacts, EntriesFacts
  <2>3. TasksKept /\ strays' \subseteq Tasks
    BY <2>2, AbortKeepsTasks, AbortFacts
  <2>4. MainKept
    BY <1>5, <2>3, AbortAllFacts, Typed DEF MainKept, TInv, DocumentsKnown, storeVars
  <2>5. QED
    BY <1>5, <2>3, <2>4, AbortAllFacts, Kept, RegistryTInv DEF timerVars
<1>6. CASE ClearTasks
  <2>1. EntriesKept
    BY <1>6, ClearTasksFacts, Typed DEF EntriesKept, TInv, DocumentsKnown
  <2>2. MainKept
    BY <1>6, ClearTasksFacts, Typed DEF MainKept, TInv, DocumentsKnown, storeVars
  <2>3. QED
    BY <1>6, <2>1, <2>2, ClearTasksFacts, Kept, RegistryTInv DEF timerVars
<1>7. CASE CancelAll
  <2>1. TimersKept
    BY <1>7, CancelAllFacts DEF TimersKept, SleepersTracked, TInv, DocumentsKnown
  <2>2. MainKept
    BY <1>7, CancelAllFacts, Typed DEF MainKept, TInv, DocumentsKnown, storeVars
  <2>3. QED
    BY <1>7, <2>1, <2>2, CancelAllFacts, Kept, RegistryTInv DEF taskVars
<1>8. QED
  BY <1>1, <1>2, <1>3, <1>4, <1>5, <1>6, <1>7 DEF Closing

LEMMA RunTInv ==
  ASSUME TInv, NEW t \in Tasks, Run(t) PROVE TInv'
<1>1. TasksKept
  BY RunFacts DEF TasksKept, Live
<1>2. MainKept
  BY RunFacts, Typed DEF MainKept, TInv, DocumentsKnown, storeVars
<1>3. QED
  BY <1>1, <1>2, RunFacts, Kept, RegistryTInv DEF timerVars

LEMMA NextTInv == TInv /\ [Next]_vars => TInv'
<1> SUFFICES ASSUME TInv, [Next]_vars PROVE TInv'
  OBVIOUS
<1>1. CASE Client
  <2>1. PICK d \in Documents :
          Open(d) \/ Change(d) \/ ParseOnDemand(d) \/ Save(d) \/ Close(d)
    BY <1>1 DEF Client
  <2>2. CASE Save(d)
    <3>1. SpawnDiagnostics(d) /\ owed' = owed /\ saves' = saves + 1
          /\ version + saves < MaxInputs
      BY <2>2 DEF Save
    <3>2. saves' \in Versions
      BY <3>1, Typed, DiagnosticsAssumption DEF Versions
    <3>3. QED
      BY <3>1, <3>2, SpawnDiagnosticsTInv
  <2>3. QED
    BY <2>1, <2>2, StoreTInv, ClosingTInv
<1>2. CASE AbortAll \/ Closing
  BY <1>2, ClosingTInv
<1>3. ASSUME NEW o \in owed, Trigger(o) PROVE TInv'
  <2>1. CASE OpenTrigger(o)
    <3>1. o.doc \in Documents /\ saves \in Versions
      BY DEF TInv, TypeOK
    <3>2. QED
      BY <2>1, <3>1, SpawnDiagnosticsTInv DEF OpenTrigger
  <2>2. QED
    BY <1>3, <2>1, ChangeTriggerTInv DEF Trigger
<1>4. ASSUME NEW i \in Timers, Fire(i) PROVE TInv'
  BY <1>4, FireTInv
<1>5. ASSUME NEW a \in Registrars, Registration(a) PROVE TInv'
  BY <1>5, RegistrationTInv
<1>6. ASSUME NEW t \in Tasks, Run(t) PROVE TInv'
  BY <1>6, RunTInv
<1>7. CASE UNCHANGED vars
  <2>1. MainKept /\ TasksKept /\ EntriesKept /\ TimersKept
    BY <1>7, Kept, Typed DEF vars, storeVars, taskVars, timerVars
  <2>2. QED
    BY <2>1, RegistryTInv
<1>8. QED
  BY <1>1, <1>2, <1>3, <1>4, <1>5, <1>6, <1>7 DEF Next, Progress
-----------------------------------------------------------------------------
(* The versions.  Each change has a timer of its own, which is not used    *)
(* before its trigger; an entry is of a timer of its document.             *)
VersionsInv ==
  /\ \A o \in owed : o.version <= version /\ timer[o.version].at = "unborn"
  /\ \A o, p \in owed : o.version = p.version => o = p
  /\ \A i \in Timers : i > version => timer[i].at = "unborn"
  /\ \A d \in Documents : active_timers[d] # None =>
        /\ timer[active_timers[d]].doc = d
        /\ timer[active_timers[d]].at # "unborn"

(* What is known of a document is of its version at most, and of those     *)
(* that were given out.                                                    *)
UpTo(d, n) ==
  /\ published[d] <= n
  /\ \A t \in Tasks : task[t].doc = d => task[t].snapshot <= n
  /\ \A i \in Timers : timer[i].doc = d => timer[i].snapshot <= n

NewestInv ==
  \A d \in Documents : /\ UpTo(d, version) /\ text[d] <= version
                       /\ text[d] # 0 => UpTo(d, text[d])

AgeInv == VersionsInv /\ NewestInv

(* A step in which no task is born and every task stays what it is.        *)
TasksGoOn ==
  \A t \in Tasks :
     /\ task'[t].doc = task[t].doc /\ task'[t].snapshot = task[t].snapshot
     /\ task[t].at = "unborn" => task'[t] = task[t]
     /\ task[t].at # "unborn" => task'[t].at # "unborn"
     /\ Live(t)' => Live(t)
     /\ task'[t].at = "publishing" => task[t].at = "publishing" \/ task[t].snapshot # 0

(* Tasks and timers end, texts go, and what is published was a snapshot.   *)
Ending ==
  /\ UNCHANGED <<version, owed>> /\ TasksGoOn
  /\ \A i \in Timers : /\ timer'[i].doc = timer[i].doc
                       /\ timer'[i].snapshot = timer[i].snapshot
                       /\ timer'[i].at # "unborn" <=> timer[i].at # "unborn"
                       /\ timer'[i].at \in {timer[i].at, "done"}
  /\ \A d \in Documents : active_timers'[d] \in {None, active_timers[d]}
  /\ \A d \in Documents : text'[d] \in {0, text[d]}
  /\ \A d \in Documents :
        \/ published'[d] = published[d]
        \/ \E t \in Tasks : task[t].doc = d /\ published'[d] = task[t].snapshot

LEMMA InitAge == Init => AgeInv
<1> SUFFICES ASSUME Init PROVE AgeInv
  OBVIOUS
<1>1. /\ \A t \in Tasks : task[t].snapshot = 0
      /\ \A i \in Timers : timer[i].snapshot = 0 /\ timer[i].at = "unborn"
      /\ owed = {} /\ version = 0
      /\ \A d \in Documents : /\ text[d] = 0 /\ published[d] = 0
                              /\ active_timers[d] = None
  BY UnbornFacts DEF Init
<1>2. VersionsInv
  BY <1>1, Apart DEF VersionsInv
<1>3. NewestInv
  BY <1>1 DEF NewestInv, UpTo
<1>4. QED
  BY <1>2, <1>3 DEF AgeInv

LEMMA EndingKeepsAge == ASSUME TInv, AgeInv, Ending PROVE AgeInv'
<1>1. VersionsInv'
  <2>1. \A d \in Documents : active_timers[d] # None => active_timers[d] \in Timers
    BY Typed
  <2>2. \A o \in owed : o.version \in Timers
    BY DEF TInv, DocumentsKnown
  <2>3. QED
    BY <2>1, <2>2 DEF AgeInv, VersionsInv, Ending
<1>2. ASSUME NEW d \in Documents, NEW n \in Nat, UpTo(d, n) PROVE UpTo(d, n)'
  BY <1>2 DEF UpTo, Ending, TasksGoOn
<1>3. NewestInv'
  <2> SUFFICES ASSUME NEW d \in Documents
               PROVE  /\ UpTo(d, version)' /\ text'[d] <= version'
                      /\ text'[d] # 0 => UpTo(d, text[d])'
    BY DEF NewestInv
  <2>1. PICK v \in Nat, x \in Nat : v = version /\ x = text[d]
    BY Apart DEF TInv, TypeOK
  <2>2. UpTo(d, v) /\ x <= v /\ (x # 0 => UpTo(d, x))
    BY <2>1 DEF AgeInv, NewestInv
  <2>3. UpTo(d, v)' /\ (x # 0 => UpTo(d, x)')
    BY <1>2, <2>2
  <2>4. version' = v /\ text'[d] \in {0, x}
    BY <2>1 DEF Ending
  <2>5. UpTo(d, version)' /\ text'[d] <= version'
    BY <2>2, <2>3, <2>4 DEF UpTo
  <2>6. text'[d] # 0 => UpTo(d, text[d])'
    BY <2>3, <2>4 DEF UpTo
  <2>7. QED
    BY <2>5, <2>6
<1>4. QED
  BY <1>1, <1>3 DEF AgeInv

(* Tasks that are aborted, or left alone.                                  *)
LEMMA AbortGoesOn ==
  ASSUME TInv, NEW S \in SUBSET Tasks, Abort(S), \A t \in S : task[t].at # "unborn"
  PROVE  /\ TasksGoOn /\ strays \subseteq strays'
         /\ \A t \in Tasks : Live(t)' /\ t \notin strays' => t \notin S
<1>1. ASSUME NEW t \in Tasks
      PROVE  /\ task'[t].doc = task[t].doc /\ task'[t].snapshot = task[t].snapshot
             /\ task[t].at = "unborn" => task'[t] = task[t]
             /\ task[t].at # "unborn" => task'[t].at # "unborn"
             /\ task'[t].at \in {task[t].at, "done"}
             /\ t \in S => task'[t].at = "done" \/ t \in strays'
  BY AbortFacts
<1>2. QED
  BY <1>1, AbortFacts DEF TasksGoOn, Live

LEMMA StillGoesOn == UNCHANGED task => TasksGoOn
BY DEF TasksGoOn, Live

LEMMA RunGoesOn == ASSUME TInv, NEW t \in Tasks, Run(t) PROVE TasksGoOn
BY RunFacts DEF TasksGoOn, Live

(* The steps that only end something.                                      *)
LEMMA EndingSteps ==
  ASSUME TInv,
         \/ \E d \in Documents : ParseOnDemand(d) \/ Close(d)
         \/ AbortAll \/ Closing
         \/ \E a \in Registrars : Registration(a)
         \/ \E t \in Tasks : Run(t)
         \/ UNCHANGED vars
  PROVE  Ending
<1> DEFINE TimersStill ==
             /\ \A i \in Timers : /\ timer'[i].doc = timer[i].doc
                                  /\ timer'[i].snapshot = timer[i].snapshot
                                  /\ timer'[i].at # "unborn" <=> timer[i].at # "unborn"
                                  /\ timer'[i].at \in {timer[i].at, "done"}
             /\ \A d \in Documents : active_timers'[d] \in {None, active_timers[d]}
<1>1. UNCHANGED timerVars => TimersStill
  BY DEF timerVars
<1>2. ASSUME NEW d \in Documents, ParseOnDemand(d) PROVE Ending
  BY <1>1, <1>2, StillGoesOn DEF ParseOnDemand, Ending, taskVars
<1>3. ASSUME NEW d \in Documents, Close(d) PROVE Ending
  BY <1>1, <1>3, CloseFacts, StillGoesOn DEF Ending, taskVars
<1>4. CASE CloseTask
  BY <1>1, <1>4, CloseTaskFacts, StillGoesOn DEF Ending, storeVars
<1>5. CASE AbortTask
  <2>1. PICK S \in SUBSET Tasks : S = {main.handle} \ {None}
    BY <1>5, AbortTaskFacts
  <2>2. TasksGoOn
    BY <1>5, <2>1, AbortTaskFacts, AbortGoesOn
  <2>3. QED
    BY <1>1, <1>5, <2>2, AbortTaskFacts DEF Ending, storeVars
<1>6. CASE CloseTimer
  <2>1. TimersStill
    <3>1. \A d \in Documents : active_timers'[d] \in {None, active_timers[d]}
      BY <1>6, CloseTimerFacts, Typed
    <3>2. QED
      BY <1>6, <3>1, CloseTimerFacts, AbortTimerFacts
  <2>2. QED
    BY <1>6, <2>1, CloseTimerFacts, StillGoesOn DEF Ending, storeVars, taskVars
<1>7. CASE AbortAll
  <2>1. TasksGoOn
    BY <1>7, AbortAllFacts, EntriesFacts, AbortGoesOn
  <2>2. QED
    BY <1>1, <1>7, <2>1, AbortAllFacts DEF Ending, storeVars
<1>8. CASE ClearTasks
  BY <1>1, <1>8, ClearTasksFacts, StillGoesOn DEF Ending, storeVars
<1>9. CASE CancelAll
  BY <1>9, CancelAllFacts, StillGoesOn DEF Ending, storeVars, taskVars
<1>10. ASSUME NEW a \in Registrars, FindFinished(a) PROVE Ending
  BY <1>1, <1>10, FindFacts, StillGoesOn DEF Ending, storeVars, taskVars
<1>11. ASSUME NEW a \in Registrars, RemoveFinished(a) PROVE Ending
  <2>1. UNCHANGED <<storeVars, main, task, timerVars, published, due>>
    BY <1>11 DEF RemoveFinished
  <2>2. QED
    BY <1>1, <2>1, StillGoesOn DEF Ending, storeVars
<1>12. ASSUME NEW a \in Registrars, Insert(a) PROVE Ending
  <2>1. PICK t \in Tasks, d \in Documents : Inserted(a, t, d)
    BY <1>12, InsertFacts
  <2>2. TimersStill
    BY <2>1 DEF Inserted
  <2>3. QED
    BY <2>1, <2>2, StillGoesOn DEF Inserted, Ending, storeVars
<1>13. ASSUME NEW a \in Registrars, AbortPrevious(a) PROVE Ending
  <2>1. PICK p \in Tasks : /\ p = registering[a].previous /\ task[p].at # "unborn"
                           /\ Abort({p})
    BY <1>13, AbortPreviousFacts
  <2>2. TasksGoOn
    BY <2>1, AbortGoesOn
  <2>3. QED
    BY <1>1, <1>13, <2>2, AbortPreviousFacts DEF Ending, storeVars
<1>14. ASSUME NEW t \in Tasks, Run(t) PROVE Ending
  <2>1. \A d \in Documents :
           \/ published'[d] = published[d]
           \/ task[t].doc = d /\ published'[d] = task[t].snapshot
    BY <1>14, RunFacts, Typed
  <2>2. QED
    BY <1>1, <1>14, <2>1, RunFacts, RunGoesOn DEF Ending, storeVars
<1>15. CASE UNCHANGED vars
  BY <1>1, <1>15, StillGoesOn DEF Ending, vars, storeVars, taskVars
<1>16. QED
  BY <1>2, <1>3, <1>4, <1>5, <1>6, <1>7, <1>8, <1>9, <1>10, <1>11, <1>12, <1>13,
     <1>14, <1>15 DEF Closing, Registration

(* A text is stored: it is newer than all that is known.                   *)
LEMMA StoreAge ==
  ASSUME TInv, AgeInv, NEW d \in Documents, NEW k \in {"open", "change"},
         StoreText(d, k)
  PROVE  AgeInv'
<1>1. PICK v \in Nat : v = version
  BY Apart DEF TInv, TypeOK
<1>2. /\ version' = v + 1 /\ v + 1 \in Timers
      /\ text' = [text EXCEPT ![d] = v + 1]
      /\ owed' = owed \cup {[doc |-> d, kind |-> k, version |-> v + 1]}
      /\ UNCHANGED <<taskVars, timerVars, published>>
  <2>1. v + saves < MaxInputs /\ saves \in Nat /\ MaxInputs \in Nat
    BY <1>1, Typed, Apart, DiagnosticsAssumption DEF StoreText
  <2>2. v + 1 \in Timers
    BY <2>1 DEF Timers
  <2>3. QED
    BY <1>1, <2>2 DEF StoreText
<1>3. VersionsInv'
  <2>1. \A o \in owed : o.version <= v /\ o.version \in Nat
    BY <1>1, Apart DEF AgeInv, VersionsInv, TInv, DocumentsKnown
  <2>2. timer[v + 1].at = "unborn"
    BY <1>1, <1>2, Apart DEF AgeInv, VersionsInv
  <2>3. \A o \in owed' : o.version <= version' /\ timer'[o.version].at = "unborn"
    BY <1>1, <1>2, <2>1, <2>2 DEF AgeInv, VersionsInv, timerVars
  <2>4. \A o, p \in owed' : o.version = p.version => o = p
    BY <1>1, <1>2, <2>1 DEF AgeInv, VersionsInv
  <2>5. \A i \in Timers : i > version' => timer'[i].at = "unborn"
    BY <1>1, <1>2, Apart DEF AgeInv, VersionsInv, timerVars
  <2>6. QED
    BY <1>2, <2>3, <2>4, <2>5 DEF AgeInv, VersionsInv, taskVars, timerVars
<1>4. NewestInv'
  <2> SUFFICES ASSUME NEW e \in Documents
               PROVE  /\ UpTo(e, version)' /\ text'[e] <= version'
                      /\ text'[e] # 0 => UpTo(e, text[e])'
    BY DEF NewestInv
  <2>1. PICK x \in Nat : x = text[e]
    BY Apart DEF TInv, TypeOK
  <2>2. UpTo(e, v) /\ x <= v /\ (x # 0 => UpTo(e, x))
    BY <1>1, <2>1 DEF AgeInv, NewestInv
  <2>3. UpTo(e, v + 1)' /\ (x # 0 => UpTo(e, x)')
    <3>1. /\ published[e] \in Nat /\ \A t \in Tasks : task[t].snapshot \in Nat
          /\ \A i \in Timers : timer[i].snapshot \in Nat
      BY Typed, Apart DEF TaskRecord, TimerRecord
    <3>2. UpTo(e, v + 1)
      BY <2>2, <3>1 DEF UpTo
    <3>3. QED
      BY <1>2, <2>2, <3>2 DEF UpTo, taskVars, timerVars
  <2>4. text'[e] = IF e = d THEN v + 1 ELSE x
    BY <1>2, <2>1 DEF TInv, TypeOK
  <2>5. UpTo(e, version)' /\ text'[e] <= version'
    BY <1>2, <2>2, <2>3, <2>4 DEF UpTo
  <2>6. text'[e] # 0 => UpTo(e, text[e])'
    BY <2>3, <2>4 DEF UpTo
  <2>7. QED
    BY <2>5, <2>6
<1>5. QED
  BY <1>3, <1>4 DEF AgeInv

(* What a trigger takes is no newer than the text.                         *)
LEMMA SnapshotAge ==
  ASSUME TInv, AgeInv, NEW d \in Documents
  PROVE  /\ Snapshot(d) \in Versions /\ Snapshot(d) \in {0, text[d]}
         /\ Snapshot(d) <= version /\ Snapshot(d) <= text[d]
<1>1. text[d] \in Nat /\ text[d] \in Versions /\ version \in Nat /\ 0 \in Versions
  BY Apart DEF TInv, TypeOK
<1>2. text[d] <= version
  BY DEF AgeInv, NewestInv
<1>3. Snapshot(d) \in {0, text[d]}
  BY DEF Snapshot
<1>4. QED
  BY <1>1, <1>2, <1>3

(* A task is spawned of a snapshot no newer than the text.                 *)
LEMMA SpawnAge ==
  ASSUME TInv, AgeInv, NEW a \in Registrars, NEW d \in Documents, NEW s \in Versions,
         Spawn(a, d, s), s <= version, text[d] # 0 => s <= text[d],
         owed' \subseteq owed,
         \A i \in Timers : /\ timer'[i].doc = timer[i].doc
                           /\ timer'[i].snapshot = timer[i].snapshot
                           /\ timer'[i].at = "unborn" <=> timer[i].at = "unborn",
         UNCHANGED <<text, version, active_timers, published>>
  PROVE  AgeInv'
<1>1. PICK t \in Tasks :
        /\ task'[t].doc = d /\ task'[t].snapshot = s
        /\ \A u \in Tasks \ {t} : task'[u] = task[u]
  BY SpawnFacts
<1>2. VersionsInv'
  <2>1. \A o \in owed' : o.version <= version' /\ timer'[o.version].at = "unborn"
    BY DEF AgeInv, VersionsInv, TInv, DocumentsKnown
  <2>2. \A e \in Documents : active_timers'[e] # None =>
           /\ timer'[active_timers'[e]].doc = e
           /\ timer'[active_timers'[e]].at # "unborn"
    BY Typed DEF AgeInv, VersionsInv
  <2>3. QED
    BY <2>1, <2>2 DEF AgeInv, VersionsInv
<1>3. NewestInv'
  <2>1. ASSUME NEW e \in Documents, NEW n \in Nat, UpTo(e, n), e = d => s <= n
        PROVE  UpTo(e, n)'
    BY <1>1, <2>1 DEF UpTo
  <2> SUFFICES ASSUME NEW e \in Documents
               PROVE  /\ UpTo(e, version)' /\ text'[e] <= version'
                      /\ text'[e] # 0 => UpTo(e, text[e])'
    BY DEF NewestInv
  <2>2. PICK v \in Nat, x \in Nat : v = version /\ x = text[e]
    BY Apart DEF TInv, TypeOK
  <2>3. UpTo(e, v) /\ x <= v /\ (x # 0 => UpTo(e, x))
    BY <2>2 DEF AgeInv, NewestInv
  <2>4. UpTo(e, v)' /\ (x # 0 => UpTo(e, x)')
    BY <2>1, <2>2, <2>3
  <2>5. version' = v /\ text'[e] = x
    BY <2>2
  <2>6. UpTo(e, version)' /\ text'[e] <= version'
    BY <2>3, <2>4, <2>5 DEF UpTo
  <2>7. text'[e] # 0 => UpTo(e, text[e])'
    BY <2>4, <2>5 DEF UpTo
  <2>8. QED
    BY <2>6, <2>7
<1>4. QED
  BY <1>2, <1>3 DEF AgeInv

LEMMA FireAge == ASSUME TInv, AgeInv, NEW i \in Timers, Fire(i) PROVE AgeInv'
<1>1. /\ timer[i].snapshot <= version
      /\ text[timer[i].doc] # 0 => timer[i].snapshot <= text[timer[i].doc]
  BY FireTimers DEF AgeInv, NewestInv, UpTo
<1>2. \A j \in Timers : /\ timer'[j].doc = timer[j].doc
                        /\ timer'[j].snapshot = timer[j].snapshot
                        /\ timer'[j].at = "unborn" <=> timer[j].at = "unborn"
  BY FireTimers
<1>3. PICK d \in Documents, s \in Versions : d = timer[i].doc /\ s = timer[i].snapshot
  BY FireTimers
<1>4. QED
  BY <1>1, <1>2, <1>3, FireTimers, SpawnAge, Apart DEF storeVars

(* The timer of a change was not used before, and the timers of other      *)
(* documents go on.                                                        *)
LEMMA ChangeFacts ==
  ASSUME TInv, AgeInv, NEW o \in owed, ChangeTrigger(o)
  PROVE  /\ timer[o.version].at = "unborn" /\ registering[o.version].task = None
         /\ \A i \in Timers \ {o.version} :
               /\ timer'[i].doc = timer[i].doc /\ timer'[i].snapshot = timer[i].snapshot
               /\ timer'[i].at = "unborn" <=> timer[i].at = "unborn"
               /\ timer'[i].at = "sleeping" =>
                     timer[i].at = "sleeping" /\ timer[i].doc # o.doc
               /\ timer[i].doc # o.doc => timer'[i] = timer[i]
<1>1. o.doc \in Documents /\ o.version \in Timers
  BY ChangeTimers
<1>2. timer[o.version].at = "unborn"
  BY DEF AgeInv, VersionsInv
<1>3. registering[o.version].task = None
  BY <1>1, <1>2 DEF TInv, DocumentsKnown
<1>4. ASSUME NEW i \in Timers \ {o.version}
      PROVE  /\ timer'[i].doc = timer[i].doc /\ timer'[i].snapshot = timer[i].snapshot
             /\ timer'[i].at = "unborn" <=> timer[i].at = "unborn"
             /\ timer'[i].at = "sleeping" =>
                   timer[i].at = "sleeping" /\ timer[i].doc # o.doc
             /\ timer[i].doc # o.doc => timer'[i] = timer[i]
  <2>1. timer'[i] = AbortTimer(o.doc)[i]
    BY ChangeTimers
  <2>2. i = active_timers[o.doc] => timer[i].doc = o.doc
    BY <1>1, Apart DEF AgeInv, VersionsInv
  <2>3. QED
    BY <1>1, <2>1, <2>2, AbortTimerFacts
<1>5. QED
  BY <1>2, <1>3, <1>4

LEMMA ChangeTriggerAge ==
  ASSUME TInv, AgeInv, NEW o \in owed, ChangeTrigger(o) PROVE AgeInv'
<1> DEFINE n == o.version
           d == o.doc
<1>1. /\ d \in Documents /\ n \in Timers
      /\ timer[n].at = "unborn"
      /\ timer'[n].doc = d /\ timer'[n].snapshot = Snapshot(d)
      /\ timer'[n].at = "sleeping"
      /\ \A i \in Timers \ {n} :
            /\ timer'[i].doc = timer[i].doc /\ timer'[i].snapshot = timer[i].snapshot
            /\ timer'[i].at = "unborn" <=> timer[i].at = "unborn"
      /\ owed' = owed \ {o}
      /\ UNCHANGED <<text, version, main, taskVars, registering, published>>
  BY ChangeFacts, ChangeTimers
<1>2. active_timers' = [active_timers EXCEPT ![d] = n]
  BY DEF ChangeTrigger
<1>3. VersionsInv'
  <2>1. \A p \in owed' : p.version \in Timers \ {n}
    BY <1>1 DEF AgeInv, VersionsInv, TInv, DocumentsKnown
  <2>2. n <= version
    BY DEF AgeInv, VersionsInv
  <2> HIDE DEF n, d
  <2>3. \A p \in owed' : p.version <= version' /\ timer'[p.version].at = "unborn"
    BY <1>1, <2>1 DEF AgeInv, VersionsInv
  <2>4. \A i \in Timers : i > version' => timer'[i].at = "unborn"
    BY <1>1, <2>2, Apart DEF AgeInv, VersionsInv, TInv, TypeOK
  <2>5. \A e \in Documents : active_timers'[e] # None =>
           /\ timer'[active_timers'[e]].doc = e
           /\ timer'[active_timers'[e]].at # "unborn"
    BY <1>1, <1>2 DEF AgeInv, VersionsInv, TInv, TypeOK
  <2>6. \A p, q \in owed' : p.version = q.version => p = q
    BY <1>1 DEF AgeInv, VersionsInv
  <2>7. QED
    BY <2>3, <2>4, <2>5, <2>6 DEF VersionsInv
<1>4. NewestInv'
  <2>1. Snapshot(d) <= version /\ Snapshot(d) <= text[d]
    BY <1>1, SnapshotAge
  <2> HIDE DEF n, d
  <2>2. ASSUME NEW e \in Documents, NEW m \in Nat, UpTo(e, m), e = d => Snapshot(d) <= m
        PROVE  UpTo(e, m)'
    <3>1. \A i \in Timers : timer'[i].doc = e => timer'[i].snapshot <= m
      BY <1>1, <2>2 DEF UpTo
    <3>2. QED
      BY <1>1, <2>2, <3>1 DEF UpTo, taskVars
  <2> SUFFICES ASSUME NEW e \in Documents
               PROVE  /\ UpTo(e, version)' /\ text'[e] <= version'
                      /\ text'[e] # 0 => UpTo(e, text[e])'
    BY DEF NewestInv
  <2>3. PICK v \in Nat, x \in Nat : v = version /\ x = text[e]
    BY Apart DEF TInv, TypeOK
  <2>4. UpTo(e, v) /\ x <= v /\ (x # 0 => UpTo(e, x))
    BY <2>3 DEF AgeInv, NewestInv
  <2>5. UpTo(e, v)' /\ (x # 0 => UpTo(e, x)')
    BY <2>1, <2>2, <2>3, <2>4
  <2>6. version' = v /\ text'[e] = x
    BY <1>1, <2>3
  <2>7. UpTo(e, version)' /\ text'[e] <= version'
    BY <2>4, <2>5, <2>6 DEF UpTo
  <2>8. text'[e] # 0 => UpTo(e, text[e])'
    BY <2>5, <2>6 DEF UpTo
  <2>9. QED
    BY <2>7, <2>8
<1>5. QED
  BY <1>3, <1>4 DEF AgeInv

LEMMA SpawnDiagnosticsAge ==
  ASSUME TInv, AgeInv, NEW d \in Documents, SpawnDiagnostics(d), owed' \subseteq owed
  PROVE  AgeInv'
<1>1. /\ Spawn(Main, d, Snapshot(d))
      /\ UNCHANGED <<text, version, timer, active_timers, published>>
  BY DEF SpawnDiagnostics, timerVars
<1>2. QED
  BY <1>1, SnapshotAge, SpawnAge, Apart

LEMMA NextAge == TInv /\ AgeInv /\ [Next]_vars => AgeInv'
<1> SUFFICES ASSUME TInv, AgeInv, [Next]_vars PROVE AgeInv'
  OBVIOUS
<1>1. CASE Client
  <2>1. PICK d \in Documents :
          Open(d) \/ Change(d) \/ ParseOnDemand(d) \/ Save(d) \/ Close(d)
    BY <1>1 DEF Client
  <2>2. CASE Open(d) \/ Change(d)
    BY <2>2, StoreAge DEF Open, Change
  <2>3. CASE Save(d)
    BY <2>3, SpawnDiagnosticsAge DEF Save
  <2>4. QED
    BY <2>1, <2>2, <2>3, EndingSteps, EndingKeepsAge
<1>2. ASSUME NEW o \in owed, Trigger(o) PROVE AgeInv'
  <2>1. CASE OpenTrigger(o)
    <3>1. o.doc \in Documents
      BY DEF TInv, TypeOK
    <3>2. QED
      BY <2>1, <3>1, SpawnDiagnosticsAge DEF OpenTrigger
  <2>2. QED
    BY <1>2, <2>1, ChangeTriggerAge DEF Trigger
<1>3. ASSUME NEW i \in Timers, Fire(i) PROVE AgeInv'
  BY <1>3, FireAge
<1>4. QED
  BY <1>1, <1>2, <1>3, EndingSteps, EndingKeepsAge DEF Next, Progress
-----------------------------------------------------------------------------
(* The registry.  A registrar does one thing at a time, and a timer that   *)
(* sleeps none; the tasks are born one after the other.                    *)
OneThing ==
  /\ \A i \in Timers :
        timer[i].at \in {"unborn", "sleeping"} =>
           registering[i].task = None /\ registering[i].previous = None
  /\ \A a \in Registrars :
        registering[a].task # None => registering[a].previous = None

BornInv ==
  /\ \A t \in Tasks : task[t].at = "unborn" => task[t] = Unborn
  /\ \A t, u \in Tasks : u < t /\ task[t].at # "unborn" => task[u].at # "unborn"

(* Whoever registers a newer task of the document will find the older one. *)
OrderInv ==
  \A t, u \in Tasks :
     /\ t < u /\ task[t].doc = task[u].doc /\ Live(t) /\ t \notin strays
     => t \in Doomed \/ u \in Unregistered(task[t].doc)

LInv == OneThing /\ BornInv /\ LiveTasksRegistered /\ OrderInv

(* What a step leaves of the standing of a task that goes on.              *)
HandedOn(t, d) ==
  /\ t \in Doomed => t \in Doomed'
  /\ t \in Unregistered(d) => t \in Unregistered(d)' \/ active_tasks'[d] = t
  /\ active_tasks[d] = t => active_tasks'[d] = t \/ t \in Doomed'
  /\ \A u \in Tasks : t < u /\ u \in Unregistered(d) =>
        u \in Unregistered(d)' \/ t \in Doomed'

Going ==
  /\ TasksGoOn /\ strays \subseteq strays'
  /\ \A t \in Tasks, d \in Documents :
        Live(t)' /\ t \notin strays' /\ task[t].doc = d => HandedOn(t, d)

LEMMA GoingLInv ==
  ASSUME TInv, LInv, Going PROVE (BornInv /\ LiveTasksRegistered /\ OrderInv)'
<1>1. BornInv'
  <2>1. \A t \in Tasks : task'[t].at = "unborn" => task'[t] = Unborn
    BY DEF Going, TasksGoOn, LInv, BornInv
  <2>2. \A t, u \in Tasks : u < t /\ task'[t].at # "unborn" => task'[u].at # "unborn"
    <3>1. \A t \in Tasks : task'[t].at # "unborn" <=> task[t].at # "unborn"
      BY DEF Going, TasksGoOn
    <3>2. QED
      BY <3>1 DEF LInv, BornInv
  <2>3. QED
    BY <2>1, <2>2 DEF BornInv
<1>2. ASSUME NEW t \in Tasks, Live(t)', t \notin strays'
      PROVE  \E d \in Documents :
               /\ Live(t) /\ t \notin strays /\ HandedOn(t, d)
               /\ task'[t].doc = d /\ task[t].doc = d
  <2>1. Live(t) /\ t \notin strays /\ task'[t].doc = task[t].doc
    BY <1>2 DEF Going, TasksGoOn
  <2>2. task[t].doc \in Documents
    BY <2>1 DEF Live, TInv, DocumentsKnown
  <2>3. QED
    BY <1>2, <2>1, <2>2 DEF Going
<1>3. LiveTasksRegistered'
  <2> SUFFICES ASSUME NEW t \in Tasks, Live(t)', t \notin strays'
               PROVE  (active_tasks[task[t].doc] = t \/ Attended(t))'
    BY DEF LiveTasksRegistered
  <2>1. PICK d \in Documents :
           /\ Live(t) /\ t \notin strays /\ HandedOn(t, d)
           /\ task'[t].doc = d /\ task[t].doc = d
    BY <1>2
  <2>2. active_tasks[d] = t \/ t \in Unregistered(d) \/ t \in Doomed
    BY <2>1 DEF LInv, LiveTasksRegistered, Attended
  <2>3. active_tasks'[d] = t \/ t \in Unregistered(d)' \/ t \in Doomed'
    BY <2>1, <2>2 DEF HandedOn
  <2>4. QED
    BY <2>1, <2>3 DEF Attended, Unregistered
<1>4. OrderInv'
  <2> SUFFICES ASSUME NEW t \in Tasks, NEW u \in Tasks, t < u,
                      task'[t].doc = task'[u].doc, Live(t)', t \notin strays'
               PROVE  (t \in Doomed \/ u \in Unregistered(task[t].doc))'
    BY DEF OrderInv
  <2>1. PICK d \in Documents :
           /\ Live(t) /\ t \notin strays /\ HandedOn(t, d)
           /\ task'[t].doc = d /\ task[t].doc = d
    BY <1>2
  <2>2. task[u].doc = d
    BY <2>1 DEF Going, TasksGoOn
  <2>3. t \in Doomed \/ u \in Unregistered(d)
    BY <2>1, <2>2 DEF LInv, OrderInv
  <2>4. t \in Doomed' \/ u \in Unregistered(d)'
    BY <2>1, <2>3 DEF HandedOn
  <2>5. QED
    BY <2>1, <2>4 DEF Unregistered
<1>5. QED
  BY <1>1, <1>3, <1>4

(* What is left alone stands as it stood.                                  *)
LEMMA StillUnregistered ==
  ASSUME TInv, TasksGoOn,
         \A b \in Registrars : registering'[b].task = registering[b].task
  PROVE  \A d \in Documents : Unregistered(d)' = Unregistered(d)
<1>1. \A b \in Registrars : registering[b].task \in Tasks \cup {None}
  BY Typed, RegistrarFields
<1>2. {registering'[b].task : b \in Registrars} = {registering[b].task : b \in Registrars}
  OBVIOUS
<1>3. {registering[b].task : b \in Registrars} \ {None} \subseteq Tasks
  BY <1>1
<1>4. QED
  BY <1>2, <1>3 DEF Unregistered, TasksGoOn

LEMMA StillDoomed ==
  ASSUME \A b \in Registrars : registering'[b].previous = registering[b].previous,
         main'.handle = main.handle \/ main.handle = None
  PROVE  \A t \in Tasks : t \in Doomed => t \in Doomed'
BY Apart DEF Doomed

LEMMA StillHanded ==
  ASSUME TInv, TasksGoOn, strays \subseteq strays',
         \A b \in Registrars : /\ registering'[b].task = registering[b].task
                               /\ registering'[b].previous = registering[b].previous,
         main'.handle = main.handle \/ main.handle = None,
         \A t \in Tasks : Live(t)' /\ t \notin strays' =>
            (active_tasks[task[t].doc] = t =>
               active_tasks'[task[t].doc] = t \/ t \in Doomed')
  PROVE  Going
<1> SUFFICES ASSUME NEW t \in Tasks, NEW d \in Documents, Live(t)', t \notin strays',
                    task[t].doc = d
             PROVE  HandedOn(t, d)
  BY DEF Going
<1>1. Unregistered(d)' = Unregistered(d)
  BY StillUnregistered
<1>2. t \in Doomed => t \in Doomed'
  BY StillDoomed
<1>3. QED
  BY <1>1, <1>2 DEF HandedOn

(* The steps in which no task is born hand on what goes on.                *)
LEMMA RegistrationGoing ==
  ASSUME TInv, LInv, NEW a \in Registrars, Registration(a) PROVE Going
<1>1. CASE FindFinished(a)
  BY <1>1, FindFacts, StillGoesOn, StillHanded DEF taskVars
<1>2. CASE RemoveFinished(a)
  <2>1. PICK d \in Documents :
          /\ \A b \in Registrars :
                /\ registering'[b].task = registering[b].task
                /\ registering'[b].previous = registering[b].previous
          /\ \A e \in Documents \ {d} : active_tasks'[e] = active_tasks[e]
          /\ strays' = strays \cup {t \in Entries({d}) : Live(t)}
    BY <1>2, RemoveFacts
  <2>2. UNCHANGED <<main, task>>
    BY <1>2 DEF RemoveFinished
  <2>3. ASSUME NEW t \in Tasks, Live(t)', t \notin strays', active_tasks[task[t].doc] = t
        PROVE  active_tasks'[task[t].doc] = t
    <3>1. Live(t) /\ task[t].doc \in Documents
      BY <2>2, <2>3 DEF Live, TInv, DocumentsKnown
    <3>2. task[t].doc # d
      BY <2>1, <2>3, <3>1, EntriesFacts, Apart
    <3>3. QED
      BY <2>1, <2>3, <3>1, <3>2
  <2>4. QED
    BY <2>1, <2>2, <2>3, StillGoesOn, StillHanded
<1>3. CASE Insert(a)
  <2>1. PICK n \in Tasks, e \in Documents : Inserted(a, n, e)
    BY <1>3, InsertFacts
  <2>2. TasksGoOn
    BY <2>1, StillGoesOn DEF Inserted
  <2> SUFFICES ASSUME NEW t \in Tasks, NEW d \in Documents, Live(t)',
                      t \notin strays', task[t].doc = d
               PROVE  HandedOn(t, d)
    BY <2>1, <2>2 DEF Going, Inserted
  <2>3. Live(t) /\ t \notin strays
    BY <2>1 DEF Inserted, Live
  <2>4. registering[a].previous = None
    BY <2>1, Apart DEF Inserted, LInv, OneThing
  <2>5. t \in Doomed => t \in Doomed'
    BY <2>1, <2>4, Apart DEF Doomed, Inserted
  <2>6. active_tasks[d] = t => active_tasks'[d] = t \/ t \in Doomed'
    <3>1. CASE d = e
      <4>1. active_tasks[d] = t => registering'[a].previous = t
        BY <2>1, <2>3, <3>1, RunningFacts DEF Inserted
      <4>2. QED
        BY <4>1, Apart DEF Doomed
    <3>2. CASE d # e
      BY <2>1, <3>2 DEF Inserted
    <3>3. QED
      BY <3>1, <3>2
  <2>7. ASSUME NEW u \in Tasks, u \in Unregistered(d)
        PROVE  u \in Unregistered(d)' \/ (u = n /\ d = e)
    <3>1. PICK b \in Registrars : registering[b].task = u /\ task[u].doc = d
      BY <2>7, UnregisteredFacts
    <3>2. CASE b = a
      BY <2>1, <3>1, <3>2 DEF Inserted
    <3>3. CASE b # a
      <4>1. registering'[b].task = u /\ task'[u].doc = d /\ u # None
        BY <2>1, <3>1, <3>3, Apart DEF Inserted
      <4>2. QED
        BY <4>1 DEF Unregistered
    <3>4. QED
      BY <3>2, <3>3
  <2>8. t \in Unregistered(d) => t \in Unregistered(d)' \/ active_tasks'[d] = t
    BY <2>1, <2>7 DEF Inserted
  <2>9. ASSUME NEW u \in Tasks, t < u, u \in Unregistered(d)
        PROVE  u \in Unregistered(d)' \/ t \in Doomed'
    <3>1. CASE u = n /\ d = e
      <4>1. t \notin Unregistered(d)
        BY <2>1, <2>9, <3>1 DEF Inserted
      <4>2. active_tasks[d] = t \/ t \in Doomed
        BY <2>3, <4>1 DEF LInv, LiveTasksRegistered, Attended
      <4>3. active_tasks'[d] # t
        BY <2>1, <2>9, <3>1, Apart DEF Inserted
      <4>4. QED
        BY <2>5, <2>6, <4>2, <4>3
    <3>2. QED
      BY <2>7, <2>9, <3>1
  <2>10. QED
    BY <2>5, <2>6, <2>8, <2>9 DEF HandedOn
<1>4. CASE AbortPrevious(a)
  <2>1. PICK p \in Tasks : /\ p = registering[a].previous /\ task[p].at # "unborn"
                           /\ Abort({p})
    BY <1>4, AbortPreviousFacts
  <2>2. /\ TasksGoOn /\ strays \subseteq strays'
        /\ \A t \in Tasks : Live(t)' /\ t \notin strays' => t # p
    BY <2>1, AbortGoesOn
  <2>3. \A b \in Registrars : registering'[b].task = registering[b].task
    <3>1. registering[a].task = None
      BY <2>1, Apart DEF LInv, OneThing
    <3>2. QED
      BY <1>4, <3>1, AbortPreviousFacts, IdleFacts
  <2> SUFFICES ASSUME NEW t \in Tasks, NEW d \in Documents, Live(t)',
                      t \notin strays', task[t].doc = d
               PROVE  HandedOn(t, d)
    BY <2>2 DEF Going
  <2>4. Unregistered(d)' = Unregistered(d)
    BY <2>2, <2>3, StillUnregistered
  <2>5. t \in Doomed => t \in Doomed'
    <3>1. t # registering[a].previous
      BY <2>1, <2>2
    <3>2. QED
      BY <1>4, <3>1, AbortPreviousFacts DEF Doomed
  <2>6. QED
    BY <1>4, <2>4, <2>5, AbortPreviousFacts DEF HandedOn
<1>5. QED
  BY <1>1, <1>2, <1>3, <1>4 DEF Registration

LEMMA ClosingGoing ==
  ASSUME TInv, LInv, Closing \/ AbortAll \/ (\E d \in Documents : Close(d))
  PROVE  Going
<1>1. main.at # "aborting" => main.handle = None
  BY DEF TInv, DocumentsKnown
<1>2. ASSUME NEW d \in Documents, Close(d) PROVE Going
  BY <1>1, <1>2, CloseFacts, StillGoesOn, StillHanded DEF taskVars
<1>3. CASE CloseTask
  <2>1. /\ UNCHANGED <<task, registering, strays>> /\ main.doc \in Documents
        /\ main.handle = None /\ main'.handle = Running(active_tasks[main.doc])
        /\ \A e \in Documents \ {main.doc} : active_tasks'[e] = active_tasks[e]
    BY <1>1, <1>3, CloseTaskFacts
  <2>2. ASSUME NEW t \in Tasks, Live(t)', active_tasks[task[t].doc] = t
        PROVE  active_tasks'[task[t].doc] = t \/ t \in Doomed'
    <3>1. Live(t) /\ task[t].doc \in Documents
      BY <2>1, <2>2 DEF Live, TInv, DocumentsKnown
    <3>2. CASE task[t].doc = main.doc
      <4>1. main'.handle = t
        BY <2>1, <2>2, <3>1, <3>2, RunningFacts
      <4>2. QED
        BY <4>1 DEF Doomed
    <3>3. QED
      BY <2>1, <2>2, <3>1, <3>2
  <2>3. QED
    BY <2>1, <2>2, StillGoesOn, StillHanded
<1>4. CASE AbortTask
  <2>1. PICK S \in SUBSET Tasks : S = {main.handle} \ {None}
    BY <1>4, AbortTaskFacts
  <2>2. /\ TasksGoOn /\ strays \subseteq strays'
        /\ \A t \in Tasks : Live(t)' /\ t \notin strays' => t \notin S
    BY <1>4, <2>1, AbortTaskFacts, AbortGoesOn
  <2>3. UNCHANGED <<registering, active_tasks>>
    BY <1>4, AbortTaskFacts
  <2> SUFFICES ASSUME NEW t \in Tasks, NEW d \in Documents, Live(t)',
                      t \notin strays', task[t].doc = d
               PROVE  HandedOn(t, d)
    BY <2>2 DEF Going
  <2>4. Unregistered(d)' = Unregistered(d)
    BY <2>2, <2>3, StillUnregistered
  <2>5. t \in Doomed => t \in Doomed'
    <3>1. t # main.handle
      BY <2>1, <2>2, Apart
    <3>2. QED
      BY <2>3, <3>1 DEF Doomed
  <2>6. QED
    BY <2>3, <2>4, <2>5 DEF HandedOn
<1>5. CASE CloseTimer
  BY <1>1, <1>5, CloseTimerFacts, StillGoesOn, StillHanded DEF taskVars
<1>6. CASE AbortAll
  <2>1. TasksGoOn /\ strays \subseteq strays'
    BY <1>6, AbortAllFacts, EntriesFacts, AbortGoesOn
  <2>2. UNCHANGED <<registering, active_tasks>> /\ main.handle = None
    BY <1>1, <1>6, AbortAllFacts
  <2>3. QED
    BY <2>1, <2>2, StillHanded
<1>7. CASE ClearTasks
  <2>1. /\ UNCHANGED <<task, registering>> /\ main.handle = None
        /\ strays' = strays \cup {t \in Entries(Documents) : Live(t)}
    BY <1>1, <1>7, ClearTasksFacts
  <2>2. ASSUME NEW t \in Tasks, Live(t)', t \notin strays', active_tasks[task[t].doc] = t
        PROVE  FALSE
    <3>1. Live(t) /\ task[t].doc \in Documents
      BY <2>1, <2>2 DEF Live, TInv, DocumentsKnown
    <3>2. QED
      BY <2>1, <2>2, <3>1, EntriesFacts, Apart
  <2>3. QED
    BY <2>1, <2>2, StillGoesOn, StillHanded
<1>8. CASE CancelAll
  BY <1>1, <1>8, CancelAllFacts, StillGoesOn, StillHanded DEF taskVars
<1>9. QED
  BY <1>2, <1>3, <1>4, <1>5, <1>6, <1>7, <1>8 DEF Closing

LEMMA OtherGoing ==
  ASSUME TInv,
         \/ \E d \in Documents : Open(d) \/ Change(d) \/ ParseOnDemand(d)
         \/ \E o \in owed : ChangeTrigger(o)
         \/ \E t \in Tasks : Run(t)
         \/ UNCHANGED vars
  PROVE  Going
<1>1. UNCHANGED <<main, taskVars, registering, strays>> => Going
  BY StillGoesOn, StillHanded DEF taskVars
<1>2. ASSUME NEW d \in Documents, Open(d) \/ Change(d) \/ ParseOnDemand(d) PROVE Going
  BY <1>1, <1>2 DEF Open, Change, StoreText, ParseOnDemand
<1>3. ASSUME NEW o \in owed, ChangeTrigger(o) PROVE Going
  BY <1>1, <1>3, ChangeTimers
<1>4. ASSUME NEW t \in Tasks, Run(t) PROVE Going
  <2>1. strays \subseteq strays'
    BY <1>4, RunFacts
  <2>2. QED
    BY <1>4, <2>1, RunFacts, RunGoesOn, StillHanded
<1>5. CASE UNCHANGED vars
  BY <1>1, <1>5 DEF vars
<1>6. QED
  BY <1>2, <1>3, <1>4, <1>5

LEMMA OneThingStill ==
  ASSUME LInv, TInv,
         \A i \in Timers : timer'[i].at \in {"unborn", "sleeping"} =>
            timer[i].at \in {"unborn", "sleeping"},
         \A b \in Registrars :
            \/ /\ registering'[b].task = registering[b].task
               /\ registering'[b].previous = registering[b].previous
            \/ registering'[b].task = None /\ registering'[b].previous = None
            \/ registering'[b].task = None /\ (b \in Timers => timer'[b].at = "done")
  PROVE  OneThing'
BY Apart DEF LInv, OneThing

LEMMA EndingOneThing ==
  ASSUME TInv, LInv,
         \/ \E d \in Documents : ParseOnDemand(d) \/ Close(d)
         \/ AbortAll \/ Closing
         \/ \E a \in Registrars : Registration(a)
         \/ \E t \in Tasks : Run(t)
         \/ UNCHANGED vars
  PROVE  OneThing'
<1>1. \A i \in Timers : timer'[i].at \in {"unborn", "sleeping"} =>
         timer[i].at \in {"unborn", "sleeping"}
  BY EndingSteps DEF Ending
<1>2. UNCHANGED registering => OneThing'
  BY <1>1, OneThingStill
<1>3. ASSUME NEW a \in Registrars, FindFinished(a) PROVE OneThing'
  BY <1>1, <1>3, FindFacts, OneThingStill
<1>4. ASSUME NEW a \in Registrars, RemoveFinished(a) PROVE OneThing'
  <2>1. \A b \in Registrars : /\ registering'[b].task = registering[b].task
                              /\ registering'[b].previous = registering[b].previous
    BY <1>4, RemoveFacts
  <2>2. QED
    BY <1>1, <2>1, OneThingStill
<1>5. ASSUME NEW a \in Registrars, Insert(a) PROVE OneThing'
  <2>1. PICK t \in Tasks, d \in Documents : Inserted(a, t, d)
    BY <1>5, InsertFacts
  <2>2. \A b \in Registrars : \/ registering'[b] = registering[b]
                              \/ /\ registering'[b].task = None
                                 /\ b \in Timers => timer'[b].at = "done"
    BY <2>1 DEF Inserted
  <2>3. QED
    BY <1>1, <2>2, OneThingStill
<1>6. ASSUME NEW a \in Registrars, AbortPrevious(a) PROVE OneThing'
  <2>1. \A b \in Registrars : registering'[b] = registering[b] \/ registering'[b] = Idle
    BY <1>6, AbortPreviousFacts
  <2>2. QED
    BY <1>1, <2>1, IdleFacts, OneThingStill
<1>7. ASSUME NEW d \in Documents, ParseOnDemand(d) \/ Close(d) PROVE OneThing'
  BY <1>2, <1>7 DEF ParseOnDemand, Close
<1>8. CASE AbortAll \/ Closing
  BY <1>2, <1>8 DEF AbortAll, Closing, CloseTask, AbortTask, CloseTimer, ClearTasks,
                    CancelAll
<1>9. ASSUME NEW t \in Tasks, Run(t) PROVE OneThing'
  BY <1>2, <1>9, RunFacts
<1>10. CASE UNCHANGED vars
  BY <1>2, <1>10 DEF vars
<1>11. QED
  BY <1>3, <1>4, <1>5, <1>6, <1>7, <1>8, <1>9, <1>10 DEF Registration

(* A new task is the last one, and somebody will register it.              *)
LEMMA SpawnLInv ==
  ASSUME TInv, LInv, NEW a \in Registrars, NEW d \in Documents, NEW s \in Versions,
         Spawn(a, d, s), registering[a].task = None, registering[a].previous = None,
         a \in Timers => timer'[a].at = "firing",
         \A i \in Timers \ {a} : timer'[i] = timer[i],
         UNCHANGED <<active_tasks, main, strays>>
  PROVE  LInv'
<1>1. PICK n \in Tasks :
        /\ task[n] = Unborn /\ \A u \in Tasks : u < n => task[u] # Unborn
        /\ task'[n].doc = d /\ task'[n].snapshot = s /\ task'[n].at = "collecting"
        /\ \A u \in Tasks \ {n} : task'[u] = task[u]
        /\ registering'[a].task = n
        /\ registering'[a].previous = registering[a].previous
        /\ \A b \in Registrars \ {a} : registering'[b] = registering[b]
  BY SpawnFacts
<1>2. OneThing'
  <2>1. \A b \in Registrars : registering'[b].previous = registering[b].previous
    BY <1>1
  <2>2. ASSUME NEW i \in Timers, timer'[i].at \in {"unborn", "sleeping"}
        PROVE  registering'[i].task = None /\ registering'[i].previous = None
    <3>1. i # a
      BY <2>2
    <3>2. timer[i] = timer'[i] /\ registering'[i] = registering[i]
      BY <1>1, <3>1, Apart
    <3>3. QED
      BY <2>2, <3>2 DEF LInv, OneThing
  <2>3. ASSUME NEW b \in Registrars, registering'[b].task # None
        PROVE  registering'[b].previous = None
    <3>1. CASE b = a
      BY <2>1, <3>1
    <3>2. CASE b # a
      BY <1>1, <2>3, <3>2 DEF LInv, OneThing
    <3>3. QED
      BY <3>1, <3>2
  <2>4. QED
    BY <2>2, <2>3 DEF OneThing
<1>3. BornInv'
  <2>1. \A t \in Tasks : task'[t].at = "unborn" => task'[t] = Unborn
    BY <1>1 DEF LInv, BornInv
  <2>2. ASSUME NEW t \in Tasks, NEW u \in Tasks, u < t, task'[t].at # "unborn"
        PROVE  task'[u].at # "unborn"
    <3>1. CASE t = n
      BY <1>1, <2>2, <3>1, Apart DEF LInv, BornInv
    <3>2. CASE t # n
      BY <1>1, <2>2, <3>2 DEF LInv, BornInv
    <3>3. QED
      BY <3>1, <3>2
  <2>3. QED
    BY <2>1, <2>2 DEF BornInv
<1>4. \A t \in Tasks : t \in Doomed => t \in Doomed'
  BY <1>1 DEF Doomed
<1>5. ASSUME NEW e \in Documents, NEW u \in Unregistered(e) PROVE u \in Unregistered(e)'
  <2>1. PICK b \in Registrars : registering[b].task = u /\ task[u].doc = e /\ u \in Tasks
    BY UnregisteredFacts
  <2>2. u # n
    BY <1>1, <2>1, UnbornFacts, Apart
  <2>3. b # a
    BY <2>1, Apart
  <2>4. registering'[b].task = u /\ task'[u].doc = e /\ u # None
    BY <1>1, <2>1, <2>2, <2>3, Apart
  <2>5. QED
    BY <2>4 DEF Unregistered
<1>6. n \in Unregistered(d)'
  <2>1. registering'[a].task = n /\ n # None /\ task'[n].doc = d
    BY <1>1, Apart
  <2>2. QED
    BY <2>1 DEF Unregistered
<1>7. LiveTasksRegistered'
  <2> SUFFICES ASSUME NEW t \in Tasks, Live(t)', t \notin strays'
               PROVE  (active_tasks[task[t].doc] = t \/ Attended(t))'
    BY DEF LiveTasksRegistered
  <2>1. CASE t = n
    BY <1>1, <1>6, <2>1 DEF Attended, Unregistered
  <2>2. CASE t # n
    <3>1. Live(t) /\ t \notin strays /\ task'[t] = task[t]
      BY <1>1, <2>2 DEF Live
    <3>2. PICK e \in Documents : e = task[t].doc
      BY <3>1 DEF Live, TInv, DocumentsKnown
    <3>3. active_tasks[e] = t \/ t \in Unregistered(e) \/ t \in Doomed
      BY <3>1, <3>2 DEF LInv, LiveTasksRegistered, Attended
    <3>4. active_tasks'[e] = t \/ t \in Unregistered(e)' \/ t \in Doomed'
      BY <1>4, <1>5, <3>3
    <3>5. QED
      BY <3>1, <3>2, <3>4 DEF Attended, Unregistered
  <2>3. QED
    BY <2>1, <2>2
<1>8. OrderInv'
  <2> SUFFICES ASSUME NEW t \in Tasks, NEW u \in Tasks, t < u,
                      task'[t].doc = task'[u].doc, Live(t)', t \notin strays'
               PROVE  (t \in Doomed \/ u \in Unregistered(task[t].doc))'
    BY DEF OrderInv
  <2>1. CASE u = n
    BY <1>1, <1>6, <2>1 DEF Unregistered
  <2>2. CASE t = n
    <3>1. task'[u] = task[u] /\ task[u].at = "unborn"
      BY <1>1, <2>2, UnbornFacts, Apart DEF LInv, BornInv
    <3>2. task'[u].doc = None
      BY <3>1, UnbornFacts DEF LInv, BornInv
    <3>3. QED
      BY <1>1, <2>2, <3>2, Apart
  <2>3. CASE t # n /\ u # n
    <3>1. /\ Live(t) /\ t \notin strays /\ task'[t] = task[t]
          /\ task[t].doc = task[u].doc
      BY <1>1, <2>3 DEF Live
    <3>2. PICK e \in Documents : e = task[t].doc
      BY <3>1 DEF Live, TInv, DocumentsKnown
    <3>3. t \in Doomed \/ u \in Unregistered(e)
      BY <3>1, <3>2 DEF LInv, OrderInv
    <3>4. t \in Doomed' \/ u \in Unregistered(e)'
      BY <1>4, <1>5, <3>3
    <3>5. QED
      BY <3>1, <3>2, <3>4 DEF Unregistered
  <2>4. QED
    BY <2>1, <2>2, <2>3
<1>9. QED
  BY <1>2, <1>3, <1>7, <1>8 DEF LInv

LEMMA SpawnDiagnosticsLInv ==
  ASSUME TInv, LInv, NEW d \in Documents, SpawnDiagnostics(d) PROVE LInv'
<1>1. /\ Spawn(Main, d, Snapshot(d)) /\ registering[Main] = Idle
      /\ UNCHANGED <<timer, active_tasks, main, strays>>
  BY DEF SpawnDiagnostics, MainFree, timerVars
<1>2. QED
  BY <1>1, SnapshotFacts, IdleFacts, Apart, SpawnLInv

LEMMA FireLInv ==
  ASSUME TInv, LInv, NEW i \in Timers, Fire(i) PROVE LInv'
<1>1. PICK d \in Documents, s \in Versions : d = timer[i].doc /\ s = timer[i].snapshot
  BY FireTimers
<1>2. registering[i].task = None /\ registering[i].previous = None
  BY FireTimers DEF LInv, OneThing
<1>3. Spawn(i, d, s) /\ timer'[i].at = "firing"
      /\ (\A j \in Timers \ {i} : timer'[j] = timer[j])
      /\ UNCHANGED <<active_tasks, main, strays>>
  BY <1>1, FireTimers
<1>4. QED
  BY <1>2, <1>3, Apart, SpawnLInv

LEMMA InitLInv == Init => LInv
<1> SUFFICES ASSUME Init PROVE LInv
  OBVIOUS
<1>1. \A t \in Tasks : task[t] = Unborn /\ task[t].at = "unborn"
  BY UnbornFacts DEF Init
<1>2. \A a \in Registrars : registering[a].task = None /\ registering[a].previous = None
  BY IdleFacts DEF Init
<1>3. QED
  BY <1>1, <1>2, Apart DEF LInv, OneThing, BornInv, LiveTasksRegistered, OrderInv, Live

LEMMA NextLInv == TInv /\ AgeInv /\ LInv /\ [Next]_vars => LInv'
<1> SUFFICES ASSUME TInv, AgeInv, LInv, [Next]_vars PROVE LInv'
  OBVIOUS
<1>1. Going /\ OneThing' => LInv'
  BY GoingLInv DEF LInv
<1>2. CASE Client
  <2>1. PICK d \in Documents :
          Open(d) \/ Change(d) \/ ParseOnDemand(d) \/ Save(d) \/ Close(d)
    BY <1>2 DEF Client
  <2>2. CASE Open(d) \/ Change(d)
    <3>1. UNCHANGED <<timer, registering>>
      BY <2>2 DEF Open, Change, StoreText, timerVars
    <3>2. OneThing'
      BY <3>1, OneThingStill
    <3>3. QED
      BY <1>1, <2>2, <3>2, OtherGoing
  <2>3. CASE ParseOnDemand(d)
    BY <1>1, <2>3, EndingOneThing, OtherGoing
  <2>4. CASE Save(d)
    BY <2>4, SpawnDiagnosticsLInv DEF Save
  <2>5. CASE Close(d)
    BY <1>1, <2>5, EndingOneThing, ClosingGoing
  <2>6. QED
    BY <2>1, <2>2, <2>3, <2>4, <2>5
<1>3. CASE AbortAll \/ Closing
  BY <1>1, <1>3, EndingOneThing, ClosingGoing
<1>4. ASSUME NEW o \in owed, Trigger(o) PROVE LInv'
  <2>1. CASE OpenTrigger(o)
    <3>1. o.doc \in Documents
      BY DEF TInv, TypeOK
    <3>2. QED
      BY <2>1, <3>1, SpawnDiagnosticsLInv DEF OpenTrigger
  <2>2. CASE ChangeTrigger(o)
    <3>1. /\ o.version \in Timers /\ timer[o.version].at = "unborn"
          /\ registering' = registering
          /\ \A i \in Timers \ {o.version} :
                /\ timer'[i].at = "unborn" <=> timer[i].at = "unborn"
                /\ timer'[i].at = "sleeping" => timer[i].at = "sleeping"
      BY <2>2, ChangeFacts, ChangeTimers
    <3>2. OneThing'
      BY <3>1, OneThingStill
    <3>3. QED
      BY <1>1, <2>2, <3>2, OtherGoing
  <2>3. QED
    BY <1>4, <2>1, <2>2 DEF Trigger
<1>5. ASSUME NEW i \in Timers, Fire(i) PROVE LInv'
  BY <1>5, FireLInv
<1>6. ASSUME NEW a \in Registrars, Registration(a) PROVE LInv'
  BY <1>1, <1>6, EndingOneThing, RegistrationGoing
<1>7. ASSUME NEW t \in Tasks, Run(t) PROVE LInv'
  BY <1>1, <1>7, EndingOneThing, OtherGoing
<1>8. CASE UNCHANGED vars
  BY <1>1, <1>8, EndingOneThing, OtherGoing
<1>9. QED
  BY <1>2, <1>3, <1>4, <1>5, <1>6, <1>7, <1>8 DEF Next, Progress

LEMMA LInvariance == Spec => [](TInv /\ AgeInv /\ LInv)
<1>1. Init => TInv /\ AgeInv /\ LInv
  BY InitTInv, InitAge, InitLInv
<1>2. TInv /\ AgeInv /\ LInv /\ [Next]_vars => (TInv /\ AgeInv /\ LInv)'
  BY NextTInv, NextAge, NextLInv
<1>3. QED
  BY <1>1, <1>2, PTL DEF Spec

(* Every entry is of a task, and the registry, the timers and the tasks    *)
(* stay in the states of the code, whatever threads meet.                  *)
THEOREM TypeCorrect == Spec => []TypeOK
<1>1. TInv => TypeOK
  BY DEF TInv
<1>2. QED
  BY <1>1, LInvariance, PTL

(* What cancels the timers finds each one that sleeps: a document has one  *)
(* at most, however changes, saves, closes and timers that fire meet.      *)
THEOREM SleepersAreTracked == Spec => []SleepersTracked
<1>1. TInv => SleepersTracked
  BY DEF TInv
<1>2. QED
  BY <1>1, LInvariance, PTL

(* On any number of threads: what supersedes the task of a document finds  *)
(* it, or somebody is about to register or to abort it, or it is one of    *)
(* the strays, which the registry has let go while they were running.      *)
THEOREM TasksAreRegistered == Spec => []LiveTasksRegistered
<1>1. LInv => LiveTasksRegistered
  BY DEF LInv
<1>2. QED
  BY <1>1, LInvariance, PTL

(* Types, timers and tasks together.                                       *)
THEOREM TasksAreSafe == Spec => []TasksSafe
<1>1. TInv /\ LInv => TasksSafe
  BY DEF TInv, LInv, TasksSafe
<1>2. QED
  BY <1>1, LInvariance, PTL
-----------------------------------------------------------------------------
(* What runs, and from which text.                                         *)
ClosingOf(d) ==
  main.at \in {"closing", "aborting", "cancelling"} /\ main.doc = d

Present(d) == text[d] # 0 \/ ClosingOf(d)

(* What runs or will run from a text is of a document that is open, or     *)
(* just closing; or somebody is about to abort it, or it is a stray.       *)
QuietTasks ==
  \A t \in Tasks :
     /\ Live(t) /\ task[t].snapshot # 0 =>
           Present(task[t].doc) \/ t \in strays \/ t \in Doomed
     /\ task[t].at = "publishing" => task[t].snapshot # 0

QuietTimers ==
  \A i \in Timers :
     timer[i].at = "sleeping" /\ timer[i].snapshot # 0 => Present(timer[i].doc)

Changing(d) == \E o \in owed : o.doc = d /\ o.kind = "change"

Newest(d, s) ==
  \A t \in Tasks : task[t].doc = d => task[t].snapshot <= s

(* A timer that sleeps has the newest text, unless a change is on its way. *)
SleepInv ==
  \A i \in Timers :
     timer[i].at = "sleeping" /\ timer[i].snapshot # 0 =>
        \/ Changing(timer[i].doc)
        \/ text[timer[i].doc] <= timer[i].snapshot
           /\ Newest(timer[i].doc, timer[i].snapshot)

Last(t) == \A u \in Tasks : task[u].doc = task[t].doc => u <= t

(* A timer will replace what was published from s.                         *)
Replacing(d, s) ==
  \E i \in Timers : /\ timer[i].doc = d /\ timer[i].at = "sleeping"
                    /\ timer[i].snapshot = 0 \/ timer[i].snapshot >= s

(* The last task of a document may be of an older text than one before it  *)
(* only if a change is on its way, or its timer sleeps.                    *)
PairInv ==
  \A t, p \in Tasks :
     /\ Live(t) /\ t \notin strays /\ t \notin Doomed /\ Last(t)
     /\ task[p].doc = task[t].doc
     /\ task[t].snapshot # 0 /\ task[t].snapshot < task[p].snapshot
     => Changing(task[t].doc) \/ Replacing(task[t].doc, task[p].snapshot)

PublishedInv ==
  \A d \in Documents :
     published[d] = 0
     \/ \E p \in Tasks : task[p].doc = d /\ task[p].snapshot = published[d]

RunInv == QuietTasks /\ QuietTimers /\ SleepInv /\ PairInv /\ PublishedInv

(* All the tasks of a document that go on are strays or about to end.      *)
Emptied(d) ==
  \A t \in Tasks :
     Live(t)' /\ t \notin strays' /\ task[t].doc = d => t \in Doomed'

SleepersGoOn ==
  \A i \in Timers :
     timer'[i].at = "sleeping" =>
        /\ timer[i].at = "sleeping"
        /\ timer'[i].doc = timer[i].doc /\ timer'[i].snapshot = timer[i].snapshot

ChangesGoOn == \A d \in Documents : Changing(d) => Changing(d)'

(* A document that closes has its tasks and its timer ended; the timers of *)
(* others sleep on.                                                        *)
Settled ==
  /\ \A d \in Documents : Present(d) =>
        \/ Present(d)'
        \/ Emptied(d) /\ \A i \in Timers : timer[i].doc = d => timer'[i].at # "sleeping"
  /\ \A i \in Timers : timer[i].at = "sleeping" =>
        timer'[i] = timer[i] \/ Emptied(timer[i].doc)

LEMMA InitRun == Init => RunInv
<1> SUFFICES ASSUME Init PROVE RunInv
  OBVIOUS
<1>1. \A t \in Tasks : task[t].at = "unborn"
  BY UnbornFacts DEF Init
<1>2. \A i \in Timers : timer[i].at = "unborn"
  BY UnbornFacts DEF Init
<1>3. \A d \in Documents : published[d] = 0
  BY DEF Init
<1>4. QED
  BY <1>1, <1>2, <1>3
     DEF RunInv, QuietTasks, QuietTimers, SleepInv, PairInv, PublishedInv, Live

LEMMA QuietKept ==
  ASSUME TInv, RunInv, Going, Settled, SleepersGoOn PROVE (QuietTasks /\ QuietTimers)'
<1>1. QuietTasks'
  <2> SUFFICES ASSUME NEW t \in Tasks
               PROVE  (/\ Live(t) /\ task[t].snapshot # 0 =>
                             Present(task[t].doc) \/ t \in strays \/ t \in Doomed
                       /\ task[t].at = "publishing" => task[t].snapshot # 0)'
    BY DEF QuietTasks
  <2>1. /\ task'[t].doc = task[t].doc /\ task'[t].snapshot = task[t].snapshot
        /\ Live(t)' => Live(t)
        /\ task'[t].at = "publishing" => task[t].at = "publishing" \/ task[t].snapshot # 0
        /\ strays \subseteq strays'
    BY DEF Going, TasksGoOn
  <2>2. task'[t].at = "publishing" => task'[t].snapshot # 0
    BY <2>1 DEF RunInv, QuietTasks
  <2>3. ASSUME Live(t)', task'[t].snapshot # 0, t \notin strays', t \notin Doomed'
        PROVE  Present(task[t].doc)'
    <3>1. PICK d \in Documents : d = task[t].doc
      BY <2>1, <2>3 DEF Live, TInv, DocumentsKnown
    <3>2. t \notin Doomed
      BY <2>3, <3>1 DEF Going, HandedOn
    <3>3. Present(d)
      BY <2>1, <2>3, <3>1, <3>2 DEF RunInv, QuietTasks
    <3>4. Present(d)'
      BY <2>3, <3>1, <3>3 DEF Settled, Emptied
    <3>5. QED
      BY <2>1, <3>1, <3>4 DEF Present, ClosingOf
  <2>4. QED
    BY <2>2, <2>3
<1>2. QuietTimers'
  <2> SUFFICES ASSUME NEW i \in Timers, timer'[i].at = "sleeping", timer'[i].snapshot # 0
               PROVE  Present(timer[i].doc)'
    BY DEF QuietTimers
  <2>1. /\ timer[i].at = "sleeping"
        /\ timer'[i].doc = timer[i].doc /\ timer'[i].snapshot = timer[i].snapshot
    BY DEF SleepersGoOn
  <2>2. PICK d \in Documents : d = timer[i].doc
    BY <2>1 DEF TInv, DocumentsKnown
  <2>3. Present(d)
    BY <2>1, <2>2 DEF RunInv, QuietTimers
  <2>4. Present(d)'
    BY <2>2, <2>3 DEF Settled
  <2>5. QED
    BY <2>1, <2>2, <2>4 DEF Present, ClosingOf
<1>3. QED
  BY <1>1, <1>2

LEMMA PairKept ==
  ASSUME TInv, RunInv, Going, Settled, ChangesGoOn PROVE PairInv'
<1> SUFFICES ASSUME NEW t \in Tasks, NEW p \in Tasks,
                    Live(t)', t \notin strays', t \notin Doomed', Last(t)',
                    task'[p].doc = task'[t].doc, task'[t].snapshot # 0,
                    task'[t].snapshot < task'[p].snapshot
             PROVE  (Changing(task[t].doc) \/ Replacing(task[t].doc, task[p].snapshot))'
  BY DEF PairInv
<1>1. /\ \A u \in Tasks : task'[u].doc = task[u].doc /\ task'[u].snapshot = task[u].snapshot
      /\ Live(t) /\ t \notin strays
  BY DEF Going, TasksGoOn
<1>2. PICK d \in Documents : d = task[t].doc
  BY <1>1 DEF Live, TInv, DocumentsKnown
<1>3. PICK s : s = task[p].snapshot
  OBVIOUS
<1>4. t \notin Doomed
  BY <1>2 DEF Going, HandedOn
<1>5. Last(t)
  BY <1>1 DEF Last
<1>6. Changing(d) \/ Replacing(d, s)
  BY <1>1, <1>2, <1>3, <1>4, <1>5 DEF RunInv, PairInv
<1>7. Replacing(d, s) => Replacing(d, s)'
  <2> SUFFICES ASSUME Replacing(d, s) PROVE Replacing(d, s)'
    OBVIOUS
  <2>1. PICK i \in Timers : /\ timer[i].doc = d /\ timer[i].at = "sleeping"
                            /\ timer[i].snapshot = 0 \/ timer[i].snapshot >= s
    BY DEF Replacing
  <2>2. timer'[i] = timer[i]
    BY <1>2, <2>1 DEF Settled, Emptied
  <2>3. QED
    BY <2>1, <2>2 DEF Replacing
<1>8. Changing(d)' \/ Replacing(d, s)'
  BY <1>6, <1>7 DEF ChangesGoOn
<1>9. task'[t].doc = d /\ task'[p].snapshot = s
  BY <1>1, <1>2, <1>3
<1>10. QED
  BY <1>8, <1>9 DEF Changing, Replacing

LEMMA EndingKeepsRun ==
  ASSUME TInv, RunInv, Ending, Going, Settled PROVE RunInv'
<1>1. SleepersGoOn /\ ChangesGoOn
  BY DEF Ending, SleepersGoOn, ChangesGoOn, Changing
<1>2. SleepInv'
  <2> SUFFICES ASSUME NEW i \in Timers, timer'[i].at = "sleeping", timer'[i].snapshot # 0
               PROVE  (\/ Changing(timer[i].doc)
                       \/ text[timer[i].doc] <= timer[i].snapshot
                          /\ Newest(timer[i].doc, timer[i].snapshot))'
    BY DEF SleepInv
  <2>1. PICK d \in Documents, s \in Versions :
           /\ d = timer[i].doc /\ s = timer[i].snapshot
           /\ d = timer'[i].doc /\ s = timer'[i].snapshot /\ timer[i].at = "sleeping"
    <3>1. /\ timer[i].at = "sleeping" /\ timer[i].doc = timer'[i].doc
          /\ timer[i].snapshot = timer'[i].snapshot
      BY <1>1 DEF SleepersGoOn
    <3>2. timer[i].doc \in Documents
      BY <3>1 DEF TInv, DocumentsKnown
    <3>3. timer[i].snapshot \in Versions
      BY Typed DEF TimerRecord
    <3>4. QED
      BY <3>1, <3>2, <3>3
  <2>2. Changing(d) \/ (text[d] <= s /\ Newest(d, s))
    BY <2>1 DEF RunInv, SleepInv
  <2>3. Newest(d, s) => Newest(d, s)'
    BY DEF Newest, Ending, TasksGoOn
  <2>4. text[d] <= s => text'[d] <= s
    BY Apart DEF Ending
  <2>5. Changing(d)' \/ (text'[d] <= s /\ Newest(d, s)')
    BY <1>1, <2>2, <2>3, <2>4 DEF ChangesGoOn
  <2>6. QED
    BY <2>1, <2>5 DEF Changing, Newest
<1>3. PublishedInv'
  <2> SUFFICES ASSUME NEW d \in Documents, published'[d] # 0
               PROVE  \E p \in Tasks : task'[p].doc = d /\ task'[p].snapshot = published'[d]
    BY DEF PublishedInv
  <2>1. \E p \in Tasks : task[p].doc = d /\ task[p].snapshot = published'[d]
    BY DEF Ending, RunInv, PublishedInv
  <2>2. QED
    BY <2>1 DEF Ending, TasksGoOn
<1>4. QED
  BY <1>1, <1>2, <1>3, QuietKept, PairKept DEF RunInv

(* The close of a document and the shutdown leave no task behind that is   *)
(* not a stray or about to be aborted.                                     *)
LEMMA OutlastedEmptied ==
  ASSUME TInv, LInv, UNCHANGED taskVars, UNCHANGED registering, main.handle = None,
         NEW ds \in SUBSET Documents, strays' = strays \cup Outlasting(ds),
         NEW d \in ds
  PROVE  Emptied(d)
<1> SUFFICES ASSUME NEW t \in Tasks, Live(t)', t \notin strays', task[t].doc = d
             PROVE  t \in Doomed'
  BY DEF Emptied
<1>1. Live(t) /\ t \notin strays /\ t \notin Outlasting(ds)
  BY DEF taskVars, Live
<1>2. active_tasks[d] # t /\ t \notin Unregistered(d)
  BY <1>1, OutlastingFacts, Apart
<1>3. t \in Doomed
  BY <1>1, <1>2 DEF LInv, LiveTasksRegistered, Attended
<1>4. QED
  BY <1>3, StillDoomed

(* The steps that only end something settle what they end.                 *)
LEMMA EndingSettled ==
  ASSUME TInv, AgeInv, LInv, RunInv,
         \/ \E d \in Documents : ParseOnDemand(d) \/ Close(d)
         \/ AbortAll \/ Closing
         \/ \E a \in Registrars : Registration(a)
         \/ \E t \in Tasks : Run(t)
         \/ UNCHANGED vars
  PROVE  Settled
<1>0. main.at # "aborting" => main.handle = None
  BY DEF TInv, DocumentsKnown
<1>1. ASSUME UNCHANGED timer, \A d \in Documents : Present(d) => Present(d)'
      PROVE  Settled
  BY <1>1 DEF Settled
<1>2. UNCHANGED <<text, main>> => \A d \in Documents : Present(d) => Present(d)'
  BY DEF Present, ClosingOf
<1>3. ASSUME NEW d \in Documents, ParseOnDemand(d) PROVE Settled
  BY <1>1, <1>2, <1>3 DEF ParseOnDemand, timerVars
<1>4. ASSUME NEW d \in Documents, Close(d) PROVE Settled
  <2>1. ASSUME NEW e \in Documents, Present(e) PROVE Present(e)'
    <3>1. text[e] # 0
      BY <1>4, <2>1, CloseFacts DEF Present, ClosingOf
    <3>2. e = d \/ text'[e] = text[e]
      BY <1>4, CloseFacts
    <3>3. main'.at = "closing" /\ main'.doc = d
      BY <1>4, CloseFacts
    <3>4. QED
      BY <3>1, <3>2, <3>3 DEF Present, ClosingOf
  <2>2. UNCHANGED timer
    BY <1>4 DEF Close, timerVars
  <2>3. QED
    BY <1>1, <2>1, <2>2
<1>5. CASE CloseTask
  BY <1>1, <1>5, CloseTaskFacts DEF Present, ClosingOf, storeVars, timerVars
<1>6. CASE AbortTask
  BY <1>1, <1>6, AbortTaskFacts DEF Present, ClosingOf, storeVars, timerVars
<1>7. CASE CloseTimer
  <2>1. PICK c \in Documents : c = main.doc
    BY <1>7, CloseTimerFacts
  <2>2. /\ UNCHANGED <<text, taskVars, registering>> /\ main.handle = None
        /\ strays' = strays \cup Outlasting({c}) /\ timer' = AbortTimer(c)
    BY <1>0, <1>7, <2>1, CloseTimerFacts DEF storeVars
  <2>3. Emptied(c)
    BY <2>2, OutlastedEmptied
  <2>4. \A i \in Timers : timer[i].doc = c => timer'[i].at # "sleeping"
    BY <2>2, AbortTimerFacts
  <2>5. \A d \in Documents : Present(d) => Present(d)' \/ d = c
    BY <2>1, <2>2 DEF Present, ClosingOf
  <2>6. ASSUME NEW i \in Timers, timer[i].at = "sleeping"
        PROVE  timer'[i] = timer[i] \/ Emptied(timer[i].doc)
    <3>1. CASE i = active_timers[c]
      <4>1. timer[i].doc \in Documents
        BY <2>6 DEF TInv, DocumentsKnown
      <4>2. CASE timer[i].doc = c
        BY <2>3, <4>2
      <4>3. timer[i].doc = c
        BY <3>1, Apart DEF AgeInv, VersionsInv
      <4>4. QED
        BY <4>2, <4>3
    <3>2. CASE i # active_timers[c]
      BY <2>2, <3>2, AbortTimerFacts
    <3>3. QED
      BY <3>1, <3>2
  <2>7. QED
    BY <2>3, <2>4, <2>5, <2>6 DEF Settled
<1>8. CASE AbortAll
  BY <1>1, <1>8, AbortAllFacts DEF Present, ClosingOf, storeVars, timerVars
<1>9. CASE ClearTasks
  BY <1>1, <1>9, ClearTasksFacts DEF Present, ClosingOf, storeVars, timerVars
<1>10. CASE CancelAll
  <2>1. /\ UNCHANGED <<text, taskVars, registering>> /\ main.handle = None
        /\ strays' = strays \cup Outlasting(Documents)
    BY <1>0, <1>10, CancelAllFacts DEF storeVars
  <2>2. \A d \in Documents : Emptied(d)
    BY <2>1, OutlastedEmptied
  <2>3. \A d \in Documents : Present(d) => Present(d)'
    BY <1>10, <2>1, CancelAllFacts DEF Present, ClosingOf
  <2>4. \A i \in Timers : timer[i].at = "sleeping" => timer[i].doc \in Documents
    BY DEF TInv, DocumentsKnown
  <2>5. QED
    BY <2>2, <2>3, <2>4 DEF Settled
<1>11. ASSUME NEW a \in Registrars, Registration(a) PROVE Settled
  <2>1. CASE ~Insert(a)
    BY <1>1, <1>2, <1>11, <2>1
       DEF Registration, FindFinished, RemoveFinished, AbortPrevious, storeVars, timerVars
  <2>2. CASE Insert(a)
    <3>1. PICK t \in Tasks, d \in Documents : Inserted(a, t, d)
      BY <2>2, InsertFacts
    <3>2. a \in Timers => timer[a].at # "sleeping"
      BY <3>1, Apart DEF Inserted, LInv, OneThing
    <3>3. \A i \in Timers : timer[i].at = "sleeping" => timer'[i] = timer[i]
      BY <3>1, <3>2 DEF Inserted
    <3>4. \A e \in Documents : Present(e) => Present(e)'
      BY <1>2, <3>1 DEF Inserted, storeVars
    <3>5. QED
      BY <3>3, <3>4 DEF Settled
  <2>3. QED
    BY <2>1, <2>2
<1>12. ASSUME NEW t \in Tasks, Run(t) PROVE Settled
  BY <1>1, <1>2, <1>12, RunFacts DEF storeVars, timerVars
<1>13. CASE UNCHANGED vars
  BY <1>1, <1>2, <1>13 DEF vars, storeVars, timerVars
<1>14. QED
  BY <1>3, <1>4, <1>5, <1>6, <1>7, <1>8, <1>9, <1>10, <1>11, <1>12, <1>13 DEF Closing

(* A text is stored: whatever has an older one, a change is on its way,    *)
(* or the document was closed and nothing runs or sleeps for it.           *)
LEMMA StoreRun ==
  ASSUME TInv, AgeInv, LInv, RunInv, NEW d \in Documents, Open(d) \/ Change(d)
  PROVE  RunInv'
<1>1. Going
  BY OtherGoing
<1>2. PICK k \in {"open", "change"} :
        /\ StoreText(d, k) /\ (k = "open" => text[d] = 0)
  BY DEF Open, Change
<1>3. /\ main.at \in {"idle", "down"}
      /\ text' = [text EXCEPT ![d] = version + 1]
      /\ owed' = owed \cup {[doc |-> d, kind |-> k, version |-> version + 1]}
      /\ UNCHANGED <<main, task, timer, published>>
  BY <1>2 DEF StoreText, MainFree, taskVars, timerVars
<1>4. text' \in [Documents -> Versions] /\ text'[d] # 0
      /\ \A e \in Documents \ {d} : text'[e] = text[e]
  <2>1. PICK v \in Nat : v = version
    BY Typed, Apart
  <2>2. TypeOK'
    BY StoreTInv DEF TInv
  <2>3. QED
    BY <1>3, <2>1, <2>2, Typed DEF TypeOK
<1>5. Settled
  <2>1. \A e \in Documents : Present(e) => Present(e)'
    BY <1>3, <1>4 DEF Present, ClosingOf
  <2>2. QED
    BY <1>3, <2>1 DEF Settled
<1>6. SleepersGoOn /\ ChangesGoOn
  BY <1>3 DEF SleepersGoOn, ChangesGoOn, Changing
<1>7. SleepInv'
  <2> SUFFICES ASSUME NEW i \in Timers, timer'[i].at = "sleeping", timer'[i].snapshot # 0
               PROVE  (\/ Changing(timer[i].doc)
                       \/ text[timer[i].doc] <= timer[i].snapshot
                          /\ Newest(timer[i].doc, timer[i].snapshot))'
    BY DEF SleepInv
  <2>1. PICK e \in Documents, x \in Versions : /\ e = timer[i].doc /\ x = timer[i].snapshot
                                               /\ timer[i].at = "sleeping" /\ x # 0
    BY <1>3, Typed DEF TInv, DocumentsKnown, TimerRecord
  <2>2. Changing(e) \/ (text[e] <= x /\ Newest(e, x))
    BY <2>1 DEF RunInv, SleepInv
  <2> SUFFICES Changing(e)' \/ (text'[e] <= x /\ Newest(e, x)')
    BY <1>3, <2>1 DEF Changing, Newest
  <2>3. CASE e # d
    <3>1. Newest(e, x) => Newest(e, x)'
      BY <1>3 DEF Newest
    <3>2. QED
      BY <1>4, <1>6, <2>2, <2>3, <3>1 DEF ChangesGoOn
  <2>4. CASE e = d /\ k = "change"
    <3>1. PICK o : o = [doc |-> d, kind |-> k, version |-> version + 1]
      OBVIOUS
    <3>2. o \in owed' /\ o.doc = d /\ o.kind = "change"
      BY <1>3, <2>4, <3>1
    <3>3. QED
      BY <2>4, <3>2 DEF Changing
  <2>5. CASE e = d /\ k = "open"
    BY <1>2, <1>3, <2>1, <2>5 DEF RunInv, QuietTimers, Present, ClosingOf
  <2>6. QED
    BY <2>3, <2>4, <2>5
<1>8. PublishedInv'
  BY <1>3 DEF RunInv, PublishedInv
<1>9. QED
  BY <1>1, <1>5, <1>6, <1>7, <1>8, QuietKept, PairKept DEF RunInv

(* The timer of a change has the newest text, or none.                     *)
LEMMA ChangeRun ==
  ASSUME TInv, AgeInv, LInv, RunInv, NEW o \in owed, ChangeTrigger(o) PROVE RunInv'
<1>1. PICK d \in Documents, n \in Timers, s \in Versions :
        /\ d = o.doc /\ n = o.version /\ s \in {0, text[d]}
        /\ owed' = owed \ {o}
        /\ timer'[n].doc = d /\ timer'[n].snapshot = s /\ timer'[n].at = "sleeping"
        /\ \A i \in Timers \ {n} :
              /\ timer'[i].doc = timer[i].doc /\ timer'[i].snapshot = timer[i].snapshot
              /\ timer'[i].at = "sleeping" =>
                    timer[i].at = "sleeping" /\ timer[i].doc # d
              /\ timer[i].doc # d => timer'[i] = timer[i]
        /\ timer[n].at = "unborn"
        /\ UNCHANGED <<text, main, task, registering, published, strays>>
  <2>1. o.doc \in Documents /\ o.version \in Timers
    BY ChangeTimers
  <2>2. Snapshot(o.doc) \in Versions /\ Snapshot(o.doc) \in {0, text[o.doc]}
    BY <2>1, SnapshotFacts
  <2>3. QED
    BY <2>1, <2>2, ChangeTimers, ChangeFacts DEF taskVars
<1>2. s # 0 => UpTo(d, s) /\ text[d] = s
  BY <1>1 DEF AgeInv, NewestInv
<1>3. \A e \in Documents \ {d} : Changing(e) => Changing(e)'
  BY <1>1 DEF Changing
<1>4. QuietTasks'
  BY <1>1 DEF RunInv, QuietTasks, Live, Doomed, Present, ClosingOf
<1>5. QuietTimers'
  <2> SUFFICES ASSUME NEW i \in Timers, timer'[i].at = "sleeping", timer'[i].snapshot # 0
               PROVE  Present(timer'[i].doc)
    BY <1>1 DEF QuietTimers, Present, ClosingOf
  <2>1. CASE i = n
    BY <1>1, <1>2, <2>1 DEF Present
  <2>2. CASE i # n
    BY <1>1, <2>2 DEF RunInv, QuietTimers
  <2>3. QED
    BY <2>1, <2>2
<1>6. SleepInv'
  <2> SUFFICES ASSUME NEW i \in Timers, timer'[i].at = "sleeping", timer'[i].snapshot # 0
               PROVE  (\/ Changing(timer[i].doc)
                       \/ text[timer[i].doc] <= timer[i].snapshot
                          /\ Newest(timer[i].doc, timer[i].snapshot))'
    BY DEF SleepInv
  <2>1. CASE i = n
    <3>1. s # 0 /\ text'[d] <= s
      BY <1>1, <1>2, <2>1, Apart
    <3>2. Newest(d, s)'
      BY <1>1, <1>2, <3>1 DEF UpTo, Newest
    <3>3. QED
      BY <1>1, <2>1, <3>1, <3>2 DEF Newest
  <2>2. CASE i # n
    <3>1. PICK e \in Documents, x \in Versions :
             /\ e = timer[i].doc /\ x = timer[i].snapshot /\ e # d /\ x # 0
             /\ e = timer'[i].doc /\ x = timer'[i].snapshot /\ timer[i].at = "sleeping"
      BY <1>1, <2>2, Typed DEF TInv, DocumentsKnown, TimerRecord
    <3>2. Changing(e) \/ (text[e] <= x /\ Newest(e, x))
      BY <3>1 DEF RunInv, SleepInv
    <3>3. Changing(e)' \/ (text'[e] <= x /\ Newest(e, x)')
      BY <1>1, <1>3, <3>1, <3>2 DEF Newest
    <3>4. QED
      BY <3>1, <3>3 DEF Changing, Newest
  <2>3. QED
    BY <2>1, <2>2
<1>7. PairInv'
  <2> SUFFICES ASSUME NEW t \in Tasks, NEW p \in Tasks,
                      Live(t), t \notin strays, t \notin Doomed, Last(t),
                      task[p].doc = task[t].doc, task[t].snapshot # 0,
                      task[t].snapshot < task[p].snapshot
               PROVE  (Changing(task[t].doc) \/ Replacing(task[t].doc, task[p].snapshot))'
    BY <1>1 DEF PairInv, Live, Doomed, Last
  <2>1. PICK e \in Documents, x \in Versions : e = task[t].doc /\ x = task[p].snapshot
    BY Typed DEF Live, TInv, DocumentsKnown, TaskRecord
  <2> SUFFICES Changing(e)' \/ Replacing(e, x)'
    BY <1>1, <2>1 DEF Changing, Replacing
  <2>2. CASE e = d
    <3>1. s = 0 \/ s >= x
      BY <1>2, <2>1, <2>2 DEF UpTo
    <3>2. QED
      BY <1>1, <2>2, <3>1 DEF Replacing
  <2>3. CASE e # d
    <3>1. Changing(e) \/ Replacing(e, x)
      BY <2>1 DEF RunInv, PairInv
    <3>2. ASSUME Replacing(e, x) PROVE Replacing(e, x)'
      <4>1. PICK i \in Timers : /\ timer[i].doc = e /\ timer[i].at = "sleeping"
                                /\ timer[i].snapshot = 0 \/ timer[i].snapshot >= x
        BY <3>2 DEF Replacing
      <4>2. timer'[i] = timer[i]
        BY <1>1, <2>3, <4>1
      <4>3. QED
        BY <4>1, <4>2 DEF Replacing
    <3>3. QED
      BY <1>3, <2>3, <3>1, <3>2
  <2>4. QED
    BY <2>2, <2>3
<1>8. PublishedInv'
  BY <1>1 DEF RunInv, PublishedInv
<1>9. QED
  BY <1>4, <1>5, <1>6, <1>7, <1>8 DEF RunInv

(* A task is born of the text, or of the timer of the last change.         *)
SpawnsFrom(d, s) ==
  /\ s # 0 => Present(d) /\ (Changing(d)' \/ Newest(d, s))
  /\ \A i \in Timers : timer'[i].at = "sleeping" =>
        /\ timer'[i] = timer[i]
        /\ timer[i].doc = d /\ timer[i].snapshot # 0 =>
              Changing(d)' \/ s <= timer[i].snapshot
  /\ \A i \in Timers : timer[i].at = "sleeping" /\ timer[i].doc # d => timer'[i] = timer[i]
  /\ ChangesGoOn
  /\ UNCHANGED <<text, main, published, strays>>

LEMMA SpawnRun ==
  ASSUME TInv, LInv, RunInv, NEW a \in Registrars, NEW d \in Documents,
         NEW s \in Versions, Spawn(a, d, s), SpawnsFrom(d, s)
  PROVE  RunInv'
<1>1. PICK n \in Tasks :
        /\ task[n] = Unborn /\ \A u \in Tasks : u < n => task[u] # Unborn
        /\ task'[n].doc = d /\ task'[n].snapshot = s /\ task'[n].at = "collecting"
        /\ \A u \in Tasks \ {n} : task'[u] = task[u]
        /\ \A b \in Registrars : registering'[b].previous = registering[b].previous
  BY SpawnFacts
<1>2. /\ UNCHANGED <<text, main, published, strays>>
      /\ \A e \in Documents : Changing(e) => Changing(e)'
      /\ \A i \in Timers : timer'[i].at = "sleeping" => timer'[i] = timer[i]
  BY DEF SpawnsFrom, ChangesGoOn
<1>3. \A t \in Tasks : t \in Doomed => t \in Doomed'
  BY <1>1, <1>2, StillDoomed
<1>4. task[n].doc \notin Documents /\ task[n].at = "unborn"
  BY <1>1, UnbornFacts, Apart
<1>5. QuietTasks'
  <2> SUFFICES ASSUME NEW t \in Tasks
               PROVE  (/\ Live(t) /\ task[t].snapshot # 0 =>
                             Present(task[t].doc) \/ t \in strays \/ t \in Doomed
                       /\ task[t].at = "publishing" => task[t].snapshot # 0)'
    BY DEF QuietTasks
  <2>1. CASE t = n
    <3>1. s # 0 => Present(d)'
      BY <1>2 DEF SpawnsFrom, Present, ClosingOf
    <3>2. QED
      BY <1>1, <2>1, <3>1 DEF Present, ClosingOf
  <2>2. CASE t # n
    <3>1. /\ Live(t) /\ task[t].snapshot # 0 =>
                Present(task[t].doc) \/ t \in strays \/ t \in Doomed
          /\ task[t].at = "publishing" => task[t].snapshot # 0
      BY DEF RunInv, QuietTasks
    <3>2. task'[t] = task[t]
      BY <1>1, <2>2
    <3>3. QED
      BY <1>2, <1>3, <3>1, <3>2 DEF Live, Present, ClosingOf
  <2>3. QED
    BY <2>1, <2>2
<1>6. QuietTimers'
  BY <1>2 DEF RunInv, QuietTimers, Present, ClosingOf
<1>7. SleepInv'
  <2> SUFFICES ASSUME NEW i \in Timers, timer'[i].at = "sleeping", timer'[i].snapshot # 0
               PROVE  (\/ Changing(timer[i].doc)
                       \/ text[timer[i].doc] <= timer[i].snapshot
                          /\ Newest(timer[i].doc, timer[i].snapshot))'
    BY DEF SleepInv
  <2>1. timer'[i] = timer[i]
    BY <1>2
  <2>2. PICK e \in Documents, x \in Versions :
           /\ e = timer[i].doc /\ x = timer[i].snapshot
           /\ e = timer'[i].doc /\ x = timer'[i].snapshot
           /\ timer[i].at = "sleeping" /\ x # 0
    BY <2>1, Typed DEF TInv, DocumentsKnown, TimerRecord
  <2>3. Changing(e) \/ (text[e] <= x /\ Newest(e, x))
    BY <2>2 DEF RunInv, SleepInv
  <2>4. e = d => Changing(e)' \/ s <= x
    BY <2>2 DEF SpawnsFrom
  <2>5. Newest(e, x) /\ (e = d => s <= x) => Newest(e, x)'
    BY <1>1 DEF Newest
  <2>6. Changing(e)' \/ (text'[e] <= x /\ Newest(e, x)')
    BY <1>2, <2>3, <2>4, <2>5
  <2>7. QED
    BY <2>2, <2>6 DEF Changing, Newest
<1>8. PairInv'
  <2> SUFFICES ASSUME NEW t \in Tasks, NEW p \in Tasks,
                      Live(t)', t \notin strays', t \notin Doomed', Last(t)',
                      task'[p].doc = task'[t].doc, task'[t].snapshot # 0,
                      task'[t].snapshot < task'[p].snapshot
               PROVE  (Changing(task[t].doc) \/ Replacing(task[t].doc, task[p].snapshot))'
    BY DEF PairInv
  <2>1. CASE t = n
    <3>1. p # n
      BY <1>1, <2>1, Apart
    <3>2. task[p].doc = d /\ s < task[p].snapshot /\ s # 0
      BY <1>1, <2>1, <3>1
    <3>3. task[p].snapshot \in Nat /\ s \in Nat
      BY Typed, Apart DEF TaskRecord
    <3>4. ~Newest(d, s)
      BY <3>2, <3>3 DEF Newest
    <3>5. Changing(d)'
      BY <3>2, <3>4 DEF SpawnsFrom
    <3>6. QED
      BY <1>1, <2>1, <3>5 DEF Changing
  <2>2. CASE t # n
    <3>1. task'[t] = task[t] /\ Live(t) /\ t \notin strays /\ t \notin Doomed
      BY <1>1, <1>2, <1>3, <2>2 DEF Live
    <3>2. PICK e \in Documents : e = task[t].doc
      BY <3>1 DEF Live, TInv, DocumentsKnown
    <3>3. e # d
      <4>1. ~(n < t)
        BY <1>4, <3>1 DEF LInv, BornInv, Live
      <4>2. ~(n <= t)
        BY <2>2, <4>1, Apart
      <4>3. QED
        BY <1>1, <3>1, <3>2, <4>2 DEF Last
    <3>4. p # n /\ task'[p] = task[p]
      BY <1>1, <3>1, <3>2, <3>3
    <3>5. Last(t)
      <4> SUFFICES ASSUME NEW u \in Tasks, task[u].doc = task[t].doc PROVE u <= t
        BY DEF Last
      <4>1. u # n
        BY <1>4, <3>2
      <4>2. QED
        BY <1>1, <3>1, <4>1 DEF Last
    <3>6. PICK x : x = task[p].snapshot
      OBVIOUS
    <3>7. Changing(e) \/ Replacing(e, x)
      BY <3>1, <3>2, <3>4, <3>5, <3>6 DEF RunInv, PairInv
    <3>8. ASSUME Replacing(e, x) PROVE Replacing(e, x)'
      <4>1. PICK i \in Timers : /\ timer[i].doc = e /\ timer[i].at = "sleeping"
                                /\ timer[i].snapshot = 0 \/ timer[i].snapshot >= x
        BY <3>8 DEF Replacing
      <4>2. timer'[i] = timer[i]
        BY <3>3, <4>1 DEF SpawnsFrom
      <4>3. QED
        BY <4>1, <4>2 DEF Replacing
    <3>9. Changing(e)' \/ Replacing(e, x)'
      BY <1>2, <3>7, <3>8
    <3>10. task'[t].doc = e /\ task'[p].snapshot = x
      BY <3>1, <3>2, <3>4, <3>6
    <3>11. QED
      BY <3>9, <3>10 DEF Changing, Replacing
  <2>3. QED
    BY <2>1, <2>2
<1>9. PublishedInv'
  <2> SUFFICES ASSUME NEW e \in Documents, published'[e] # 0
               PROVE  \E p \in Tasks : task'[p].doc = e /\ task'[p].snapshot = published'[e]
    BY DEF PublishedInv
  <2>1. PICK p \in Tasks : task[p].doc = e /\ task[p].snapshot = published[e]
    BY <1>2 DEF RunInv, PublishedInv
  <2>2. p # n
    BY <1>4, <2>1
  <2>3. QED
    BY <1>1, <1>2, <2>1, <2>2
<1>10. QED
  BY <1>5, <1>6, <1>7, <1>8, <1>9 DEF RunInv

LEMMA SpawnDiagnosticsRun ==
  ASSUME TInv, AgeInv, LInv, RunInv, NEW d \in Documents, SpawnDiagnostics(d),
         \A o \in owed : o.kind = "change" => o \in owed'
  PROVE  RunInv'
<1>1. PICK s \in Versions : s = Snapshot(d)
  BY SnapshotFacts
<1>2. /\ Spawn(Main, d, s) /\ s \in {0, text[d]}
      /\ UNCHANGED <<text, main, timer, published, strays>>
  BY <1>1, SnapshotFacts DEF SpawnDiagnostics, timerVars
<1>3. ChangesGoOn
  BY DEF ChangesGoOn, Changing
<1>4. s # 0 => Present(d) /\ Newest(d, s)
  BY <1>2 DEF Present, Newest, AgeInv, NewestInv, UpTo
<1>5. ASSUME NEW i \in Timers, timer[i].at = "sleeping", timer[i].doc = d,
             timer[i].snapshot # 0
      PROVE  Changing(d)' \/ s <= timer[i].snapshot
  <2>1. Changing(d) \/ text[d] <= timer[i].snapshot
    BY <1>5 DEF RunInv, SleepInv
  <2>2. timer[i].snapshot \in Nat
    BY Typed, Apart DEF TimerRecord
  <2>3. QED
    BY <1>2, <1>3, <2>1, <2>2 DEF ChangesGoOn
<1>6. SpawnsFrom(d, s)
  BY <1>2, <1>3, <1>4, <1>5 DEF SpawnsFrom
<1>7. QED
  BY <1>2, <1>6, Apart, SpawnRun

LEMMA FireRun ==
  ASSUME TInv, LInv, RunInv, NEW i \in Timers, Fire(i) PROVE RunInv'
<1>1. PICK d \in Documents, s \in Versions : d = timer[i].doc /\ s = timer[i].snapshot
  BY FireTimers
<1>2. /\ Spawn(i, d, s) /\ timer[i].at = "sleeping" /\ timer'[i].at = "firing"
      /\ \A j \in Timers \ {i} : timer'[j] = timer[j]
      /\ UNCHANGED <<text, owed, main, published, strays>>
  BY <1>1, FireTimers DEF storeVars
<1>3. ChangesGoOn
  BY <1>2 DEF ChangesGoOn, Changing
<1>4. s # 0 => Present(d) /\ (Changing(d)' \/ Newest(d, s))
  <2>1. s # 0 => Present(d) /\ (Changing(d) \/ Newest(d, s))
    BY <1>1, <1>2 DEF RunInv, QuietTimers, SleepInv
  <2>2. QED
    BY <1>3, <2>1 DEF ChangesGoOn
<1>5. \A j \in Timers \ {i} : timer[j].at = "sleeping" => timer[j].doc # d
  BY <1>1, <1>2 DEF TInv, SleepersTracked
<1>6. SpawnsFrom(d, s)
  BY <1>1, <1>2, <1>3, <1>4, <1>5 DEF SpawnsFrom
<1>7. QED
  BY <1>2, <1>6, Apart, SpawnRun

LEMMA NextRun == TInv /\ AgeInv /\ LInv /\ RunInv /\ [Next]_vars => RunInv'
<1> SUFFICES ASSUME TInv, AgeInv, LInv, RunInv, [Next]_vars PROVE RunInv'
  OBVIOUS
<1> DEFINE Ends ==
             \/ \E d \in Documents : ParseOnDemand(d) \/ Close(d)
             \/ AbortAll \/ Closing
             \/ \E a \in Registrars : Registration(a)
             \/ \E t \in Tasks : Run(t)
             \/ UNCHANGED vars
<1>1. Ends => Ending /\ Settled
  BY EndingSteps, EndingSettled
<1>2. Ends => Going
  BY RegistrationGoing, ClosingGoing, OtherGoing
<1>3. Ends => RunInv'
  BY <1>1, <1>2, EndingKeepsRun
<1>4. ASSUME NEW d \in Documents, Open(d) \/ Change(d) PROVE RunInv'
  BY <1>4, StoreRun
<1>5. ASSUME NEW d \in Documents, Save(d) PROVE RunInv'
  BY <1>5, SpawnDiagnosticsRun DEF Save
<1>6. ASSUME NEW o \in owed, Trigger(o) PROVE RunInv'
  <2>1. CASE OpenTrigger(o)
    <3>1. o.doc \in Documents
      BY DEF TInv, TypeOK
    <3>2. SpawnDiagnostics(o.doc) /\ \A p \in owed : p.kind = "change" => p \in owed'
      BY <2>1 DEF OpenTrigger
    <3>3. QED
      BY <3>1, <3>2, SpawnDiagnosticsRun
  <2>2. QED
    BY <1>6, <2>1, ChangeRun DEF Trigger
<1>7. ASSUME NEW i \in Timers, Fire(i) PROVE RunInv'
  BY <1>7, FireRun
<1>8. QED
  BY <1>3, <1>4, <1>5, <1>6, <1>7 DEF Next, Client, Progress

LEMMA RunInvariance == Spec => [](TInv /\ LInv /\ RunInv)
<1>1. Init => TInv /\ AgeInv /\ LInv /\ RunInv
  BY InitTInv, InitAge, InitLInv, InitRun
<1>2. TInv /\ AgeInv /\ LInv /\ RunInv /\ [Next]_vars
      => (TInv /\ AgeInv /\ LInv /\ RunInv)'
  BY NextTInv, NextAge, NextLInv, NextRun
<1>3. QED
  BY <1>1, <1>2, PTL DEF Spec

(* When the main task is idle, what still runs for a closed document is a  *)
(* stray or about to be aborted, and no timer sleeps to start more; but    *)
(* from no snapshot.                                                       *)
THEOREM ClosedDocumentsAreQuiet == Spec => []ClosedIsQuiet
<1>1. RunInv => ClosedIsQuiet
  BY DEF RunInv, QuietTasks, QuietTimers, Present, ClosingOf, ClosedIsQuiet, Attended
<1>2. QED
  BY <1>1, RunInvariance, PTL

(* Only a task publishes.                                                  *)
LEMMA WhoPublishes ==
  ASSUME TInv, [Next]_vars, published' # published PROVE \E t \in Tasks : Publish(t)
<1>1. ASSUME NEW t \in Tasks, Run(t) PROVE \E u \in Tasks : Publish(u)
  BY <1>1, RunFacts
<1>2. CASE Client
  BY <1>2 DEF Client, Open, Change, StoreText, ParseOnDemand, Save, Close,
              SpawnDiagnostics
<1>3. CASE AbortAll \/ Closing
  BY <1>3 DEF AbortAll, Closing, CloseTask, AbortTask, CloseTimer, ClearTasks, CancelAll
<1>4. ASSUME NEW o \in owed, Trigger(o) PROVE FALSE
  BY <1>4 DEF Trigger, OpenTrigger, ChangeTrigger, SpawnDiagnostics
<1>5. ASSUME NEW i \in Timers, Fire(i) PROVE FALSE
  BY <1>5 DEF Fire
<1>6. ASSUME NEW a \in Registrars, Registration(a) PROVE FALSE
  BY <1>6 DEF Registration, FindFinished, RemoveFinished, Insert, AbortPrevious
<1>7. ~UNCHANGED vars
  BY DEF vars
<1>8. QED
  BY <1>1, <1>2, <1>3, <1>4, <1>5, <1>6, <1>7 DEF Next, Progress

(* What replaces newer diagnostics is a stray, or a change of the document *)
(* is on its way to replace it in turn.                                    *)
LEMMA StaleStep ==
  ASSUME TInv, LInv, RunInv, [Next]_vars, NEW d \in Documents,
         published'[d] < published[d]
  PROVE  ChangePending(d) \/ \E t \in strays' : Publish(t)
<1>0. PICK x \in Nat : x = published[d] /\ ~(x < x)
  <2>1. published[d] \in Nat
    BY Typed, Apart
  <2>2. \A x \in Nat : ~(x < x)
    OBVIOUS
  <2>3. QED
    BY <2>1, <2>2
<1>1. PICK t \in Tasks : Publish(t)
  BY <1>0, WhoPublishes
<1>2. /\ Live(t) /\ task[t].at = "publishing"
      /\ published' = [published EXCEPT ![task[t].doc] = task[t].snapshot]
      /\ strays' = strays \cup {u \in {t} : Superseding(u)}
  BY <1>1 DEF Publish, Live
<1>3. task[t].doc = d /\ task[t].snapshot < published[d]
  BY <1>0, <1>2, Typed
<1> SUFFICES ASSUME t \notin strays' PROVE ChangePending(d)
  BY <1>1
<1>4. t \notin strays /\ t \notin Doomed /\ \A u \in Unregistered(d) : ~(t < u)
  BY <1>2, <1>3 DEF Superseding
<1>5. Last(t)
  <2> SUFFICES ASSUME NEW u \in Tasks, task[u].doc = task[t].doc, t < u PROVE FALSE
    BY Apart DEF Last
  <2>1. QED
    BY <1>2, <1>3, <1>4 DEF LInv, OrderInv
<1>6. PICK p \in Tasks : task[p].doc = d /\ task[p].snapshot = published[d]
  <2>1. task[t].snapshot \in Nat /\ published[d] \in Nat
    BY Typed, Apart DEF TaskRecord
  <2>2. published[d] # 0
    BY <1>3, <2>1
  <2>3. QED
    BY <2>2 DEF RunInv, PublishedInv
<1>7. task[t].snapshot # 0
  BY <1>2 DEF RunInv, QuietTasks
<1>8. Changing(d) \/ Replacing(d, published[d])
  BY <1>2, <1>3, <1>4, <1>5, <1>6, <1>7 DEF RunInv, PairInv
<1>9. QED
  BY <1>8 DEF Changing, Replacing, ChangePending

THEOREM StaleIsTemporary == Spec => StaleOnlyWhileChanging
<1>1. TInv /\ LInv /\ RunInv /\ [Next]_vars =>
         [\A d \in Documents :
            published'[d] < published[d] =>
               ChangePending(d) \/ \E t \in strays' : Publish(t)]_vars
  BY StaleStep
<1>2. Spec => [][Next]_vars
  BY PTL DEF Spec
<1>3. QED
  BY <1>1, <1>2, RunInvariance, PTL DEF StaleOnlyWhileChanging
=============================================================================
