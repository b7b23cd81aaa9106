---------------------------- MODULE Diagnostics ----------------------------
(***************************************************************************)
(* Diagnostics that the server publishes unasked: at once after a document *)
(* is opened or saved (lsp_impl/text_document/publish_diagnostic.rs), and  *)
(* half a second after the last change (debounced_diagnostics.rs).  A task *)
(* collects them from the servers of the regions and publishes them; each  *)
(* task supersedes the one before it (synthetic_diagnostics.rs).           *)
(*                                                                         *)
(* The handlers of the client's messages run in one task of the runtime,   *)
(* "main"; timers and the tasks that collect run on other threads, at any  *)
(* time.  Main and a timer that fires register a new task in steps: spawn, *)
(* look for finished entries, remove them, replace the entry, abort the    *)
(* task that had it.  The diagnostics of a text are its version; a snapshot *)
(* is a version too, or 0 where there is no tree.                          *)
(***************************************************************************)
EXTENDS Naturals, FiniteSets

CONSTANTS
  Documents,
  MaxInputs,    (* bound on the openings, changes and saves *)
  CleanupLimit, (* of finished entries that a registration removes *)
  Main, None

Versions == 0..MaxInputs
Tasks == 1..MaxInputs
Timers == 1..MaxInputs   (* by the version of the change that started it *)
Registrars == {Main} \cup Timers

ASSUME DiagnosticsAssumption ==
  /\ MaxInputs \in Nat /\ CleanupLimit \in Nat
  /\ Main \notin Nat /\ None \notin Nat \cup Documents /\ Main # None

VARIABLES
  text,           (* the version of each document in the store, 0: closed   *)
  tree,           (* the documents whose text has a tree                    *)
  version, saves, (* how many versions and saves there were                 *)
  owed,           (* the handlers that have stored a text, not yet triggered *)
  main,           (* what the main task is in the middle of                 *)
  active_tasks,   (* SyntheticDiagnosticsManager, by document               *)
  task,           (* the tasks                                              *)
  active_timers,  (* DebouncedDiagnosticsManager, by document               *)
  timer,          (* the timers                                             *)
  registering,    (* of each registrar: the task it spawned, the finished   *)
                  (* entries it found, the task it is about to abort        *)
  published,      (* what the client has of each document                   *)
  due,            (* history: the snapshot of the last trigger              *)
  strays          (* history: the tasks that no abort stops                 *)

storeVars == <<text, tree, version, saves, owed>>
taskVars == <<active_tasks, task>>
timerVars == <<active_timers, timer>>
vars == <<storeVars, main, taskVars, timerVars, registering, published, due, strays>>

Idle == [task |-> None, finished |-> None, previous |-> None]
Rest(at) == [at |-> at, doc |-> None, handle |-> None]
Unborn == [doc |-> None, snapshot |-> 0, at |-> "unborn"]

MainRecord ==
  [at : {"idle", "closing", "aborting", "cancelling", "clearing", "stopping",
         "down"},
   doc : Documents \cup {None}, handle : Tasks \cup {None}]
TaskRecord ==
  [doc : Documents \cup {None}, snapshot : Versions,
   at : {"unborn", "collecting", "publishing", "done"}]
TimerRecord ==
  [doc : Documents \cup {None}, snapshot : Versions,
   at : {"unborn", "sleeping", "firing", "done"}]
RegistrarRecord ==
  [task : Tasks \cup {None}, finished : (SUBSET Documents) \cup {None},
   previous : Tasks \cup {None}]

TypeOK ==
  /\ text \in [Documents -> Versions] /\ tree \subseteq Documents
  /\ version \in Versions /\ saves \in Versions
  /\ owed \subseteq [doc : Documents, kind : {"open", "change"},
                     version : Versions]
  /\ main \in MainRecord
  /\ active_tasks \in [Documents -> Tasks \cup {None}]
  /\ task \in [Tasks -> TaskRecord]
  /\ active_timers \in [Documents -> Timers \cup {None}]
  /\ timer \in [Timers -> TimerRecord]
  /\ registering \in [Registrars -> RegistrarRecord]
  /\ published \in [Documents -> Versions] /\ due \in [Documents -> Versions]
  /\ strays \subseteq Tasks

Init ==
  /\ text = [d \in Documents |-> 0] /\ tree = {}
  /\ version = 0 /\ saves = 0 /\ owed = {}
  /\ main = Rest("idle")
  /\ active_tasks = [d \in Documents |-> None]
  /\ task = [t \in Tasks |-> Unborn]
  /\ active_timers = [d \in Documents |-> None]
  /\ timer = [i \in Timers |-> Unborn]
  /\ registering = [a \in Registrars |-> Idle]
  /\ published = [d \in Documents |-> 0] /\ due = published
  /\ strays = {}

Finished(t) == task[t].at = "done"
Live(t) == task[t].at \in {"collecting", "publishing"}
MainFree == main.at \in {"idle", "down"} /\ registering[Main] = Idle
-----------------------------------------------------------------------------
(* The handlers up to their trigger: they store a text and its tree, if it *)
(* could be parsed, and go on with other work.                             *)

StoreText(d, k) ==
  /\ MainFree /\ version + saves < MaxInputs
  /\ version' = version + 1
  /\ text' = [text EXCEPT ![d] = version + 1]
  /\ tree' \in {tree \cup {d}, tree \ {d}}
  /\ owed' = owed \cup {[doc |-> d, kind |-> k, version |-> version + 1]}
  /\ UNCHANGED <<saves, main, taskVars, timerVars, registering, published, due,
                 strays>>

Open(d) == text[d] = 0 /\ StoreText(d, "open")
Change(d) == text[d] # 0 /\ StoreText(d, "change")

(* A request for tokens parses a text that has no tree yet.                *)
ParseOnDemand(d) ==
  /\ MainFree /\ text[d] # 0 /\ d \notin tree
  /\ tree' = tree \cup {d}
  /\ UNCHANGED <<text, version, saves, owed, main, taskVars, timerVars,
                 registering, published, due, strays>>

(* prepare_diagnostic_snapshot.                                            *)
Snapshot(d) == IF d \in tree THEN text[d] ELSE 0
Triggered(d) == due' = [due EXCEPT ![d] = Snapshot(d)]
-----------------------------------------------------------------------------
(* The registry of tasks.                                                  *)

(* A new task, which no entry has yet, may run at once.                    *)
Spawn(a, d, s) ==
  \E t \in Tasks :
     /\ task[t] = Unborn /\ \A u \in 1..(t - 1) : task[u] # Unborn
     /\ task' = [task EXCEPT ![t] = [doc |-> d, snapshot |-> s,
                                     at |-> "collecting"]]
     /\ registering' = [registering EXCEPT ![a].task = t]

(* Mutant: the task before is replaced, not aborted.                       *)
NoAbort(ts) == task' = task /\ UNCHANGED strays

(* Tasks are aborted.  One that is polled at the time, on another thread,  *)
(* and waits for nothing any more gets its publication out all the same.   *)
Abort(ts) ==
  \E late \in SUBSET {t \in ts : task[t].at = "publishing"} :
     /\ task' = [t \in Tasks |-> IF t \in ts \ late
                                 THEN [task[t] EXCEPT !.at = "done"] ELSE task[t]]
     /\ strays' = strays \cup late

(* The handle of a task that has finished aborts nothing.                  *)
Running(t) == IF t # None /\ Live(t) THEN t ELSE None

Entries(ds) == {active_tasks[d] : d \in ds} \ {None}

(* The tasks that somebody is about to abort.                              *)
Doomed == {registering[a].previous : a \in Registrars} \cup {main.handle}

(* The tasks of the document that have yet to get their entry.             *)
Unregistered(d) ==
  {t \in {registering[a].task : a \in Registrars} \ {None} : task[t].doc = d}

(* Somebody is in the middle of superseding the task.                      *)
Superseding(t) ==
  t \in Doomed \/ \E u \in Unregistered(task[t].doc) : t < u

(* cleanup_finished_tasks looks for entries of tasks that have finished.   *)
FindFinished(a) ==
  LET finished == {d \in Documents : active_tasks[d] # None
                                     /\ Finished(active_tasks[d])}
  IN
  /\ registering[a].task # None /\ registering[a].finished = None
  /\ \E found \in SUBSET finished :
        /\ found = finished \/ Cardinality(found) = CleanupLimit
        /\ registering' = [registering EXCEPT ![a].finished = found]
  /\ UNCHANGED <<storeVars, main, taskVars, timerVars, published, due, strays>>

(* It removes them one by one, whatever they are by now.                   *)
RemoveFinished(a) ==
  /\ registering[a].task # None /\ registering[a].finished # None
  /\ \E d \in registering[a].finished :
        /\ registering' = [registering EXCEPT ![a].finished = @ \ {d}]
        /\ active_tasks' = [active_tasks EXCEPT ![d] = None]
        /\ strays' = strays \cup {t \in Entries({d}) : Live(t)}
  /\ UNCHANGED <<storeVars, main, task, timerVars, published, due>>

(* register_task goes on to replace the entry of the document ...          *)
Insert(a) ==
  LET t == registering[a].task
      d == task[t].doc
  IN
  /\ t # None /\ registering[a].finished = {}
  /\ active_tasks' = [active_tasks EXCEPT ![d] = t]
  /\ registering' = [registering EXCEPT ![a] =
                       [Idle EXCEPT !.previous = Running(active_tasks[d])]]
  /\ timer' = IF a = Main THEN timer ELSE [timer EXCEPT ![a].at = "done"]
  /\ due' = [due EXCEPT ![d] = IF task[t].snapshot = 0 THEN 0 ELSE @]
  /\ strays' = strays \cup {u \in Unregistered(d) : u < t}
  /\ UNCHANGED <<storeVars, main, task, active_timers, published>>

(* ... and aborts the task that it was of.                                 *)
AbortPrevious(a) ==
  /\ registering[a].previous # None
  /\ Abort({registering[a].previous})
  /\ registering' = [registering EXCEPT ![a] = Idle]
  /\ UNCHANGED <<storeVars, main, active_tasks, timerVars, published, due>>
-----------------------------------------------------------------------------
(* The triggers.                                                           *)

(* spawn_synthetic_diagnostic_task.                                        *)
SpawnDiagnostics(d) ==
  /\ MainFree
  /\ Spawn(Main, d, Snapshot(d)) /\ Triggered(d)
  /\ UNCHANGED <<text, tree, version, main, active_tasks, timerVars, published,
                 strays>>

OpenTrigger(o) ==
  /\ o.kind = "open" /\ SpawnDiagnostics(o.doc)
  /\ owed' = owed \ {o} /\ UNCHANGED saves

Save(d) ==
  /\ version + saves < MaxInputs /\ saves' = saves + 1
  /\ text[d] # 0 /\ SpawnDiagnostics(d)
  /\ UNCHANGED owed

(* The timer of the document, if it still sleeps, is aborted.              *)
AbortTimer(d) ==
  [i \in Timers |-> IF i = active_timers[d] /\ timer[i].at = "sleeping"
                    THEN [timer[i] EXCEPT !.at = "done"] ELSE timer[i]]

(* schedule: the snapshot is taken now.                                    *)
ChangeTrigger(o) ==
  /\ o.kind = "change" /\ MainFree
  /\ owed' = owed \ {o}
  /\ timer' = [AbortTimer(o.doc) EXCEPT ![o.version] =
                 [doc |-> o.doc, snapshot |-> Snapshot(o.doc),
                  at |-> "sleeping"]]
  /\ active_timers' = [active_timers EXCEPT ![o.doc] = o.version]
  /\ Triggered(o.doc)
  /\ UNCHANGED <<text, tree, version, saves, main, taskVars, registering,
                 published, strays>>

(* The timer wakes up and spawns its task; it is not aborted any more.     *)
Fire(i) ==
  /\ timer[i].at = "sleeping"
  /\ timer' = [timer EXCEPT ![i].at = "firing"]
  /\ Spawn(i, timer[i].doc, timer[i].snapshot)
  /\ UNCHANGED <<storeVars, main, active_tasks, active_timers, published, due,
                 strays>>
-----------------------------------------------------------------------------
(* did_close: the store, the entry of the task, the task, the timer.       *)

Close(d) ==
  /\ MainFree /\ text[d] # 0
  /\ text' = [text EXCEPT ![d] = 0] /\ tree' = tree \ {d}
  /\ main' = [Rest("closing") EXCEPT !.doc = d]
  /\ UNCHANGED <<version, saves, owed, taskVars, timerVars, registering,
                 published, due, strays>>

(* Mutant: the entry is removed and the task goes on.                      *)
ForgetDocument(d) ==
  /\ active_tasks' = [active_tasks EXCEPT ![d] = None]
  /\ main' = [main EXCEPT !.at = "aborting"]

RemoveDocument(d) ==
  /\ active_tasks' = [active_tasks EXCEPT ![d] = None]
  /\ main' = [main EXCEPT !.at = "aborting", !.handle = Running(active_tasks[d])]

CloseTask ==
  /\ main.at = "closing"
  /\ RemoveDocument(main.doc)
  /\ UNCHANGED <<storeVars, task, timerVars, registering, published, due, strays>>

AbortTask ==
  /\ main.at = "aborting"
  /\ Abort({main.handle} \ {None})
  /\ main' = [main EXCEPT !.at = "cancelling", !.handle = None]
  /\ UNCHANGED <<storeVars, active_tasks, timerVars, registering, published, due>>

(* A timer that has fired is not stopped, nor is the task that it spawned  *)
(* and may have registered meanwhile.                                      *)
Outlasting(ds) ==
  Entries(ds) \cup UNION {Unregistered(d) : d \in ds}

CloseTimer ==
  /\ main.at = "cancelling"
  /\ timer' = AbortTimer(main.doc)
  /\ active_timers' = [active_timers EXCEPT ![main.doc] = None]
  /\ strays' = strays \cup Outlasting({main.doc})
  /\ main' = Rest("idle")
  /\ UNCHANGED <<storeVars, taskVars, registering, published, due>>

(* shutdown: abort_all visits the entries, clears the map, and then        *)
(* cancel_all does so with the timers.  The handlers still in flight are   *)
(* not waited for.                                                         *)
AbortAll ==
  /\ MainFree /\ main.at = "idle"
  /\ Abort(Entries(Documents))
  /\ main' = Rest("clearing")
  /\ UNCHANGED <<storeVars, active_tasks, timerVars, registering, published, due>>

ClearTasks ==
  /\ main.at = "clearing"
  /\ active_tasks' = [d \in Documents |-> None]
  /\ strays' = strays \cup {t \in Entries(Documents) : Live(t)}
  /\ main' = Rest("stopping")
  /\ UNCHANGED <<storeVars, task, timerVars, registering, published, due>>

CancelAll ==
  /\ main.at = "stopping"
  /\ timer' = [i \in Timers |->
                 IF i \in {active_timers[d] : d \in Documents}
                    /\ timer[i].at = "sleeping"
                 THEN [timer[i] EXCEPT !.at = "done"] ELSE timer[i]]
  /\ active_timers' = [d \in Documents |-> None]
  /\ strays' = strays \cup Outlasting(Documents)
  /\ main' = Rest("down")
  /\ UNCHANGED <<storeVars, taskVars, registering, published, due>>
-----------------------------------------------------------------------------
(* A task: without a snapshot it ends; else it asks the servers, each with *)
(* a timeout, and publishes what came.                                     *)

(* Mutant: it returns without a publication if there is nothing to report. *)
CollectedNothing(t) ==
  /\ task[t].at = "collecting"
  /\ task' = [task EXCEPT ![t].at = "done"]
  /\ UNCHANGED <<storeVars, main, active_tasks, timerVars, registering,
                 published, due, strays>>

Collected(t) ==
  /\ task[t].at = "collecting"
  /\ task' = [task EXCEPT ![t].at = IF task[t].snapshot = 0 THEN "done"
                                    ELSE "publishing"]
  /\ UNCHANGED <<storeVars, main, active_tasks, timerVars, registering,
                 published, due, strays>>

Publish(t) ==
  /\ task[t].at = "publishing"
  /\ task' = [task EXCEPT ![t].at = "done"]
  /\ published' = [published EXCEPT ![task[t].doc] = task[t].snapshot]
  /\ strays' = strays \cup {u \in {t} : Superseding(u)}
  /\ UNCHANGED <<storeVars, main, active_tasks, timerVars, registering, due>>
-----------------------------------------------------------------------------
Client ==
  /\ main.at = "idle"
  /\ \E d \in Documents :
       Open(d) \/ Change(d) \/ ParseOnDemand(d) \/ Save(d) \/ Close(d)

Trigger(o) == OpenTrigger(o) \/ ChangeTrigger(o)

Closing == CloseTask \/ AbortTask \/ CloseTimer \/ ClearTasks \/ CancelAll
Registration(a) ==
  FindFinished(a) \/ RemoveFinished(a) \/ Insert(a) \/ AbortPrevious(a)
Run(t) == Collected(t) \/ Publish(t)

Progress ==
  \/ Closing
  \/ \E o \in owed : Trigger(o)
  \/ \E i \in Timers : Fire(i)
  \/ \E a \in Registrars : Registration(a)
  \/ \E t \in Tasks : Run(t)

Next == Client \/ AbortAll \/ Progress

Spec == Init /\ [][Next]_vars

(* The runtime goes on as long as a handler, a timer or a task can: half a *)
(* second passes, and a task's requests have a timeout of their own.       *)
FairSpec == Spec /\ WF_vars(Progress)
-----------------------------------------------------------------------------
(* Somebody is about to register the task, or to abort it.                 *)
Attended(t) == t \in Unregistered(task[t].doc) \cup Doomed

(* Each task that runs has its entry, or is about to get it, or is about   *)
(* to be aborted: what supersedes the task of a document, a close of it or *)
(* the shutdown finds the task and stops it.  The exceptions are the       *)
(* strays: a task that was polled at its abort; one whose entry was taken  *)
(* for a finished one's, or cleared after the shutdown had aborted all.    *)
LiveTasksRegistered ==
  \A t \in Tasks : Live(t) /\ t \notin strays =>
     active_tasks[task[t].doc] = t \/ Attended(t)

(* A timer that sleeps has its entry, whatever threads meet: a document    *)
(* has one at most, and a change or a close of the document cancels it.    *)
SleepersTracked ==
  \A i \in Timers :
     timer[i].at = "sleeping" => active_timers[timer[i].doc] = i

(* What supersedes, closes or shuts down finds what runs.                  *)
TasksSafe == TypeOK /\ LiveTasksRegistered /\ SleepersTracked

(* No task of a closed document collects or publishes, unless it is a      *)
(* stray, here one that a timer spawned before the close was over, or      *)
(* about to be aborted; and no timer will start one: a handler that        *)
(* outlives the document finds no snapshot.                                *)
ClosedIsQuiet ==
  main.at = "idle" =>
     /\ \A t \in Tasks :
          Live(t) /\ task[t].snapshot # 0 =>
             text[task[t].doc] # 0 \/ t \in strays \/ Attended(t)
     /\ \A i \in Timers :
          timer[i].at = "sleeping" /\ timer[i].snapshot # 0 =>
             text[timer[i].doc] # 0

(* A change of the document has yet to publish its diagnostics, or has     *)
(* found no tree to do so from.                                            *)
ChangePending(d) ==
  \/ \E o \in owed : o.doc = d /\ o.kind = "change"
  \/ \E i \in Timers :
        /\ timer[i].doc = d /\ timer[i].at = "sleeping"
        /\ timer[i].snapshot = 0 \/ timer[i].snapshot >= published[d]

(* Diagnostics of an older text replace newer ones only while a change is  *)
(* pending: a debounced snapshot may be older than the one of a save, but  *)
(* is never the last word; or when a stray publishes.                      *)
StaleOnlyWhileChanging ==
  [][\A d \in Documents :
        published'[d] < published[d] =>
           ChangePending(d) \/ \E t \in strays' : Publish(t)]_vars

(* In the end the client has the diagnostics of the text that was stored   *)
(* when a trigger came last, however saves, changes, timers and tasks      *)
(* superseded one another; unless what came last found no tree, which      *)
(* takes the place of a task and publishes nothing, or a task went astray. *)
EventuallyLatest ==
  \A d \in Documents :
     <>[](\/ published[d] = due[d] \/ due[d] = 0
          \/ text[d] = 0 \/ main.at # "idle"
          \/ \E t \in strays : task[t].doc = d)

(* "Only the latest diagnostic collection should complete and publish      *)
(* results.  Earlier in-progress tasks are aborted via AbortHandle to      *)
(* prevent stale diagnostics from being published"                         *)
(* (synthetic_diagnostics.rs:9-12): once another task has its entry, and   *)
(* its abort has been called, a task does not publish.                     *)
OnlyTheLatestPublishes ==
  [][\A t \in Tasks :
        Publish(t) => active_tasks[task[t].doc] \in {t, None} \/ Attended(t)]_vars
=============================================================================
