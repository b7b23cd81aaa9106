-------------------------- MODULE AutoInstallProofs --------------------------
(***************************************************************************)
(* Of AutoInstall, for any number of documents, languages, threads and     *)
(* starts of the server: a language has one installation, only a parser    *)
(* that was in use when a server ended is taken for failed, and what a     *)
(* server recorded is in one of the files until it is.                     *)
(*                                                                         *)
(* The inductive invariant has a part for each group of variables: the     *)
(* record in memory and on disk, the handlers with their threads and       *)
(* installations, and the counts of the parses that run.                   *)
(***************************************************************************)
EXTENDS AutoInstall, FiniteSetTheorems, TLAPS

(* The record of the parsers that fail, in memory and on disk.             *)
RecordTypes ==
  /\ failed_file \subseteq Languages
  /\ in_progress_file = None \/ in_progress_file \subseteq Languages
  /\ server \in {"down", "marking", "truncated", "clearing", "up", "persisting",
                 "stopping"}
  /\ session \in 0..MaxSessions
  /\ lines \subseteq Languages /\ failed \subseteq Languages
  /\ panicked \subseteq Languages /\ suspects \subseteq Languages
  /\ faults \subseteq {"list", "record"}

(* While a start marks, the parsers of the server before are in the list   *)
(* or have yet to be marked, if their record could be read; a server that  *)
(* is up and had no fault has no record left; and while no write is under  *)
(* way the list is that of memory, if no operation on it failed.           *)
RecordMarked ==
  /\ server \in {"marking", "truncated"} => in_progress_file # None
  /\ server = "marking" /\ "record" \notin faults =>
       in_progress_file \subseteq (failed \cap failed_file) \cup lines
  /\ server = "truncated" /\ "record" \notin faults =>
       in_progress_file \subseteq failed \cup lines
  /\ server \in {"up", "clearing"} /\ faults = {} => in_progress_file = None
  /\ server = "persisting" => in_progress_file = {}

ListAgrees ==
  server \in {"marking", "up", "persisting", "stopping"} /\ "list" \notin faults =>
     failed = failed_file

RecordInv == RecordTypes /\ RecordMarked /\ ListAgrees /\ OnlySuspectsFail
             /\ lines \subseteq suspects

(* The handlers, the threads they wait for and the installations they own. *)
Pcs == {"closed", "checking", "installing", "parsing", "open"}
ThreadRecord ==
  [doc : Documents \cup {None}, language : Languages \cup {None},
   at : {"idle", "spawned", "parsing", "removing"}]

HandlerTypes ==
  /\ parser_file \in [Languages -> {"none", "partial", "whole"}]
  /\ installing \subseteq Languages /\ loaded \subseteq Languages
  /\ pc \in [Documents -> Pcs]
  /\ language \in [Documents -> Languages \cup {None}]
  /\ tree \subseteq Documents
  /\ thread \in [Threads -> ThreadRecord]

LanguagesKnown ==
  /\ \A d \in Documents : pc[d] # "closed" => language[d] \in Languages
  /\ \A t \in Threads : thread[t].at # "idle" => thread[t].language \in Languages

HandlersWait ==
  /\ \A t \in Threads : thread[t].doc # None => pc[thread[t].doc] = "parsing"
  /\ \A t, u \in Threads :
        thread[t].doc # None /\ thread[t].doc = thread[u].doc => t = u

MarksOwned ==
  /\ \A d \in Documents : pc[d] = "installing" => language[d] \in installing
  /\ \A d, e \in Documents :
        pc[d] = "installing" /\ pc[e] = "installing" /\ language[d] = language[e]
           => d = e
  /\ \A l \in installing :
        \E d \in Documents : pc[d] = "installing" /\ language[d] = l

HandlerInv == HandlerTypes /\ LanguagesKnown /\ HandlersWait /\ MarksOwned

(* The counts. Two ends of parses of a language may meet, so that the      *)
(* count of it wraps or is lost while they do; but an entry that no one is *)
(* about to remove counts parses that run, but for a language a parse of   *)
(* which has panicked.                                                     *)
At(l, p) == {t \in Threads : thread[t].language = l /\ thread[t].at = p}

CountTypes == parsing_counts \in [Languages -> 0..(CountRange - 1) \cup {None}]

CountsMeanParses ==
  \A l \in Languages : parsing_counts[l] # None =>
    \/ l \in panicked \/ At(l, "removing") # {}
    \/ /\ 1 <= parsing_counts[l]
       /\ parsing_counts[l] <= Cardinality(At(l, "parsing"))

CountInv == CountTypes /\ CountsMeanParses

IInv == RecordInv /\ HandlerInv /\ CountInv
-----------------------------------------------------------------------------
LEMMA NoneApart == None \notin Languages /\ None \notin Documents /\ None \notin Nat
BY InstallAssumption

LEMMA IdleFacts ==
  Idle \in ThreadRecord /\ Idle.doc = None /\ Idle.at = "idle" /\ Idle.language = None
BY DEF Idle, ThreadRecord

LEMMA InitIInv == Init => IInv
<1> SUFFICES ASSUME Init PROVE IInv
  OBVIOUS
<1>1. RecordInv
  <2>1. /\ failed_file = {} /\ in_progress_file = None /\ server = "down"
        /\ session = 0 /\ lines = {} /\ failed = {} /\ suspects = {}
        /\ panicked = {} /\ faults = {}
    BY DEF Init
  <2>2. session \in 0..MaxSessions
    BY <2>1, InstallAssumption
  <2>3. QED
    BY <2>1, <2>2 DEF RecordInv, RecordTypes, RecordMarked, ListAgrees, OnlySuspectsFail
<1>2. \A t \in Threads : thread[t] = Idle
  BY DEF Init
<1>3. HandlerInv
  <2>1. HandlerTypes
    BY IdleFacts DEF Init, HandlerTypes, Pcs
  <2>2. QED
    BY <1>2, <2>1, IdleFacts
    DEF Init, HandlerInv, LanguagesKnown, HandlersWait, MarksOwned
<1>4. CountInv
  BY DEF Init, CountInv, CountTypes, CountsMeanParses
<1>5. QED
  BY <1>1, <1>3, <1>4 DEF IInv

(* What is counted is being parsed, or was and is about to be removed.     *)
LEMMA AtFinite ==
  ASSUME NEW l, NEW p
  PROVE  /\ IsFiniteSet(At(l, p)) /\ Cardinality(At(l, p)) \in Nat
         /\ Cardinality(At(l, p)) <= MaxThreads
<1>1. IsFiniteSet(Threads) /\ Cardinality(Threads) = MaxThreads
  BY FS_Interval, InstallAssumption DEF Threads
<1>2. At(l, p) \in SUBSET Threads
  BY DEF At
<1>3. QED
  BY <1>1, <1>2, FS_Subset, FS_CardinalityType

LEMMA CountedInFlight ==
  ASSUME IInv, NEW l \in Languages, parsing_counts[l] # None
  PROVE  l \in InFlight \cup panicked
<1>1. CASE At(l, "removing") # {}
  BY <1>1 DEF At, InFlight
<1>2. CASE At(l, "removing") = {} /\ l \notin panicked
  <2>1. 1 <= parsing_counts[l] /\ parsing_counts[l] <= Cardinality(At(l, "parsing"))
        /\ parsing_counts[l] \in Nat
    BY <1>2 DEF IInv, CountInv, CountTypes, CountsMeanParses
  <2>2. Cardinality(At(l, "parsing")) # 0
    BY <2>1, AtFinite
  <2>3. At(l, "parsing") # {}
    BY <2>2, FS_EmptySet
  <2>4. QED
    BY <2>3 DEF At, InFlight
<1>3. QED
  BY <1>1, <1>2
-----------------------------------------------------------------------------
(* The record.                                                             *)
LEMMA RecordStep == ASSUME IInv, [Next]_vars PROVE RecordInv'
<1> USE DEF RecordInv, RecordTypes, RecordMarked, ListAgrees, OnlySuspectsFail,
            recordVars, serverVars, diskVars, handlerFrame, parseVars
<1>0. RecordInv
  BY DEF IInv
<1>1. CASE Start
  <2>1. /\ server = "down" /\ session' \in 0..MaxSessions
        /\ UNCHANGED <<failed_file, in_progress_file, panicked, suspects>>
    BY <1>0, <1>1, InstallAssumption DEF Start, ReadInProgress, StartWithoutRecord
  <2>2. ASSUME NEW f \in SUBSET {"list"}, ReadInProgress(f),
               failed' \in {failed_file, {}}, f = {} => failed' = failed_file
        PROVE  RecordInv'
    BY <1>0, <2>1, <2>2 DEF ReadInProgress
  <2>3. CASE StartWithoutRecord
    BY <1>0, <2>1, <2>3 DEF StartWithoutRecord
  <2>4. QED
    BY <1>1, <2>2, <2>3 DEF Start
<1>2. CASE MarkFailed
  <2>1. PICK l \in lines : /\ failed' = failed \cup {l}
                           /\ lines' = IF server' = "up" THEN {} ELSE lines \ {l}
    BY <1>2 DEF MarkFailed
  <2>2. /\ server = "marking" /\ Truncate("truncated")
        /\ UNCHANGED <<in_progress_file, session, panicked, suspects>>
    BY <1>2 DEF MarkFailed
  <2>3. CASE failed_file' = {} /\ server' = "truncated" /\ UNCHANGED faults
    BY <1>0, <2>1, <2>2, <2>3
  <2>4. CASE server' = "up" /\ faults' = faults \cup {"list"} /\ UNCHANGED failed_file
    BY <1>0, <2>1, <2>2, <2>4
  <2>5. QED
    BY <2>2, <2>3, <2>4 DEF Truncate
<1>3. CASE Saved
  <2>1. /\ server \in {"truncated", "clearing"}
        /\ UNCHANGED <<in_progress_file, failed, session, panicked, suspects>>
    BY <1>3 DEF Saved
  <2>2. CASE /\ failed_file' = failed /\ UNCHANGED <<faults, lines>>
             /\ server' = IF server = "truncated" THEN "marking" ELSE "up"
    BY <1>0, <2>1, <2>2
  <2>3. CASE /\ server' = "up" /\ faults' = faults \cup {"list"} /\ lines' = {}
             /\ UNCHANGED failed_file
    BY <1>0, <2>1, <2>3
  <2>4. QED
    BY <1>3, <2>2, <2>3 DEF Saved
<1>4. CASE Marked
  BY <1>0, <1>4 DEF Marked
<1>5. CASE Shutdown
  <2> DEFINE counted == {l \in Languages : parsing_counts[l] # None}
  <2>1. /\ server = "up" /\ suspects' = suspects \cup InFlight \cup panicked
        /\ \/ /\ counted # {} /\ server' = "persisting" /\ lines' = counted
              /\ in_progress_file' = {} /\ UNCHANGED faults
           \/ /\ server' = "stopping" /\ UNCHANGED <<in_progress_file, lines>>
              /\ faults' = IF counted = {} THEN faults ELSE faults \cup {"record"}
        /\ UNCHANGED <<failed_file, failed, session, panicked>>
    BY <1>5 DEF Shutdown
  <2>2. counted \subseteq InFlight \cup panicked /\ counted \subseteq Languages
    BY CountedInFlight
  <2>3. InFlight \subseteq Languages
    BY DEF InFlight, IInv, HandlerInv, LanguagesKnown
  <2> HIDE DEF counted
  <2>4. QED
    BY <1>0, <2>1, <2>2, <2>3
<1>6. CASE Persisted
  BY <1>0, <1>6 DEF Persisted
<1>7. CASE Exit
  BY <1>0, <1>7 DEF Exit, Forget
<1>8. ASSUME UNCHANGED <<recordVars, serverVars, suspects>>,
             panicked' \subseteq Languages
      PROVE  RecordInv'
  BY <1>0, <1>8
<1>9. ASSUME NEW d \in Documents, Client(d) PROVE RecordInv'
  <2>1. CASE ParseOnDemand(d)
    <3>1. /\ server = "up" /\ ClearFailed(language[d])
          /\ UNCHANGED <<in_progress_file, lines, session, panicked, suspects>>
      BY <2>1 DEF ParseOnDemand
    <3>2. QED
      BY <1>0, <3>1 DEF ClearFailed, Truncate
  <2>2. CASE ~ParseOnDemand(d)
    BY <1>0, <1>8, <1>9, <2>2 DEF Client, Open, OpenUnknown, Change, Close, ParseDocument
  <2>3. QED
    BY <2>1, <2>2
<1>10. ASSUME NEW d \in Documents, Handle(d) \/ CopyParser(d) PROVE RecordInv'
  BY <1>0, <1>8, <1>10
  DEF Handle, Unsupported, BeginInstall, AlreadyExists, AlreadyInstalling, InstallEnds,
      ParseTimeout, ParseDocument, CopyParser
<1>11. ASSUME NEW t \in Threads, RunThread(t) PROVE RecordInv'
  <2>1. CASE ParsePanics(t)
    <3>1. thread[t].language \in Languages
      BY <2>1 DEF ParsePanics, IInv, HandlerInv, LanguagesKnown
    <3>2. QED
      BY <1>0, <1>8, <2>1, <3>1 DEF ParsePanics
  <2>2. CASE BeginParsing(t) \/ EndParsing(t) \/ RemoveEntry(t)
    BY <1>0, <1>8, <2>2 DEF BeginParsing, EndParsing, RemoveEntry
  <2>3. QED
    BY <1>11, <2>1, <2>2 DEF RunThread
<1>12. CASE UNCHANGED vars
  BY <1>0, <1>8, <1>12 DEF vars
<1>13. QED
  BY <1>1, <1>2, <1>3, <1>4, <1>5, <1>6, <1>7, <1>9, <1>10, <1>11, <1>12
     DEF Next, Record
-----------------------------------------------------------------------------
(* The handlers. What a step of the handler of a document leaves as it was *)
(* for the others: their places, and the threads they wait for.            *)
LEMMA MoveHandler ==
  ASSUME HandlerInv, NEW d \in Documents, NEW p \in Pcs,
         NEW l \in Languages \cup {None}, p # "closed" => l \in Languages,
         Goto(d, p), language' = [language EXCEPT ![d] = l],
         \/ p # "installing" /\ pc[d] # "installing" /\ UNCHANGED installing
         \/ /\ p = "installing" /\ pc[d] # "installing"
            /\ l \notin installing /\ installing' = installing \cup {l}
         \/ /\ p # "installing" /\ pc[d] = "installing"
            /\ installing' = installing \ {language[d]},
         parser_file' \in [Languages -> {"none", "partial", "whole"}],
         loaded' \subseteq Languages, tree' \subseteq Documents,
         thread' \in [Threads -> ThreadRecord],
         \A t \in Threads : thread'[t].at # "idle" => thread'[t].language \in Languages,
         \A t \in Threads : /\ thread'[t].doc \in {None, d, thread[t].doc}
                            /\ thread'[t].doc = d => p = "parsing",
         \A t, u \in Threads : thread'[t].doc = d /\ thread'[u].doc = d => t = u
  PROVE  HandlerInv'
<1> USE NoneApart
<1>1. /\ pc' \in [Documents -> Pcs] /\ pc'[d] = p
      /\ \A e \in Documents \ {d} : pc'[e] = pc[e]
      /\ language' \in [Documents -> Languages \cup {None}] /\ language'[d] = l
      /\ \A e \in Documents \ {d} : language'[e] = language[e]
  BY DEF HandlerInv, HandlerTypes, Goto
<1>2. HandlerTypes'
  <2>1. installing' \subseteq Languages
    BY DEF HandlerInv, HandlerTypes
  <2>2. QED
    BY <1>1, <2>1 DEF HandlerTypes
<1>3. LanguagesKnown'
  BY <1>1 DEF HandlerInv, LanguagesKnown
<1>4. HandlersWait'
  <2>1. ASSUME NEW t \in Threads, thread'[t].doc # None
        PROVE  pc'[thread'[t].doc] = "parsing"
    <3>1. CASE thread'[t].doc = d
      BY <1>1, <3>1
    <3>2. CASE thread'[t].doc # d
      <4>1. thread'[t].doc = thread[t].doc
        BY <2>1, <3>2
      <4>2. pc[thread[t].doc] = "parsing" /\ thread[t].doc \in Documents
        BY <2>1, <4>1 DEF HandlerInv, HandlersWait, HandlerTypes, ThreadRecord
      <4>3. QED
        BY <1>1, <3>2, <4>1, <4>2
    <3>3. QED
      BY <3>1, <3>2
  <2>2. ASSUME NEW t \in Threads, NEW u \in Threads,
               thread'[t].doc # None, thread'[t].doc = thread'[u].doc
        PROVE  t = u
    <3>1. CASE thread'[t].doc = d
      BY <2>2, <3>1
    <3>2. CASE thread'[t].doc # d
      BY <2>2, <3>2 DEF HandlerInv, HandlersWait
    <3>3. QED
      BY <3>1, <3>2
  <2>3. QED
    BY <2>1, <2>2 DEF HandlersWait
<1>5. MarksOwned'
  <2>1. CASE p # "installing" /\ pc[d] # "installing" /\ UNCHANGED installing
    BY <1>1, <2>1 DEF HandlerInv, MarksOwned
  <2>2. CASE /\ p = "installing" /\ pc[d] # "installing"
             /\ l \notin installing /\ installing' = installing \cup {l}
    BY <1>1, <2>2 DEF HandlerInv, MarksOwned
  <2>3. CASE /\ p # "installing" /\ pc[d] = "installing"
             /\ installing' = installing \ {language[d]}
    BY <1>1, <2>3 DEF HandlerInv, MarksOwned
  <2>4. QED
    BY <2>1, <2>2, <2>3
<1>6. QED
  BY <1>2, <1>3, <1>4, <1>5 DEF HandlerInv

(* The threads are as they were, and the handler waits for none.           *)
LEMMA ThreadsStay ==
  ASSUME HandlerInv, UNCHANGED thread, NEW d \in Documents, pc[d] # "parsing"
  PROVE  /\ thread' \in [Threads -> ThreadRecord]
         /\ \A t \in Threads : thread'[t].at # "idle" => thread'[t].language \in Languages
         /\ \A t \in Threads : thread'[t].doc = thread[t].doc /\ thread'[t].doc # d
BY NoneApart DEF HandlerInv, HandlerTypes, LanguagesKnown, HandlersWait

LEMMA ParseHandler ==
  ASSUME HandlerInv, NEW d \in Documents, NEW l \in Languages, ParseDocument(d, l),
         pc[d] # "parsing", UNCHANGED parser_file,
         \/ pc[d] # "installing" /\ UNCHANGED installing
         \/ pc[d] = "installing" /\ installing' = installing \ {language[d]}
  PROVE  HandlerInv'
<1>1. /\ language' = [language EXCEPT ![d] = l] /\ tree' \subseteq Documents
      /\ loaded' \subseteq Languages
      /\ parser_file' \in [Languages -> {"none", "partial", "whole"}]
  BY DEF ParseDocument, Load, HandlerInv, HandlerTypes
<1>2. CASE Spawn(d, l) /\ Goto(d, "parsing")
  <2>1. PICK t \in Threads :
          /\ thread[t] = Idle
          /\ thread' = [thread EXCEPT ![t] = [doc |-> d, language |-> l,
                                              at |-> "spawned"]]
    BY <1>2 DEF Spawn
  <2>2. /\ thread \in [Threads -> ThreadRecord]
        /\ [doc |-> d, language |-> l, at |-> "spawned"] \in ThreadRecord
    BY DEF HandlerInv, HandlerTypes, ThreadRecord
  <2>3. /\ thread' \in [Threads -> ThreadRecord]
        /\ thread'[t].doc = d /\ thread'[t].language = l
        /\ \A u \in Threads \ {t} : thread'[u] = thread[u]
    BY <2>1, <2>2
  <2>4. \A u \in Threads : thread[u].doc # d
    BY NoneApart DEF HandlerInv, HandlersWait
  <2>5. /\ \A u \in Threads : thread'[u].at # "idle" => thread'[u].language \in Languages
        /\ \A u \in Threads : thread'[u].doc \in {None, d, thread[u].doc}
        /\ \A u, v \in Threads : thread'[u].doc = d /\ thread'[v].doc = d => u = v
    BY <2>3, <2>4 DEF HandlerInv, LanguagesKnown
  <2>6. QED
    BY <1>1, <1>2, <2>3, <2>5, MoveHandler DEF Pcs
<1>3. CASE Goto(d, "open") /\ UNCHANGED thread
  <2>1. /\ thread' \in [Threads -> ThreadRecord]
        /\ \A t \in Threads : thread'[t].at # "idle" => thread'[t].language \in Languages
        /\ \A t \in Threads : thread'[t].doc = thread[t].doc /\ thread'[t].doc # d
    BY <1>3, ThreadsStay
  <2>2. "open" \in Pcs
    BY DEF Pcs
  <2>3. QED
    BY <1>1, <1>3, <2>1, <2>2, MoveHandler
<1>4. QED
  BY <1>2, <1>3 DEF ParseDocument

(* A thread goes on, and the handler that waits for it, if it ends.        *)
LEMMA RunHandler ==
  ASSUME HandlerInv, NEW t \in Threads,
         BeginParsing(t) \/ EndParsing(t) \/ ParsePanics(t) \/ RemoveEntry(t)
  PROVE  HandlerInv'
<1>0. thread[t] \in ThreadRecord /\ thread \in [Threads -> ThreadRecord]
  BY DEF HandlerInv, HandlerTypes
<1>1. UNCHANGED installVars
  BY DEF BeginParsing, EndParsing, ParsePanics, RemoveEntry
<1>2. ASSUME NEW results, ThreadEnds(t, results) PROVE HandlerInv'
  <2>1. /\ thread' = [thread EXCEPT ![t] = Idle]
        /\ thread' \in [Threads -> ThreadRecord] /\ thread'[t] = Idle
        /\ \A u \in Threads \ {t} : thread'[u] = thread[u]
    BY <1>0, <1>2, IdleFacts DEF ThreadEnds
  <2>2. \A u \in Threads : thread'[u].at # "idle" => thread'[u].language \in Languages
    BY <2>1, IdleFacts DEF HandlerInv, LanguagesKnown
  <2>3. CASE thread[t].doc = None
    <3>1. UNCHANGED documentVars
      BY <1>2, <2>3 DEF ThreadEnds
    <3>2. HandlerTypes' /\ LanguagesKnown' /\ MarksOwned'
      BY <1>1, <2>1, <2>2, <3>1
      DEF HandlerInv, HandlerTypes, LanguagesKnown, MarksOwned, installVars, documentVars
    <3>3. HandlersWait'
      BY <2>1, <3>1, IdleFacts DEF HandlerInv, HandlersWait, documentVars
    <3>4. QED
      BY <3>2, <3>3 DEF HandlerInv
  <2>4. CASE thread[t].doc # None
    <3>1. PICK d \in Documents : d = thread[t].doc
      BY <1>0, <2>4 DEF ThreadRecord
    <3>2. /\ Goto(d, "open") /\ tree' \in {tree, tree \cup {d}} /\ UNCHANGED language
      BY <1>2, <2>4, <3>1 DEF ThreadEnds
    <3>3. pc[d] = "parsing" /\ language[d] \in Languages
          /\ \A u \in Threads \ {t} : thread[u].doc # d
      BY <3>1, NoneApart DEF HandlerInv, HandlersWait, LanguagesKnown
    <3>4. language' = [language EXCEPT ![d] = language[d]]
      BY <3>2 DEF HandlerInv, HandlerTypes
    <3>5. \A u \in Threads : /\ thread'[u].doc \in {None, d, thread[u].doc}
                             /\ thread'[u].doc # d
      BY <2>1, <3>1, <3>3, IdleFacts, NoneApart
    <3>6. /\ parser_file' \in [Languages -> {"none", "partial", "whole"}]
          /\ loaded' \subseteq Languages /\ tree' \subseteq Documents
      BY <1>1, <3>2 DEF installVars, HandlerInv, HandlerTypes
    <3>7. pc[d] # "installing" /\ UNCHANGED installing
      BY <1>1, <3>3 DEF installVars
    <3>8. QED
      BY <2>1, <2>2, <3>2, <3>3, <3>4, <3>5, <3>6, <3>7, MoveHandler DEF Pcs
  <2>5. QED
    BY <2>3, <2>4
<1>3. ASSUME NEW p \in {"parsing", "removing"}, thread[t].at # "idle",
             thread' = [thread EXCEPT ![t].at = p], UNCHANGED documentVars
      PROVE  HandlerInv'
  <2>1. [thread[t] EXCEPT !.at = p] \in ThreadRecord
    BY <1>0 DEF ThreadRecord
  <2>2. thread' = [thread EXCEPT ![t] = [thread[t] EXCEPT !.at = p]]
    BY <1>3
  <2>3. thread' \in [Threads -> ThreadRecord]
    BY <1>0, <2>1, <2>2
  <2>4. \A u \in Threads : /\ thread'[u].doc = thread[u].doc
                           /\ thread'[u].language = thread[u].language
                           /\ thread'[u].at # "idle" => thread[u].at # "idle"
    BY <1>0, <1>3, <2>2 DEF ThreadRecord
  <2>5. QED
    BY <1>1, <1>3, <2>3, <2>4
    DEF HandlerInv, HandlerTypes, LanguagesKnown, HandlersWait, MarksOwned,
        installVars, documentVars
<1>4. QED
  BY <1>2, <1>3 DEF BeginParsing, EndParsing, ParsePanics, RemoveEntry

LEMMA TimeoutHandler ==
  ASSUME HandlerInv, NEW d \in Documents, ParseTimeout(d) PROVE HandlerInv'
<1>1. /\ pc[d] = "parsing" /\ Goto(d, "open")
      /\ thread' = [t \in Threads |-> IF thread[t].doc = d
                                      THEN [thread[t] EXCEPT !.doc = None]
                                      ELSE thread[t]]
      /\ UNCHANGED <<language, tree, installVars>>
  BY DEF ParseTimeout
<1>2. \A t \in Threads : /\ thread'[t] \in ThreadRecord
                         /\ thread'[t].doc \in {None, thread[t].doc}
                         /\ thread'[t].doc # d
                         /\ thread'[t].language = thread[t].language
                         /\ thread'[t].at = thread[t].at
  <2> SUFFICES ASSUME NEW t \in Threads
               PROVE  /\ thread'[t] \in ThreadRecord
                      /\ thread'[t].doc \in {None, thread[t].doc}
                      /\ thread'[t].doc # d
                      /\ thread'[t].language = thread[t].language
                      /\ thread'[t].at = thread[t].at
    OBVIOUS
  <2>1. thread[t] \in ThreadRecord
    BY DEF HandlerInv, HandlerTypes
  <2>2. CASE thread[t].doc = d
    BY <1>1, <2>1, <2>2, NoneApart DEF ThreadRecord
  <2>3. CASE thread[t].doc # d
    BY <1>1, <2>1, <2>3
  <2>4. QED
    BY <2>2, <2>3
<1>3. thread' \in [Threads -> ThreadRecord]
  BY <1>1, <1>2
<1>4. \A t \in Threads : thread'[t].at # "idle" => thread'[t].language \in Languages
  BY <1>2 DEF HandlerInv, LanguagesKnown
<1>5. /\ language' = [language EXCEPT ![d] = language[d]] /\ language[d] \in Languages
      /\ parser_file' \in [Languages -> {"none", "partial", "whole"}]
      /\ loaded' \subseteq Languages /\ tree' \subseteq Documents
      /\ UNCHANGED installing
  BY <1>1 DEF HandlerInv, HandlerTypes, LanguagesKnown, installVars
<1>6. "open" \in Pcs /\ pc[d] # "installing"
  BY <1>1 DEF Pcs
<1>7. \A t \in Threads : thread'[t].doc \in {None, d, thread[t].doc}
                         /\ thread'[t].doc # d
  BY <1>2
<1>8. Goto(d, "open")
  BY <1>1
<1>9. QED
  BY <1>3, <1>4, <1>5, <1>6, <1>7, <1>8, MoveHandler

(* The handler goes elsewhere without a parse.                             *)
LEMMA StayHandler ==
  ASSUME HandlerInv, NEW d \in Documents, NEW p \in Pcs, p # "parsing",
         NEW l \in Languages \cup {None}, p # "closed" => l \in Languages,
         pc[d] \notin {"parsing", "installing"}, Goto(d, p),
         language' = [language EXCEPT ![d] = l],
         UNCHANGED <<parser_file, loaded, thread>>, tree' \subseteq Documents,
         \/ p # "installing" /\ UNCHANGED installing
         \/ p = "installing" /\ l \notin installing /\ installing' = installing \cup {l}
  PROVE  HandlerInv'
<1>1. /\ thread' \in [Threads -> ThreadRecord]
      /\ \A t \in Threads : thread'[t].at # "idle" => thread'[t].language \in Languages
      /\ \A t \in Threads : thread'[t].doc = thread[t].doc /\ thread'[t].doc # d
  BY ThreadsStay
<1>2. /\ parser_file' \in [Languages -> {"none", "partial", "whole"}]
      /\ loaded' \subseteq Languages
  BY DEF HandlerInv, HandlerTypes
<1>3. QED
  BY <1>1, <1>2, MoveHandler

LEMMA HandlerStep == ASSUME IInv, [Next]_vars PROVE HandlerInv'
<1>0. HandlerInv
  BY DEF IInv
<1>1. ASSUME UNCHANGED <<documentVars, installVars, thread>> PROVE HandlerInv'
  BY <1>0, <1>1 DEF documentVars, installVars, HandlerInv, HandlerTypes, LanguagesKnown,
                    HandlersWait, MarksOwned
<1>2. CASE Record \/ Shutdown \/ Persisted
  BY <1>1, <1>2 DEF Record, Start, MarkFailed, Saved, Marked, Shutdown, Persisted,
                    parseVars
<1>3. CASE Exit
  <2>1. /\ UNCHANGED parser_file /\ installing' = {} /\ loaded' = {}
        /\ pc' = [d \in Documents |-> "closed"] /\ tree' = {}
        /\ language' = [d \in Documents |-> None]
        /\ thread' = [t \in Threads |-> Idle]
    BY <1>3 DEF Exit, Forget, diskVars
  <2>2. HandlerTypes'
    BY <1>0, <2>1, IdleFacts DEF HandlerInv, HandlerTypes, Pcs
  <2>3. LanguagesKnown' /\ HandlersWait' /\ MarksOwned'
    BY <2>1, IdleFacts DEF LanguagesKnown, HandlersWait, MarksOwned
  <2>4. QED
    BY <2>2, <2>3 DEF HandlerInv
<1>4. ASSUME NEW d \in Documents,
             \/ \E l \in Languages : Open(d, l)
             \/ Change(d) \/ Unsupported(d) \/ AlreadyExists(d) \/ InstallEnds(d)
      PROVE  HandlerInv'
  <2>1. PICK l \in Languages :
          /\ ParseDocument(d, l) /\ UNCHANGED parser_file /\ pc[d] # "parsing"
          /\ \/ pc[d] # "installing" /\ UNCHANGED installing
             \/ pc[d] = "installing" /\ installing' = installing \ {language[d]}
    <3>1. pc[d] # "closed" => language[d] \in Languages
      BY <1>0 DEF HandlerInv, LanguagesKnown
    <3>2. QED
      BY <1>4, <3>1 DEF Open, Change, Unsupported, AlreadyExists, InstallEnds,
                        FinishInstall
  <2>2. QED
    BY <1>0, <2>1, ParseHandler
<1>5. ASSUME NEW d \in Documents, NEW l \in Languages, OpenUnknown(d, l)
      PROVE  HandlerInv'
  <2>1. /\ pc[d] = "closed" /\ Goto(d, "checking")
        /\ language' = [language EXCEPT ![d] = l]
        /\ UNCHANGED <<tree, parser_file, installing, loaded, thread>>
    BY <1>5 DEF OpenUnknown, installVars, parseVars
  <2>2. QED
    BY <1>0, <2>1, StayHandler DEF Pcs, HandlerInv, HandlerTypes
<1>6. ASSUME NEW d \in Documents, BeginInstall(d) PROVE HandlerInv'
  <2>1. /\ pc[d] = "checking" /\ Goto(d, "installing")
        /\ language[d] \notin installing
        /\ installing' = installing \cup {language[d]}
        /\ UNCHANGED <<language, tree, parser_file, loaded, thread>>
    BY <1>6 DEF BeginInstall, TryStart, parseVars
  <2>2. language[d] \in Languages /\ language' = [language EXCEPT ![d] = language[d]]
    BY <1>0, <2>1 DEF HandlerInv, HandlerTypes, LanguagesKnown
  <2>3. QED
    BY <1>0, <2>1, <2>2, StayHandler DEF Pcs, HandlerInv, HandlerTypes
<1>7. ASSUME NEW d \in Documents, AlreadyInstalling(d) PROVE HandlerInv'
  <2>1. /\ pc[d] = "checking" /\ Goto(d, "open")
        /\ UNCHANGED <<language, tree, parser_file, installing, loaded, thread>>
    BY <1>7 DEF AlreadyInstalling, installVars, parseVars
  <2>2. language[d] \in Languages /\ language' = [language EXCEPT ![d] = language[d]]
    BY <1>0, <2>1 DEF HandlerInv, HandlerTypes, LanguagesKnown
  <2>3. QED
    BY <1>0, <2>1, <2>2, StayHandler DEF Pcs, HandlerInv, HandlerTypes
<1>8. ASSUME NEW d \in Documents, Close(d) PROVE HandlerInv'
  <2>1. /\ pc[d] = "open" /\ Goto(d, "closed") /\ tree' = tree \ {d}
        /\ language' = [language EXCEPT ![d] = None]
        /\ UNCHANGED <<parser_file, installing, loaded, thread>>
    BY <1>8 DEF Close, installVars, parseVars
  <2>2. tree' \subseteq Documents
    BY <1>0, <2>1 DEF HandlerInv, HandlerTypes
  <2>3. QED
    BY <1>0, <2>1, <2>2, StayHandler DEF Pcs
<1>9. ASSUME NEW d \in Documents, CopyParser(d) PROVE HandlerInv'
  <2>1. /\ parser_file' \in [Languages -> {"none", "partial", "whole"}]
        /\ UNCHANGED <<documentVars, installing, loaded, thread>>
    BY <1>0, <1>9 DEF CopyParser, HandlerInv, HandlerTypes, parseVars
  <2>2. QED
    BY <1>0, <2>1 DEF documentVars, HandlerInv, HandlerTypes, LanguagesKnown,
                      HandlersWait, MarksOwned
<1>10. ASSUME NEW d \in Documents, ParseOnDemand(d) PROVE HandlerInv'
  <2>1. /\ pc[d] = "open" /\ tree' = tree \cup {d} /\ Load(language[d])
        /\ UNCHANGED <<pc, language, parser_file, installing, thread>>
    BY <1>10 DEF ParseOnDemand, parseVars
  <2>2. loaded' \subseteq Languages /\ tree' \subseteq Documents
    BY <1>0, <2>1 DEF Load, HandlerInv, HandlerTypes, LanguagesKnown
  <2>3. QED
    BY <1>0, <2>1, <2>2 DEF HandlerInv, HandlerTypes, LanguagesKnown, HandlersWait,
                            MarksOwned
<1>11. ASSUME NEW d \in Documents, Client(d) \/ Handle(d) \/ CopyParser(d)
       PROVE  HandlerInv'
  BY <1>0, <1>4, <1>5, <1>6, <1>7, <1>8, <1>9, <1>10, <1>11, TimeoutHandler
     DEF Client, Handle
<1>12. ASSUME NEW t \in Threads, RunThread(t) PROVE HandlerInv'
  BY <1>0, <1>12, RunHandler DEF RunThread
<1>13. CASE UNCHANGED vars
  BY <1>1, <1>13 DEF vars, parseVars
<1>14. QED
  BY <1>2, <1>3, <1>11, <1>12, <1>13 DEF Next
-----------------------------------------------------------------------------
(* The counts. Where a thread goes on, what is counted changes by it.      *)
LEMMA Mod == ASSUME NEW n \in Nat, NEW m \in Nat, n < m PROVE n % m = n
  OBVIOUS

LEMMA ModRange == ASSUME NEW n \in Int, NEW m \in Nat, m > 0 PROVE n % m \in 0..(m - 1)
  OBVIOUS

(* Other steps leave the parses that are counted as they are.              *)
LEMMA SameCounts ==
  ASSUME CountInv, UNCHANGED <<parsing_counts, panicked>>,
         \A t \in Threads :
            \/ thread'[t].at = thread[t].at /\ thread'[t].language = thread[t].language
            \/ /\ thread[t].at \in {"idle", "spawned"}
               /\ thread'[t].at \in {"idle", "spawned"}
  PROVE  CountInv'
<1>1. ASSUME NEW l, NEW p \in {"parsing", "removing"} PROVE At(l, p)' = At(l, p)
  BY DEF At
<1>2. ASSUME NEW l \in Languages
      PROVE  At(l, "parsing")' = At(l, "parsing") /\ At(l, "removing")' = At(l, "removing")
  BY <1>1
<1>3. QED
  BY <1>2 DEF CountInv, CountTypes, CountsMeanParses

LEMMA RunCount ==
  ASSUME IInv, NEW t \in Threads,
         BeginParsing(t) \/ EndParsing(t) \/ ParsePanics(t) \/ RemoveEntry(t)
  PROVE  CountInv'
<1>1. PICK l \in Languages : l = thread[t].language
  BY DEF IInv, HandlerInv, LanguagesKnown, BeginParsing, EndParsing, ParsePanics,
         RemoveEntry
<1>2. thread \in [Threads -> ThreadRecord]
      /\ parsing_counts \in [Languages -> 0..(CountRange - 1) \cup {None}]
  BY DEF IInv, HandlerInv, HandlerTypes, CountInv, CountTypes
<1>3. /\ \A u \in Threads \ {t} : thread'[u] = thread[u]
      /\ thread'[t].language \in {l, None}
      /\ \A k \in Languages \ {l} : parsing_counts'[k] = parsing_counts[k]
  BY <1>1, <1>2, IdleFacts
     DEF BeginParsing, EndParsing, ParsePanics, RemoveEntry, ThreadEnds, ThreadRecord
<1>4. ASSUME NEW k \in Languages \ {l}, NEW p PROVE At(k, p)' = At(k, p)
  BY <1>1, <1>3, NoneApart DEF At
<1>5. ASSUME NEW k \in Languages \ {l}, parsing_counts'[k] # None
      PROVE  \/ k \in panicked' \/ At(k, "removing")' # {}
             \/ /\ 1 <= parsing_counts'[k]
                /\ parsing_counts'[k] <= Cardinality(At(k, "parsing")')
  <2>1. At(k, "removing")' = At(k, "removing") /\ At(k, "parsing")' = At(k, "parsing")
    BY <1>4
  <2>2. QED
    BY <1>3, <1>5, <2>1 DEF IInv, CountInv, CountsMeanParses, BeginParsing, EndParsing,
                            ParsePanics, RemoveEntry
<1>6. SUFFICES /\ parsing_counts'[l] \in 0..(CountRange - 1) \cup {None}
               /\ parsing_counts'[l] # None =>
                    \/ l \in panicked' \/ At(l, "removing")' # {}
                    \/ /\ 1 <= parsing_counts'[l]
                       /\ parsing_counts'[l] <= Cardinality(At(l, "parsing")')
  <2>1. DOMAIN parsing_counts' = Languages
        /\ parsing_counts' = [k \in DOMAIN parsing_counts' |-> parsing_counts'[k]]
    BY <1>2 DEF BeginParsing, EndParsing, ParsePanics, RemoveEntry
  <2>2. CountTypes'
    BY <1>2, <1>3, <1>6, <2>1 DEF CountTypes
  <2>3. CountsMeanParses'
    BY <1>5, <1>6 DEF CountsMeanParses
  <2>4. QED
    BY <2>2, <2>3 DEF CountInv
<1>7. PICK C \in Nat : C = Cardinality(At(l, "parsing")) /\ C <= MaxThreads
  BY AtFinite
<1>8. parsing_counts[l] # None /\ At(l, "removing") = {} /\ l \notin panicked =>
         parsing_counts[l] \in Nat /\ 1 <= parsing_counts[l] /\ parsing_counts[l] <= C
  BY <1>2, <1>7 DEF IInv, CountInv, CountsMeanParses
<1>9. MaxThreads \in Nat /\ CountRange \in Nat /\ MaxThreads < CountRange
  BY InstallAssumption
<1>10. CASE BeginParsing(t)
  <2>1. /\ thread[t].at = "spawned" /\ thread'[t].at = "parsing"
        /\ thread'[t].language = l /\ UNCHANGED panicked
        /\ parsing_counts'[l] = IF parsing_counts[l] = None THEN 1
                                ELSE (parsing_counts[l] + 1) % CountRange
    BY <1>1, <1>2, <1>10 DEF BeginParsing, ThreadRecord
  <2>2. At(l, "removing")' = At(l, "removing")
        /\ At(l, "parsing")' = At(l, "parsing") \cup {t} /\ t \notin At(l, "parsing")
    BY <1>3, <2>1 DEF At
  <2>3. Cardinality(At(l, "parsing")') = C + 1
    BY <1>7, <2>2, AtFinite, FS_AddElement
  <2>4. C + 1 <= MaxThreads
    <3>1. IsFiniteSet(Threads) /\ Cardinality(Threads) = MaxThreads
      BY FS_Interval, <1>9 DEF Threads
    <3>2. At(l, "parsing")' \in SUBSET Threads
      BY DEF At
    <3>3. QED
      BY <2>3, <3>1, <3>2, FS_Subset
  <2>5. CASE parsing_counts[l] = None
    BY <1>9, <2>1, <2>3, <2>4, <2>5, NoneApart
  <2>6. CASE parsing_counts[l] # None /\ (At(l, "removing") # {} \/ l \in panicked)
    <3>1. parsing_counts[l] + 1 \in Int
      BY <1>2, <2>6
    <3>2. parsing_counts'[l] \in 0..(CountRange - 1)
      BY <1>9, <2>1, <2>6, <3>1, ModRange
    <3>3. QED
      BY <2>1, <2>2, <2>6, <3>2
  <2>7. CASE parsing_counts[l] # None /\ At(l, "removing") = {} /\ l \notin panicked
    <3>1. /\ parsing_counts[l] + 1 \in Nat /\ parsing_counts[l] + 1 < CountRange
          /\ parsing_counts[l] + 1 <= C + 1 /\ 1 <= parsing_counts[l] + 1
      BY <1>8, <1>9, <2>4, <2>7
    <3>2. parsing_counts'[l] = parsing_counts[l] + 1
      BY <1>9, <2>1, <2>7, <3>1, Mod
    <3>3. QED
      BY <1>9, <2>3, <3>1, <3>2
  <2>8. QED
    BY <2>5, <2>6, <2>7
<1>11. CASE EndParsing(t)
  <2>1. /\ thread[t].at = "parsing" /\ UNCHANGED panicked
        /\ parsing_counts'[l] = IF parsing_counts[l] = None THEN None
                                ELSE Decrement(parsing_counts[l])
        /\ parsing_counts[l] = 1 =>
              thread'[t].at = "removing" /\ thread'[t].language = l
        /\ parsing_counts[l] # 1 => thread'[t] = Idle
    BY <1>1, <1>2, <1>11 DEF EndParsing, ThreadEnds, ThreadRecord
  <2>2. parsing_counts[l] # None =>
           /\ parsing_counts'[l] = (parsing_counts[l] - 1) % CountRange
           /\ parsing_counts'[l] \in 0..(CountRange - 1)
    BY <1>2, <1>9, <2>1, ModRange DEF Decrement
  <2>3. CASE parsing_counts[l] = None
    BY <2>1, <2>3
  <2>4. CASE parsing_counts[l] = 1
    <3>1. t \in At(l, "removing")'
      BY <2>1, <2>4 DEF At
    <3>2. QED
      BY <2>2, <2>4, <3>1, NoneApart
  <2>5. CASE parsing_counts[l] \notin {1, None}
    <3>1. /\ At(l, "removing")' = At(l, "removing")
          /\ At(l, "parsing")' = At(l, "parsing") \ {t} /\ t \in At(l, "parsing")
      BY <1>1, <1>3, <2>1, <2>5, IdleFacts DEF At
    <3>2. CASE At(l, "removing") # {} \/ l \in panicked
      BY <2>1, <2>2, <2>5, <3>1, <3>2
    <3>3. CASE At(l, "removing") = {} /\ l \notin panicked
      <4>1. Cardinality(At(l, "parsing")') = C - 1
        BY <1>7, <3>1, AtFinite, FS_RemoveElement
      <4>2. /\ parsing_counts[l] - 1 \in Nat /\ parsing_counts[l] - 1 < CountRange
            /\ 1 <= parsing_counts[l] - 1 /\ parsing_counts[l] - 1 <= C - 1
        BY <1>7, <1>8, <1>9, <2>5, <3>3
      <4>3. parsing_counts'[l] = parsing_counts[l] - 1
        BY <1>9, <2>2, <2>5, <4>2, Mod
      <4>4. QED
        BY <2>2, <2>5, <4>1, <4>2, <4>3
    <3>4. QED
      BY <3>2, <3>3
  <2>6. QED
    BY <2>3, <2>4, <2>5
<1>12. CASE RemoveEntry(t)
  BY <1>1, <1>2, <1>12 DEF RemoveEntry
<1>13. CASE ParsePanics(t)
  BY <1>1, <1>2, <1>13 DEF ParsePanics
<1>14. QED
  BY <1>10, <1>11, <1>12, <1>13

LEMMA CountStep == ASSUME IInv, [Next]_vars PROVE CountInv'
<1>0. CountInv /\ thread \in [Threads -> ThreadRecord]
  BY DEF IInv, HandlerInv, HandlerTypes
<1>1. ASSUME UNCHANGED <<parsing_counts, thread, panicked>> PROVE CountInv'
  BY <1>0, <1>1, SameCounts
<1>2. CASE Record \/ Shutdown \/ Persisted
  BY <1>1, <1>2 DEF Record, Start, MarkFailed, Saved, Marked, Shutdown, Persisted,
                    parseVars
<1>3. CASE Exit
  BY <1>3 DEF Exit, Forget, CountInv, CountTypes, CountsMeanParses
<1>4. ASSUME NEW d \in Documents, NEW l \in Languages \cup {None}, ParseDocument(d, l)
      PROVE  CountInv'
  <2>1. UNCHANGED <<parsing_counts, panicked>>
    BY <1>4 DEF ParseDocument
  <2>2. CASE Spawn(d, l)
    <3>1. PICK t \in Threads :
            /\ thread[t] = Idle
            /\ thread' = [thread EXCEPT ![t] = [doc |-> d, language |-> l,
                                                at |-> "spawned"]]
      BY <2>2 DEF Spawn
    <3>2. thread[t].at = "idle" /\ thread'[t].at = "spawned"
          /\ \A u \in Threads \ {t} : thread'[u] = thread[u]
      BY <1>0, <3>1, IdleFacts
    <3>3. QED
      BY <1>0, <2>1, <3>2, SameCounts
  <2>3. CASE UNCHANGED thread
    BY <1>1, <2>1, <2>3
  <2>4. QED
    BY <1>4, <2>2, <2>3 DEF ParseDocument
<1>5. ASSUME NEW d \in Documents, ParseTimeout(d) PROVE CountInv'
  <2>1. \A t \in Threads : thread'[t].at = thread[t].at
                           /\ thread'[t].language = thread[t].language
    BY <1>0, <1>5 DEF ParseTimeout, ThreadRecord
  <2>2. UNCHANGED <<parsing_counts, panicked>>
    BY <1>5 DEF ParseTimeout
  <2>3. QED
    BY <1>0, <2>1, <2>2, SameCounts
<1>6. ASSUME NEW d \in Documents, Client(d) \/ Handle(d) \/ CopyParser(d)
      PROVE  CountInv'
  <2>1. language[d] \in Languages \cup {None}
    BY DEF IInv, HandlerInv, HandlerTypes
  <2>2. CASE \/ \E l \in Languages : Open(d, l)
             \/ Change(d) \/ Unsupported(d) \/ AlreadyExists(d) \/ InstallEnds(d)
    BY <1>4, <2>1, <2>2 DEF Open, Change, Unsupported, AlreadyExists, InstallEnds
  <2>3. CASE \/ \E l \in Languages : OpenUnknown(d, l)
             \/ ParseOnDemand(d) \/ Close(d) \/ BeginInstall(d)
             \/ AlreadyInstalling(d) \/ CopyParser(d)
    BY <1>1, <2>3 DEF OpenUnknown, ParseOnDemand, Close, BeginInstall,
                      AlreadyInstalling, CopyParser, parseVars
  <2>4. QED
    BY <1>5, <1>6, <2>2, <2>3 DEF Client, Handle
<1>7. ASSUME NEW t \in Threads, RunThread(t) PROVE CountInv'
  BY <1>7, RunCount DEF RunThread
<1>8. CASE UNCHANGED vars
  BY <1>1, <1>8 DEF vars, parseVars
<1>9. QED
  BY <1>2, <1>3, <1>6, <1>7, <1>8 DEF Next
-----------------------------------------------------------------------------
LEMMA Invariance == Spec => []IInv
<1>1. IInv /\ [Next]_vars => IInv'
  BY RecordStep, HandlerStep, CountStep DEF IInv
<1>2. QED
  BY <1>1, InitIInv, PTL DEF Spec

(* Every variable has its type: a handler has a language, a thread that    *)
(* parses one that is known, and a count stays in the range of its type.   *)
THEOREM TypeCorrect == Spec => []TypeOK
<1>1. IInv => TypeOK
  BY DEF IInv, RecordInv, RecordTypes, HandlerInv, HandlerTypes, Pcs, ThreadRecord,
         CountInv, CountTypes, TypeOK
<1>2. QED
  BY <1>1, Invariance, PTL

(* A language is installed by one handler at a time, and a mark is of an   *)
(* installation that goes on, for any number of documents and languages.   *)
THEOREM InstallationsAreOwned == Spec => []OneInstallation
<1>1. ASSUME IInv PROVE OneInstallation
  <2> SUFFICES ASSUME NEW l \in Languages
               PROVE  Cardinality({d \in Documents : pc[d] = "installing" /\ language[d] = l})
                        = IF l \in installing THEN 1 ELSE 0
    BY DEF OneInstallation
  <2> DEFINE owners == {d \in Documents : pc[d] = "installing" /\ language[d] = l}
  <2>1. CASE l \in installing
    <3>1. PICK d \in owners : TRUE
      BY <1>1, <2>1 DEF IInv, HandlerInv, MarksOwned
    <3>2. owners = {d}
      BY <1>1, <3>1 DEF IInv, HandlerInv, MarksOwned
    <3>3. QED
      BY <2>1, <3>2, FS_Singleton
  <2>2. CASE l \notin installing
    <3>1. owners = {}
      BY <1>1, <2>2 DEF IInv, HandlerInv, MarksOwned
    <3>2. QED
      BY <2>2, <3>1, FS_EmptySet
  <2>3. QED
    BY <2>1, <2>2
<1>2. QED
  BY <1>1, Invariance, PTL

(* While the server runs the list on disk is the one in memory, unless it  *)
(* could not be read or written since the server was started.              *)
THEOREM DiskFollowsMemory == Spec => []DiskIsMemory
<1>1. IInv => DiskIsMemory
  BY DEF IInv, RecordInv, ListAgrees, DiskIsMemory, Up
<1>2. QED
  BY <1>1, Invariance, PTL

(* What the server knows of its languages, together.                       *)
THEOREM InstallationIsSafe == Spec => []InstallSafe
BY TypeCorrect, InstallationsAreOwned, DiskFollowsMemory, PTL DEF InstallSafe

(* A parser is taken for failed only if a server ended while it was        *)
(* parsing, or after a parse with it had panicked: however many threads    *)
(* begin and end parses of a language, an entry that no one is about to    *)
(* remove counts parses that run.                                          *)
THEOREM OnlySuspectsAreMarked == Spec => []OnlySuspectsFail
<1>1. IInv => OnlySuspectsFail
  BY DEF IInv, RecordInv
<1>2. QED
  BY <1>1, Invariance, PTL

(* A recorded parser is in one of the files until it is in the list of     *)
(* those that failed, wherever starts are killed and if the list cannot be *)
(* read or written, for any number of starts.                              *)
THEOREM RecordsAreKept == Spec => RecordKept
<1>1. ASSUME IInv, [Next]_vars, in_progress_file # None, "record" \notin faults',
             server = "up" => faults' = {}, NEW l \in in_progress_file
      PROVE  \/ l \in failed_file'
             \/ in_progress_file' # None /\ l \in in_progress_file'
  <2>1. CASE UNCHANGED in_progress_file
    BY <1>1, <2>1
  <2>2. CASE Marked
    <3>1. /\ server = "marking" /\ lines = {} /\ failed_file' = failed_file
          /\ "record" \notin faults \/ UNCHANGED in_progress_file
      BY <1>1, <2>2 DEF Marked
    <3>2. QED
      BY <1>1, <2>1, <3>1 DEF IInv, RecordInv, RecordMarked
  <2>3. CASE Shutdown
    <3>1. server = "up" /\ (faults = {} \/ UNCHANGED in_progress_file)
      BY <1>1, <2>3 DEF Shutdown
    <3>2. QED
      BY <1>1, <2>1, <3>1 DEF IInv, RecordInv, RecordMarked
  <2>4. CASE Persisted
    <3>1. server = "persisting"
      BY <2>4 DEF Persisted
    <3>2. QED
      BY <1>1, <3>1 DEF IInv, RecordInv, RecordMarked
  <2>5. CASE Next /\ ~Marked /\ ~Shutdown /\ ~Persisted
    <3>1. UNCHANGED in_progress_file
      BY <2>5
      DEF Next, Record, Start, ReadInProgress, StartWithoutRecord, MarkFailed, Saved,
          Exit, Client, Handle, CopyParser, Open, OpenUnknown, Change, ParseOnDemand,
          Close, Unsupported, BeginInstall, AlreadyExists, AlreadyInstalling,
          InstallEnds, ParseTimeout, RunThread, BeginParsing, EndParsing, ParsePanics,
          RemoveEntry, diskVars, recordVars, handlerFrame
    <3>2. QED
      BY <1>1, <3>1
  <2>6. QED
    BY <1>1, <2>1, <2>2, <2>3, <2>4, <2>5 DEF vars, recordVars
<1>2. ASSUME IInv, [Next]_vars
      PROVE  [/\ in_progress_file # None
              /\ "record" \notin faults' /\ (server = "up" => faults' = {})
              => \A l \in in_progress_file :
                   l \in failed_file'
                   \/ (in_progress_file' # None /\ l \in in_progress_file')]_vars
  BY <1>1, <1>2
<1>3. QED
  BY <1>2, Invariance, PTL DEF Spec, RecordKept
=============================================================================
