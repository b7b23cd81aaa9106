---------------------------- MODULE AutoInstall ----------------------------
(***************************************************************************)
(* Parsers that are missing or that crash: their installation while a      *)
(* document is opened (auto_install/manager.rs, in_progress_set.rs,        *)
(* install.rs), and the record of parsers that were in use when a server   *)
(* ended, which survives it (language/failed_parsers.rs).  A server may be *)
(* killed at any time, or by a parser, and is started again.               *)
(*                                                                         *)
(* The handlers run in one task, an action is what one does between two    *)
(* awaits; parses and installations run on threads of their own.  Writing  *)
(* a file is two steps, as std::fs::write truncates it first.  Any reading,*)
(* writing or removing of a file may fail, and a parse may panic.          *)
(***************************************************************************)
EXTENDS Integers, FiniteSets

CONSTANTS
  Documents, Languages,
  MaxThreads,     (* bound on the parses at a time              *)
  MaxSessions,    (* bound on the starts of the server          *)
  CountRange,     (* usize has so many values                   *)
  None

Threads == 1..MaxThreads

ASSUME InstallAssumption ==
  /\ MaxThreads \in Nat /\ MaxSessions \in Nat
  /\ CountRange \in Nat /\ CountRange > MaxThreads
  /\ None \notin Nat /\ None \notin Languages /\ None \notin Documents

VARIABLES
  failed_file,       (* failed_parsers                                      *)
  in_progress_file,  (* parsing_in_progress, None if there is no such file  *)
  parser_file,       (* the library of each language                        *)
  server, session,   (* what the server is at, and how often it was started *)
  lines,             (* what init has yet to mark, persist_state to write   *)
  failed,            (* FailedParserRegistry.failed                         *)
  parsing_counts,    (* FailedParserRegistry.parsing_counts                 *)
  installing,        (* InstallingLanguages                                 *)
  loaded,            (* the languages in the registry                       *)
  pc, language,      (* of each document: what its handler is at            *)
  tree,              (* the documents that have a tree                      *)
  thread,            (* the threads that parse                              *)
  panicked,          (* history: a parse of which panicked in this server   *)
  suspects,          (* history: those counted, rightly, when a server ended *)
  faults             (* history: "list" and "record", if an operation of    *)
                     (* this server on that file failed                     *)

diskVars == <<failed_file, in_progress_file, parser_file>>
recordVars == <<failed_file, in_progress_file, lines, failed, faults>>
serverVars == <<server, session>>
documentVars == <<pc, language, tree>>
installVars == <<parser_file, installing, loaded>>
parseVars == <<parsing_counts, thread, panicked, suspects>>
vars == <<recordVars, serverVars, documentVars, installVars, parseVars>>

Idle == [doc |-> None, language |-> None, at |-> "idle"]

TypeOK ==
  /\ failed_file \subseteq Languages
  /\ in_progress_file = None \/ in_progress_file \subseteq Languages
  /\ parser_file \in [Languages -> {"none", "partial", "whole"}]
  /\ server \in {"down", "marking", "truncated", "clearing", "up", "persisting",
                 "stopping"}
  /\ session \in 0..MaxSessions
  /\ lines \subseteq Languages /\ failed \subseteq Languages
  /\ parsing_counts \in [Languages -> 0..(CountRange - 1) \cup {None}]
  /\ installing \subseteq Languages /\ loaded \subseteq Languages
  /\ pc \in [Documents -> {"closed", "checking", "installing", "parsing", "open"}]
  /\ language \in [Documents -> Languages \cup {None}]
  /\ tree \subseteq Documents
  /\ thread \in [Threads ->
       [doc : Documents \cup {None}, language : Languages \cup {None},
        at : {"idle", "spawned", "parsing", "removing"}]]
  /\ panicked \subseteq Languages /\ suspects \subseteq Languages
  /\ faults \subseteq {"list", "record"}

Init ==
  /\ failed_file = {} /\ in_progress_file = None
  /\ parser_file \in [Languages -> {"none", "whole"}]
  /\ server = "down" /\ session = 0
  /\ lines = {} /\ failed = {} /\ installing = {} /\ loaded = {}
  /\ parsing_counts = [l \in Languages |-> None]
  /\ pc = [d \in Documents |-> "closed"]
  /\ language = [d \in Documents |-> None] /\ tree = {}
  /\ thread = [t \in Threads |-> Idle]
  /\ panicked = {} /\ suspects = {} /\ faults = {}

Up == server \in {"up", "stopping"}
InFlight == {thread[t].language : t \in {u \in Threads :
                                 thread[u].at \in {"parsing", "removing"}}}
-----------------------------------------------------------------------------
(* The record of a start: FailedParserRegistry::init.                      *)

(* Mutant: the file is removed when it was read.                           *)
ReadAndRemove(f) ==
  /\ server' = IF in_progress_file = None THEN "up" ELSE "marking"
  /\ lines' = IF in_progress_file = None THEN {} ELSE in_progress_file
  /\ faults' = f
  /\ in_progress_file' = None

(* What init makes of parsing_in_progress, after the list.  There may be no *)
(* such file, it may be read, or not: then it will be removed unmarked.    *)
ReadInProgress(f) ==
  /\ \/ in_progress_file = None /\ server' = "up" /\ lines' = {} /\ faults' = f
     \/ /\ in_progress_file # None /\ server' = "marking"
        /\ \/ lines' = in_progress_file /\ faults' = f
           \/ lines' = {} /\ faults' = f \cup {"record"}
  /\ UNCHANGED in_progress_file

(* The directory or the list cannot be read: the server goes on without,   *)
(* and with the record as it was.                                          *)
StartWithoutRecord ==
  /\ server' = "up" /\ failed' = {} /\ lines' = {}
  /\ faults' = {"list"}
  /\ UNCHANGED in_progress_file

(* init: it takes a list it cannot see for none.                           *)
Start ==
  /\ server = "down" /\ session < MaxSessions
  /\ session' = session + 1
  /\ \/ failed' = failed_file /\ ReadInProgress({})
     \/ failed' = {} /\ ReadInProgress({"list"})
     \/ StartWithoutRecord
  /\ UNCHANGED <<failed_file, documentVars, installVars, parseVars>>

(* fs::write of the list: it is opened and truncated, or that fails.       *)
Truncate(p) ==
  \/ failed_file' = {} /\ server' = p /\ UNCHANGED faults
  \/ server' = "up" /\ faults' = faults \cup {"list"} /\ UNCHANGED failed_file

(* mark_failed, up to the truncation of the file; an error ends init early. *)
MarkFailed ==
  /\ server = "marking" /\ Truncate("truncated")
  /\ \E l \in lines :
        /\ failed' = failed \cup {l}
        /\ lines' = IF server' = "up" THEN {} ELSE lines \ {l}
  /\ UNCHANGED <<in_progress_file, session, documentVars, installVars, parseVars>>

(* The rest of save_failed_parsers.  It may fail, which ends init early.   *)
Saved ==
  /\ server \in {"truncated", "clearing"}
  /\ \/ failed_file' = failed /\ UNCHANGED <<faults, lines>>
        /\ server' = IF server = "truncated" THEN "marking" ELSE "up"
     \/ server' = "up" /\ faults' = faults \cup {"list"} /\ lines' = {}
        /\ UNCHANGED failed_file
  /\ UNCHANGED <<in_progress_file, failed, session, documentVars, installVars,
                 parseVars>>

(* All is marked: the record is removed, or cannot be.                     *)
Marked ==
  /\ server = "marking" /\ lines = {}
  /\ server' = "up"
  /\ \/ in_progress_file' = None /\ UNCHANGED faults
     \/ faults' = faults \cup {"record"} /\ UNCHANGED in_progress_file
  /\ UNCHANGED <<failed_file, lines, failed, session, documentVars, installVars,
                 parseVars>>
-----------------------------------------------------------------------------
(* The end of a server.                                                    *)

(* persist_state, at the start of a shutdown: nothing waits for parses.    *)
(* It writes the languages that are counted, if there are any.             *)
Shutdown ==
  LET counted == {l \in Languages : parsing_counts[l] # None} IN
  /\ server = "up"
  /\ suspects' = suspects \cup InFlight \cup panicked
  /\ \/ /\ counted # {} /\ server' = "persisting" /\ lines' = counted
        /\ in_progress_file' = {} /\ UNCHANGED faults
     \/ /\ server' = "stopping" /\ UNCHANGED <<in_progress_file, lines>>
        /\ faults' = IF counted = {} THEN faults ELSE faults \cup {"record"}
  /\ UNCHANGED <<failed_file, failed, session, documentVars, installVars,
                 parsing_counts, thread, panicked>>

Persisted ==
  /\ server = "persisting" /\ server' = "stopping" /\ lines' = {}
  /\ \/ in_progress_file' = lines /\ UNCHANGED faults
     \/ faults' = faults \cup {"record"} /\ UNCHANGED in_progress_file
  /\ UNCHANGED <<failed_file, failed, session, documentVars, installVars, parseVars>>

(* What was in memory is gone, and an installation stops where it is.      *)
Forget ==
  /\ lines' = {} /\ failed' = {} /\ installing' = {} /\ loaded' = {}
  /\ parsing_counts' = [l \in Languages |-> None]
  /\ pc' = [d \in Documents |-> "closed"]
  /\ language' = [d \in Documents |-> None] /\ tree' = {}
  /\ thread' = [t \in Threads |-> Idle]

(* It exits, or is killed at any time, by a parser for example: there is   *)
(* no other record of what was being parsed than that of a shutdown.       *)
Exit ==
  /\ server # "down" /\ server' = "down" /\ faults' = {} /\ panicked' = {}
  /\ Forget
  /\ UNCHANGED <<diskVars, session, suspects>>
-----------------------------------------------------------------------------
(* A parse: parse_document and the thread it waits for.                    *)

Goto(d, l) == pc' = [pc EXCEPT ![d] = l]

(* ensure_language_loaded: a library that is there in part cannot be.      *)
Loads(l) == l \in loaded \/ parser_file[l] = "whole"
Load(l) == loaded' = IF Loads(l) THEN loaded \cup {l} ELSE loaded

Spawn(d, l) ==
  \E t \in Threads :
     /\ thread[t] = Idle /\ \A u \in 1..(t - 1) : thread[u] # Idle
     /\ thread' = [thread EXCEPT ![t] = [doc |-> d, language |-> l,
                                         at |-> "spawned"]]

(* parse_document: a parser that has failed is not used, one that is not   *)
(* there cannot be; both ways the document is stored without a tree.       *)
ParseDocument(d, l) ==
  /\ Load(l)
  /\ language' = [language EXCEPT ![d] = l]
  /\ tree' = tree \ {d}
  /\ \/ l \notin failed /\ Loads(l) /\ Spawn(d, l) /\ Goto(d, "parsing")
     \/ (l \in failed \/ ~Loads(l)) /\ Goto(d, "open") /\ UNCHANGED thread
  /\ UNCHANGED <<parsing_counts, panicked, suspects>>

(* begin_parsing, on the thread.                                           *)
BeginParsing(t) ==
  LET l == thread[t].language IN
  /\ thread[t].at = "spawned"
  /\ thread' = [thread EXCEPT ![t].at = "parsing"]
  /\ parsing_counts' =
       [parsing_counts EXCEPT ![l] = IF @ = None THEN 1 ELSE (@ + 1) % CountRange]
  /\ UNCHANGED <<recordVars, serverVars, documentVars, installVars, panicked,
                 suspects>>

(* The thread ends; a handler that still waits for it stores what it gave. *)
ThreadEnds(t, results) ==
  LET d == thread[t].doc IN
  /\ thread' = [thread EXCEPT ![t] = Idle]
  /\ IF d = None THEN UNCHANGED documentVars
     ELSE /\ Goto(d, "open") /\ UNCHANGED language
          /\ \E stored \in results : tree' = IF stored THEN tree \cup {d} ELSE tree

Decrement(n) == (n - 1) % CountRange

(* end_parsing_language, up to the end of the guard of the entry, whose    *)
(* count wraps below 0.                                                    *)
EndParsing(t) ==
  LET l == thread[t].language
      count == parsing_counts[l]
  IN
  /\ thread[t].at = "parsing"
  /\ parsing_counts' =
       [parsing_counts EXCEPT ![l] =
          IF count = None THEN None ELSE Decrement(count)]
  /\ IF count = 1
     THEN thread' = [thread EXCEPT ![t].at = "removing"] /\ UNCHANGED documentVars
     ELSE ThreadEnds(t, BOOLEAN)
  /\ UNCHANGED <<recordVars, serverVars, installVars, panicked, suspects>>

(* Mutant: an entry stays, with a count of 0.                              *)
LeaveZero(t) ==
  /\ thread[t].at = "removing"
  /\ ThreadEnds(t, BOOLEAN)
  /\ UNCHANGED <<recordVars, serverVars, installVars, parsing_counts, panicked,
                 suspects>>

(* It removes the entry, whatever its count is by now.                     *)
RemoveEntry(t) ==
  /\ thread[t].at = "removing"
  /\ parsing_counts' = [parsing_counts EXCEPT ![thread[t].language] = None]
  /\ ThreadEnds(t, BOOLEAN)
  /\ UNCHANGED <<recordVars, serverVars, installVars, panicked, suspects>>

(* A parse panics: end_parsing is passed over, and its count is left over. *)
ParsePanics(t) ==
  /\ thread[t].at = "parsing"
  /\ panicked' = panicked \cup {thread[t].language}
  /\ ThreadEnds(t, {FALSE})
  /\ UNCHANGED <<recordVars, serverVars, installVars, parsing_counts, suspects>>

(* The handler has waited for ten seconds; the thread goes on.             *)
ParseTimeout(d) ==
  /\ Up /\ pc[d] = "parsing"
  /\ Goto(d, "open")
  /\ thread' = [t \in Threads |-> IF thread[t].doc = d
                                  THEN [thread[t] EXCEPT !.doc = None]
                                  ELSE thread[t]]
  /\ UNCHANGED <<recordVars, serverVars, language, tree, installVars,
                 parsing_counts, panicked, suspects>>
-----------------------------------------------------------------------------
(* Handlers.                                                               *)

handlerFrame == <<recordVars, serverVars>>

(* Every handler that may parse will find a thread (a bound).              *)
Room ==
  Cardinality({d \in Documents : pc[d] \in {"checking", "installing"}})
    < Cardinality({t \in Threads : thread[t] = Idle})

(* didOpen of a document whose parser can be loaded, or has failed.        *)
Open(d, l) ==
  /\ server = "up" /\ pc[d] = "closed" /\ Room
  /\ Loads(l) \/ l \in failed
  /\ ParseDocument(d, l)
  /\ UNCHANGED <<handlerFrame, parser_file, installing>>

(* didOpen otherwise: try_install asks whether the language is supported.  *)
OpenUnknown(d, l) ==
  /\ server = "up" /\ pc[d] = "closed" /\ Room
  /\ ~Loads(l) /\ l \notin failed
  /\ Goto(d, "checking") /\ language' = [language EXCEPT ![d] = l]
  /\ UNCHANGED <<handlerFrame, tree, installVars, parseVars>>

(* didChange.                                                              *)
Change(d) ==
  /\ server = "up" /\ pc[d] = "open" /\ Room
  /\ ParseDocument(d, language[d])
  /\ UNCHANGED <<handlerFrame, parser_file, installing>>

Unsupported(d) ==
  /\ Up /\ pc[d] = "checking"
  /\ ParseDocument(d, language[d])
  /\ UNCHANGED <<handlerFrame, parser_file, installing>>

(* Mutant: the set is read, not changed.                                   *)
TryStartAnyway(l) == installing' = installing \cup {l}

TryStart(l) == l \notin installing /\ installing' = installing \cup {l}

(* There is no file of the parser: its installation begins.                *)
BeginInstall(d) ==
  /\ Up /\ pc[d] = "checking" /\ parser_file[language[d]] = "none"
  /\ TryStart(language[d])
  /\ Goto(d, "installing")
  /\ UNCHANGED <<handlerFrame, language, tree, parser_file, loaded, parseVars>>

(* There is one: it is loaded, if that can be.                             *)
AlreadyExists(d) ==
  /\ Up /\ pc[d] = "checking" /\ parser_file[language[d]] # "none"
  /\ language[d] \notin installing
  /\ ParseDocument(d, language[d])
  /\ UNCHANGED <<handlerFrame, parser_file, installing>>

(* Somebody else installs it: the document is not parsed.                  *)
AlreadyInstalling(d) ==
  /\ Up /\ pc[d] = "checking" /\ language[d] \in installing
  /\ Goto(d, "open")
  /\ UNCHANGED <<handlerFrame, language, tree, installVars, parseVars>>

(* The thread that installs copies the library, in two steps.              *)
CopyParser(d) ==
  LET l == language[d] IN
  /\ Up /\ pc[d] = "installing"
  /\ \/ parser_file[l] = "none" /\ parser_file' = [parser_file EXCEPT ![l] = "partial"]
     \/ parser_file[l] = "partial" /\ parser_file' = [parser_file EXCEPT ![l] = "whole"]
  /\ UNCHANGED <<handlerFrame, documentVars, installing, loaded, parseVars>>

FinishInstall(l) == installing' = installing \ {l}

(* Mutant: an installation that fails does not return.                     *)
InstallSucceeds(d) ==
  /\ Up /\ pc[d] = "installing" /\ parser_file[language[d]] = "whole"
  /\ FinishInstall(language[d])
  /\ ParseDocument(d, language[d])
  /\ UNCHANGED <<handlerFrame, parser_file>>

(* It has ended, or failed wherever it was: a parser whose file is there   *)
(* in any form counts as installed and is loaded; the document is parsed.  *)
InstallEnds(d) ==
  /\ Up /\ pc[d] = "installing"
  /\ FinishInstall(language[d])
  /\ ParseDocument(d, language[d])
  /\ UNCHANGED <<handlerFrame, parser_file>>

(* clear_failed, up to the truncation of the file.                         *)
ClearFailed(l) ==
  /\ failed' = failed \ {l}
  /\ \/ l \in failed /\ Truncate("clearing")
     \/ l \notin failed /\ UNCHANGED <<server, failed_file, faults>>

(* A request for tokens parses a document without a tree, uncounted and    *)
(* with a parser that has failed too, which is cleared if that goes well.  *)
ParseOnDemand(d) ==
  LET l == language[d] IN
  /\ server = "up" /\ pc[d] = "open" /\ d \notin tree /\ Loads(l)
  /\ Load(l) /\ tree' = tree \cup {d}
  /\ ClearFailed(l)
  /\ UNCHANGED <<in_progress_file, lines, session, pc, language, parser_file,
                 installing, parseVars>>

Close(d) ==
  /\ server = "up" /\ pc[d] = "open"
  /\ Goto(d, "closed") /\ tree' = tree \ {d}
  /\ language' = [language EXCEPT ![d] = None]
  /\ UNCHANGED <<handlerFrame, installVars, parseVars>>
-----------------------------------------------------------------------------
Handle(d) ==
  \/ Unsupported(d) \/ BeginInstall(d) \/ AlreadyExists(d)
  \/ AlreadyInstalling(d) \/ InstallEnds(d) \/ ParseTimeout(d)

Client(d) ==
  \/ \E l \in Languages : Open(d, l) \/ OpenUnknown(d, l)
  \/ Change(d) \/ ParseOnDemand(d) \/ Close(d)

RunThread(t) ==
  Up /\ (BeginParsing(t) \/ EndParsing(t) \/ ParsePanics(t) \/ RemoveEntry(t))

Record == Start \/ MarkFailed \/ Saved \/ Marked

Next ==
  \/ Record \/ Shutdown \/ Persisted \/ Exit
  \/ \E d \in Documents : Client(d) \/ Handle(d) \/ CopyParser(d)
  \/ \E t \in Threads : RunThread(t)

Spec == Init /\ [][Next]_vars

(* Awaits end: a parse has a timeout, the programs that an installation    *)
(* runs end.  A start goes on with its files, and a shutdown ends.         *)
FairSpec ==
  /\ Spec
  /\ \A d \in Documents : WF_vars(Handle(d))
  /\ \A t \in Threads : WF_vars(RunThread(t))
  /\ WF_vars(MarkFailed) /\ WF_vars(Saved) /\ WF_vars(Marked)
  /\ WF_vars(Persisted)
  /\ WF_vars(server = "stopping" /\ Exit)
-----------------------------------------------------------------------------
(* A language is installed by one handler at a time, and what the set has  *)
(* is being installed: no mark is left that would keep the language from   *)
(* being installed ever after.                                             *)
OneInstallation ==
  \A l \in Languages :
     LET owners == {d \in Documents : pc[d] = "installing" /\ language[d] = l}
     IN Cardinality(owners) = IF l \in installing THEN 1 ELSE 0

(* A parser is taken for failed, in memory or on disk, only if a server    *)
(* ended while it was parsing, or after a parse with it had panicked: no   *)
(* other count is left over, however parses of a language begin and end    *)
(* together, and whatever files cannot be read or written.                 *)
OnlySuspectsFail ==
  /\ failed \cup failed_file \subseteq suspects
  /\ in_progress_file = None \/ in_progress_file \subseteq suspects

(* A parser that a server recorded when it ended is in one of the files    *)
(* until a start has marked it, wherever starts are killed on the way and  *)
(* also if the list cannot be read or written; only not if the record      *)
(* itself cannot be read, or if the next shutdown replaces one that a      *)
(* start had to leave.                                                     *)
RecordKept ==
  [][/\ in_progress_file # None
     /\ "record" \notin faults' /\ (server = "up" => faults' = {})
     => \A l \in in_progress_file :
          l \in failed_file' \/ (in_progress_file' # None /\ l \in in_progress_file')]_vars

(* While the server runs, the list on disk is the one in memory, so that   *)
(* the next server skips the same parsers; if no operation of this server  *)
(* on it failed, whatever failed before and wherever servers were killed.  *)
DiskIsMemory == Up /\ "list" \notin faults => failed = failed_file

(* What the server knows of its languages: the types, the marks of those   *)
(* that are installed, and the list on disk.                               *)
InstallSafe == TypeOK /\ OneInstallation /\ DiskIsMemory

(* Every opening of a document and every change of it ends, or the server  *)
(* does, whoever else installs or parses.                                  *)
EveryOpenEnds ==
  \A d \in Documents :
     pc[d] \in {"checking", "installing", "parsing"} ~>
        pc[d] \in {"open", "closed"}
=============================================================================
