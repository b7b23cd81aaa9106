-------------------------- MODULE VirtualDocuments --------------------------
(***************************************************************************)
(* The virtual documents of one host document and what the downstream      *)
(* servers are told of them: the DocumentTracker                           *)
(* (bridge/pool/document_tracker.rs), the requests that open documents     *)
(* (pool.rs, ensure_document_opened), the forwarding of the client's       *)
(* changes (bridge/text_document/did_change.rs) and the closing of         *)
(* documents (did_close.rs).                                               *)
(*                                                                         *)
(* A step is what happens between two locks of the tracker or the pool.    *)
(* The order queue of a connection is first in, first out, so a message is *)
(* taken as received when it is queued.  The content of a document is the  *)
(* number of the client's change it reflects.                              *)
(***************************************************************************)
EXTENDS Naturals, Sequences

CONSTANTS
  Docs,         (* virtual documents (VirtualDocumentUri) of the host    *)
  Servers,      (* the names of the servers they may be opened on        *)
  Requests,     (* bridge requests, each executed at most once           *)
  MaxChanges,   (* bound: changes of the host document                   *)
  Closers,      (* closings: of invalidated regions or of the whole host *)
  MaxRespawns,  (* bound: respawns of each server                        *)
  None

ASSUME DocumentsAssumption ==
  /\ MaxChanges \in Nat /\ MaxRespawns \in Nat
  /\ None \notin Docs \X Servers

Changes == 1 .. MaxChanges
Copies == Docs \X Servers     (* a document as opened on a server *)

VARIABLES
  (* DocumentTracker *)
  document_versions,  (* of each copy; 0 when there is no entry            *)
  host_to_virtual,    (* the copies to close with the host                 *)
  opened_documents,   (* the documents whose didOpen was sent, to whomever *)
  leaked,             (* history: copies a task registered and was aborted *)
                      (* before it could enter them in the host's map      *)
  (* the pool's connections *)
  ready, generation,  (* is it Ready, and the number of respawns           *)
  received,           (* what its present server was sent, in order        *)
  (* the host document *)
  live,               (* documents whose region exists                     *)
  text,               (* the client's changes so far                       *)
  (* the bridge requests *)
  step, copy, handle, snapshot,
  (* the did_change handlers *)
  todo, forwarding,
  (* the closings *)
  closer, doomed, held, notified,
  (* history *)
  overtaken,          (* changes not yet forwarded when the next one came  *)
  mishaps             (* what went wrong with a copy:                      *)
                      (* "unopened": its didOpen was not queued            *)
                      (* "missed": it was not open yet when a change came  *)
                      (*   by, and its didOpen has an older text           *)
                      (* "lost": a didChange of it did not get through     *)
                      (* "late": a request was under way for it when its   *)
                      (*   region went                                     *)
                      (* "unclosed": its didClose did not get through      *)

trackerVars == <<document_versions, host_to_virtual, opened_documents, leaked>>
connectionVars == <<ready, generation, received>>
hostVars == <<live, text>>
requestVars == <<step, copy, handle, snapshot>>
changeVars == <<todo, forwarding>>
closerVars == <<closer, doomed, held, notified>>
historyVars == <<overtaken, mishaps>>
vars == <<trackerVars, connectionVars, hostVars, requestVars, changeVars,
          closerVars, historyVars>>

Mishaps == {"unopened", "missed", "lost", "late", "unclosed"} \X Copies
Messages == [kind : {"didOpen", "didChange", "didClose", "request"},
             doc : Docs, version : Nat, content : Nat]

(* A handler is between two documents, or carries one.                      *)
Forwardings ==
  {None} \cup [at : {"lookup"}, doc : Docs, server : {None}]
         \cup [at : {"increment"}, doc : Docs, server : Servers]

(* None is what an absent value is; a document carried along is not it.     *)
ASSUME NoneIsNoForwarding ==
  /\ None \notin [at : {"lookup"}, doc : Docs, server : {None}]
  /\ None \notin [at : {"increment"}, doc : Docs, server : Servers]

TypeOK ==
  /\ document_versions \in [Copies -> Nat]
  /\ host_to_virtual \subseteq Copies
  /\ opened_documents \subseteq Docs /\ leaked \subseteq Copies
  /\ ready \in [Servers -> BOOLEAN] /\ generation \in [Servers -> Nat]
  /\ received \in [Servers -> Seq(Messages)]
  /\ live \subseteq Docs /\ text \in Nat
  /\ step \in [Requests -> {"idle", "connecting", "deciding", "checking",
                            "opening", "marking", "requesting", "done", "failed"}]
  /\ copy \in [Requests -> Copies \cup {None}]
  /\ \A r \in Requests : step[r] # "idle" => copy[r] # None
  /\ handle \in [Requests -> Nat] /\ snapshot \in [Requests -> Nat]
  /\ todo \in [Changes -> SUBSET Docs]
  /\ forwarding \in [Changes -> Forwardings]
  /\ closer \in [Closers -> {"idle", "taking", "closing", "done"}]
  /\ doomed \in [Closers -> SUBSET Docs]
  /\ held \in [Closers -> SUBSET Copies]
  /\ notified \in [Closers -> Copies \cup {None}]
  /\ overtaken \subseteq Changes /\ mishaps \subseteq Mishaps

Init ==
  /\ document_versions = [e \in Copies |-> 0]
  /\ host_to_virtual = {} /\ opened_documents = {} /\ leaked = {}
  /\ ready = [s \in Servers |-> TRUE] /\ generation = [s \in Servers |-> 0]
  /\ received = [s \in Servers |-> <<>>]
  /\ live = Docs /\ text = 0
  /\ step = [r \in Requests |-> "idle"] /\ copy = [r \in Requests |-> None]
  /\ handle = [r \in Requests |-> 0] /\ snapshot = [r \in Requests |-> 0]
  /\ todo = [h \in Changes |-> {}] /\ forwarding = [h \in Changes |-> None]
  /\ closer = [k \in Closers |-> "idle"] /\ doomed = [k \in Closers |-> {}]
  /\ held = [k \in Closers |-> {}] /\ notified = [k \in Closers |-> None]
  /\ overtaken = {} /\ mishaps = {}
-----------------------------------------------------------------------------
Msg(k, d, v, c) == [kind |-> k, doc |-> d, version |-> v, content |-> c]

(* Queue a message on a handle of s of generation g.  What is queued on a   *)
(* connection that is no longer the pool's, or not Ready, is lost.          *)
Send(s, g, m) ==
  received' = IF g = generation[s] /\ ready[s]
              THEN [received EXCEPT ![s] = Append(@, m)] ELSE received

(* try_send fails: the queue is full, or closed because the connection is   *)
(* being replaced.                                                          *)
SendFails == UNCHANGED received

Suffer(what, es) == mishaps' = mishaps \cup {what} \X es
SufferIfUnsent(what, e) ==
  IF received' = received THEN Suffer(what, {e}) ELSE UNCHANGED mishaps

InFlight(r) == step[r] \notin {"idle", "done", "failed"}
Forwarding(h) == todo[h] # {} \/ forwarding[h] # None
Closing(k) == closer[k] \in {"taking", "closing"}
Goto(r, next) == step' = [step EXCEPT ![r] = next]
-----------------------------------------------------------------------------
(* A bridge request: its handler reads the region and its content from the  *)
(* document, and only then asks the pool for a connection.                  *)
Begin(r, e) ==
  /\ step[r] = "idle" /\ e[1] \in live
  /\ copy' = [copy EXCEPT ![r] = e]
  /\ snapshot' = [snapshot EXCEPT ![r] = text]
  /\ Goto(r, "connecting")
  /\ UNCHANGED <<trackerVars, connectionVars, hostVars, handle, changeVars,
                 closerVars, historyVars>>

Connect(r) ==
  /\ step[r] = "connecting" /\ ready[copy[r][2]]
  /\ handle' = [handle EXCEPT ![r] = generation[copy[r][2]]]
  /\ Goto(r, "deciding")
  /\ UNCHANGED <<trackerVars, connectionVars, hostVars, copy, snapshot,
                 changeVars, closerVars, historyVars>>

(* should_send_didopen, under the lock of the versions.  The task may be    *)
(* aborted while it waits for the second lock, of the host's map.           *)
DecideDidOpen(r) ==
  /\ step[r] = "deciding"
  /\ IF document_versions[copy[r]] # 0
     THEN /\ Goto(r, "checking")
          /\ UNCHANGED <<document_versions, host_to_virtual, leaked>>
     ELSE /\ document_versions' = [document_versions EXCEPT ![copy[r]] = 1]
          /\ \/ host_to_virtual' = host_to_virtual \cup {copy[r]}
                /\ Goto(r, "opening") /\ UNCHANGED leaked
             \/ UNCHANGED host_to_virtual
                /\ Goto(r, "done") /\ leaked' = leaked \cup {copy[r]}
  /\ UNCHANGED <<opened_documents, connectionVars, hostVars, copy, handle,
                 snapshot, changeVars, closerVars, historyVars>>

(* Mutant: a registered document counts as opened. *)
TakeForOpened(r) ==
  /\ step[r] = "checking"
  /\ Goto(r, "requesting")
  /\ UNCHANGED <<trackerVars, connectionVars, hostVars, copy, handle, snapshot,
                 changeVars, closerVars, historyVars>>

(* is_document_opened: AlreadyOpened or PendingError. *)
CheckOpened(r) ==
  /\ step[r] = "checking"
  /\ Goto(r, IF copy[r][1] \in opened_documents THEN "requesting" ELSE "failed")
  /\ UNCHANGED <<trackerVars, connectionVars, hostVars, copy, handle, snapshot,
                 changeVars, closerVars, historyVars>>

SendDidOpen(r) ==
  /\ step[r] = "opening"
  /\ \/ /\ Send(copy[r][2], handle[r], Msg("didOpen", copy[r][1], 1, snapshot[r]))
        /\ Goto(r, "marking")
        /\ UNCHANGED mishaps
     \/ SendFails /\ Goto(r, "failed") /\ Suffer("unopened", {copy[r]})
  /\ UNCHANGED <<trackerVars, ready, generation, hostVars, copy, handle,
                 snapshot, changeVars, closerVars, overtaken>>

(* Mutant: the document is not marked. *)
LeaveUnmarked(r) ==
  /\ step[r] = "marking"
  /\ Goto(r, "requesting")
  /\ UNCHANGED <<trackerVars, connectionVars, hostVars, copy, handle, snapshot,
                 changeVars, closerVars, historyVars>>

MarkDocumentOpened(r) ==
  /\ step[r] = "marking"
  /\ opened_documents' = opened_documents \cup {copy[r][1]}
  /\ Goto(r, "requesting")
  /\ UNCHANGED <<document_versions, host_to_virtual, leaked, connectionVars, hostVars,
                 copy, handle, snapshot, changeVars, closerVars, historyVars>>

SendRequest(r) ==
  /\ step[r] = "requesting"
  /\ \/ /\ Send(copy[r][2], handle[r], Msg("request", copy[r][1], 0, snapshot[r]))
        /\ Goto(r, "done")
     \/ SendFails /\ Goto(r, "failed")
  /\ UNCHANGED <<trackerVars, ready, generation, hostVars, copy, handle,
                 snapshot, changeVars, closerVars, historyVars>>

Request(r) ==
  \/ \E e \in Copies : Begin(r, e)
  \/ Connect(r) \/ DecideDidOpen(r) \/ CheckOpened(r) \/ SendDidOpen(r)
  \/ MarkDocumentOpened(r) \/ SendRequest(r)
-----------------------------------------------------------------------------
(* forward_didchange_to_opened_docs, in the handler of the client's change *)
(* number h, after its parse.  tower-lsp interleaves several handlers.      *)
Change(h) ==
  /\ text = h - 1
  /\ text' = h
  /\ todo' = [todo EXCEPT ![h] = live]
  /\ overtaken' = overtaken \cup {g \in Changes : Forwarding(g)}
  /\ UNCHANGED <<trackerVars, connectionVars, live, requestVars, forwarding,
                 closerVars, mishaps>>

(* Requests under way that will open the document with an older text.       *)
Behind(h, d) ==
  {r \in Requests : InFlight(r) /\ copy[r][1] = d /\ snapshot[r] < h}

ForwardCheck(h, d) ==
  /\ forwarding[h] = None /\ d \in todo[h]
  /\ todo' = [todo EXCEPT ![h] = @ \ {d}]
  /\ forwarding' =
       IF d \in opened_documents
       THEN [forwarding EXCEPT ![h] = [at |-> "lookup", doc |-> d,
                                       server |-> None]]
       ELSE forwarding
  /\ Suffer("missed", IF d \in opened_documents THEN {}
                      ELSE {copy[r] : r \in Behind(h, d)})
  /\ UNCHANGED <<trackerVars, connectionVars, hostVars, requestVars, closerVars,
                 overtaken>>

At(h, place) == forwarding[h] # None /\ forwarding[h].at = place
Skip(h) == forwarding' = [forwarding EXCEPT ![h] = None]

(* get_server_for_virtual_uri: the first entry of the document found; which *)
(* of several comes first is left open.                                     *)
ForwardLookup(h) ==
  /\ At(h, "lookup")
  /\ \/ \E s \in Servers :
          /\ <<forwarding[h].doc, s>> \in host_to_virtual
          /\ forwarding' = [forwarding EXCEPT
               ![h] = [@ EXCEPT !.at = "increment", !.server = s]]
     \/ /\ \A s \in Servers : <<forwarding[h].doc, s>> \notin host_to_virtual
        /\ Skip(h)
  /\ UNCHANGED <<trackerVars, connectionVars, hostVars, requestVars, todo,
                 closerVars, historyVars>>

(* Mutant: the version stays what it was. *)
ForwardSameVersion(h) ==
  /\ At(h, "increment")
  /\ LET f == forwarding[h]
         v == document_versions[<<f.doc, f.server>>]
     IN \/ v # 0 /\ Send(f.server, generation[f.server],
                        Msg("didChange", f.doc, v, h))
        \/ SendFails
  /\ Skip(h)
  /\ UNCHANGED <<trackerVars, ready, generation, hostVars, requestVars, todo,
                 closerVars, historyVars>>

(* Mutant: the message is not sent. *)
ForwardNothing(h) ==
  /\ At(h, "increment")
  /\ Skip(h)
  /\ UNCHANGED <<trackerVars, connectionVars, hostVars, requestVars, todo,
                 closerVars, historyVars>>

(* increment_document_version, and the message.  The handlers are           *)
(* multiplexed on one task and wait for the pool in turn, so a second one   *)
(* does not come between.  A connection that is not Ready is skipped, and a *)
(* full queue drops the message: the version is taken all the same.         *)
ForwardIncrement(h) ==
  /\ At(h, "increment")
  /\ LET f == forwarding[h]
         e == <<f.doc, f.server>>
         v == document_versions[e] + 1
     IN \/ /\ document_versions[e] # 0
           /\ document_versions' = [document_versions EXCEPT ![e] = v]
           /\ \/ Send(f.server, generation[f.server],
                      Msg("didChange", f.doc, v, h))
              \/ SendFails
           /\ SufferIfUnsent("lost", e)
        \/ /\ document_versions[e] = 0
           /\ UNCHANGED <<document_versions, received, mishaps>>
  /\ Skip(h)
  /\ UNCHANGED <<host_to_virtual, opened_documents, leaked, ready, generation,
                 hostVars, requestVars, todo, closerVars, overtaken>>

Forward(h) ==
  \/ Change(h) \/ \E d \in Docs : ForwardCheck(h, d)
  \/ ForwardLookup(h) \/ ForwardIncrement(h)
-----------------------------------------------------------------------------
(* A closing: the regions go first, then close_host_document or             *)
(* close_invalidated_docs takes their entries out of the host's map.        *)
RemoveRegions(k, D) ==
  /\ closer[k] = "idle" /\ D # {} /\ D \subseteq live
  /\ live' = live \ D
  /\ doomed' = [doomed EXCEPT ![k] = D]
  /\ closer' = [closer EXCEPT ![k] = "taking"]
  /\ Suffer("late", {copy[r] : r \in {q \in Requests : InFlight(q)}}
                    \cap (D \X Servers))
  /\ UNCHANGED <<trackerVars, connectionVars, text, requestVars, changeVars,
                 held, notified, overtaken>>

(* Mutant: the entries are looked up and not removed. *)
LookUpEntries(k) ==
  /\ closer[k] = "taking"
  /\ held' = [held EXCEPT ![k] = {e \in host_to_virtual : e[1] \in doomed[k]}]
  /\ closer' = [closer EXCEPT ![k] = "closing"]
  /\ UNCHANGED <<trackerVars, connectionVars, hostVars, requestVars,
                 changeVars, doomed, notified, historyVars>>

(* remove_host_virtual_docs, remove_matching_virtual_docs *)
TakeEntries(k) ==
  /\ closer[k] = "taking"
  /\ held' = [held EXCEPT ![k] = {e \in host_to_virtual : e[1] \in doomed[k]}]
  /\ host_to_virtual' = {e \in host_to_virtual : e[1] \notin doomed[k]}
  /\ closer' = [closer EXCEPT ![k] = "closing"]
  /\ UNCHANGED <<document_versions, opened_documents, leaked, connectionVars, hostVars,
                 requestVars, changeVars, doomed, notified, historyVars>>

(* send_didclose_notification: errors are logged. *)
SendDidClose(k, e) ==
  /\ closer[k] = "closing" /\ notified[k] = None /\ e \in held[k]
  /\ \/ Send(e[2], generation[e[2]], Msg("didClose", e[1], 0, 0))
     \/ SendFails
  /\ SufferIfUnsent("unclosed", e)
  /\ notified' = [notified EXCEPT ![k] = e]
  /\ UNCHANGED <<trackerVars, ready, generation, hostVars, requestVars,
                 changeVars, closer, doomed, held, overtaken>>

Untrack(k) ==
  /\ notified[k] # None
  /\ document_versions' = [document_versions EXCEPT ![notified[k]] = 0]
  /\ opened_documents' = opened_documents \ {notified[k][1]}
  /\ held' = [held EXCEPT ![k] = @ \ {notified[k]}]
  /\ notified' = [notified EXCEPT ![k] = None]
  /\ UNCHANGED <<host_to_virtual, leaked, connectionVars, hostVars,
                 requestVars, changeVars, closer, doomed, historyVars>>

EndClosing(k) ==
  /\ closer[k] = "closing" /\ held[k] = {}
  /\ closer' = [closer EXCEPT ![k] = "done"]
  /\ UNCHANGED <<trackerVars, connectionVars, hostVars, requestVars,
                 changeVars, doomed, held, notified, historyVars>>

Close(k) ==
  \/ \E D \in SUBSET Docs : RemoveRegions(k, D)
  \/ TakeEntries(k) \/ \E e \in Copies : SendDidClose(k, e)
  \/ Untrack(k) \/ EndClosing(k)
-----------------------------------------------------------------------------
(* The connection fails and the pool replaces it.  Neither touches the      *)
(* tracker.                                                                 *)
Fail(s) ==
  /\ ready[s] /\ generation[s] < MaxRespawns
  /\ ready' = [ready EXCEPT ![s] = FALSE]
  /\ UNCHANGED <<trackerVars, generation, received, hostVars, requestVars,
                 changeVars, closerVars, historyVars>>

Respawn(s) ==
  /\ ~ready[s]
  /\ ready' = [ready EXCEPT ![s] = TRUE]
  /\ generation' = [generation EXCEPT ![s] = @ + 1]
  /\ received' = [received EXCEPT ![s] = <<>>]
  /\ UNCHANGED <<trackerVars, hostVars, requestVars, changeVars, closerVars,
                 historyVars>>

Next ==
  \/ \E r \in Requests : Request(r)
  \/ \E h \in Changes : Forward(h)
  \/ \E k \in Closers : Close(k)
  \/ \E s \in Servers : Fail(s) \/ Respawn(s)

Spec == Init /\ [][Next]_vars
-----------------------------------------------------------------------------
(* The tracker forgets no copy and closes none twice: a copy has a version  *)
(* exactly while the host's map or one closing has it, and a copy that a    *)
(* closing took is neither in the map nor with another closing.  The only   *)
(* copies nobody will close are those of a task aborted between the locks   *)
(* of should_send_didopen.                                                  *)
TrackedByOne ==
  /\ \A e \in Copies :
        document_versions[e] # 0 <=>
          \/ e \in host_to_virtual \cup leaked
          \/ \E k \in Closers : e \in held[k]
  /\ leaked \cap host_to_virtual = {}
  /\ \A k \in Closers : held[k] \cap leaked = {}
  /\ \A k \in Closers : held[k] \cap host_to_virtual = {}
  /\ \A k, l \in Closers : k # l => held[k] \cap held[l] = {}

(* The tracker keeps its types and accounts for every copy.                *)
TrackingSafe == TypeOK /\ TrackedByOne

(* A server is asked about a document, or told of its change, only after    *)
(* the didOpen of the document, whichever of several concurrent requests    *)
(* sends it.  A server that replaced another is not told of the documents   *)
(* its predecessor had open.                                                *)
OpenedFirst ==
  \A s \in {t \in Servers : generation[t] = 0} : \A j \in DOMAIN received[s] :
     received[s][j].kind \in {"request", "didChange"} =>
        \E i \in 1 .. (j - 1) :
           received[s][i].kind = "didOpen" /\ received[s][i].doc = received[s][j].doc

(* A request is refused with "didOpen pending" only while another request   *)
(* is about to open the document; or else until its region goes: when the   *)
(* request that was to open it could not queue the didOpen, or was aborted  *)
(* before it had the second lock.                                           *)
Refused(r) == step[r] = "checking" /\ step'[r] = "failed"
Had(what, e) == <<what, e>> \in mishaps

PendingMeansOpening ==
  [][\A r \in Requests : Refused(r) =>
       \/ \E t \in Requests : step[t] \in {"opening", "marking"}
                              /\ copy[t] = copy[r]
       \/ copy[r] \in leaked \/ Had("unopened", copy[r])
       \/ copy[r][1] \notin live]_vars

(* A server sees a document opened once and the versions of it increase,    *)
(* also after the close, unless a request was under way when its region     *)
(* went; and it sees an older text after a newer one only from a change     *)
(* that was not yet forwarded when the next one came.                       *)
ContentAt(s, d) ==
  {i \in DOMAIN received[s] : /\ received[s][i].doc = d
                              /\ received[s][i].kind \in {"didOpen", "didChange"}}

VersionsIncrease ==
  \A s \in Servers, d \in Docs : \A i, j \in ContentAt(s, d) :
     i < j /\ ~Had("late", <<d, s>>) =>
        /\ received[s][i].version < received[s][j].version
        /\ \/ received[s][i].content <= received[s][j].content
           \/ received[s][j].content \in overtaken

(* When nothing is under way. *)
Quiet ==
  /\ \A r \in Requests : ~InFlight(r)
  /\ \A h \in Changes : ~Forwarding(h)
  /\ \A k \in Closers : ~Closing(k)

(* When all is quiet, a server was sent the client's text of a document     *)
(* last: unless what it has is from an overtaken change, its didOpen had an *)
(* older text than a change that had come by, or a didChange did not get    *)
(* through.                                                                 *)
LastContent(s, d, i) ==
  i \in ContentAt(s, d) /\ \A j \in ContentAt(s, d) : j <= i

CopiesCurrent ==
  Quiet => \A s \in Servers, d \in live : \A i \in DOMAIN received[s] :
     LastContent(s, d, i) =>
        \/ received[s][i].content \in {text} \cup overtaken
        \/ Had("missed", <<d, s>>) \/ Had("lost", <<d, s>>)

OpenAt(s, d) ==
  \E i \in DOMAIN received[s] :
     /\ received[s][i].kind = "didOpen" /\ received[s][i].doc = d
     /\ \A j \in DOMAIN received[s] :
          received[s][j].kind = "didClose" /\ received[s][j].doc = d => j < i

(* When all is quiet, a document whose region is gone is not open at a      *)
(* server: unless a request was under way for it, or its didClose did not   *)
(* get through.                                                             *)
NoOrphans ==
  Quiet => \A s \in Servers, d \in Docs \ live :
     OpenAt(s, d) => Had("late", <<d, s>>) \/ Had("unclosed", <<d, s>>)

(* What the servers are left with.                                          *)
CopiesSettled == CopiesCurrent /\ NoOrphans
=============================================================================
