----------------------- MODULE VirtualDocumentsProofs -----------------------
(***************************************************************************)
(* The safety properties of VirtualDocuments, for any documents, servers,  *)
(* requests, changes and closings, whatever overlaps, fails or is aborted: *)
(* its types and the account of the tracked copies, why a request is       *)
(* refused as pending and which copies are orphaned; and with one server   *)
(* that a document is opened first, and which versions and texts the       *)
(* server is sent of it.                                                   *)
(***************************************************************************)
EXTENDS VirtualDocuments, TLAPS

(* What TrackedByOne rests on: a closing holds copies only while it closes  *)
(* them, and untracks only one of its own.                                  *)
ClosingInv ==
  \A k \in Closers :
     /\ held[k] # {} => closer[k] = "closing"
     /\ notified[k] # None => notified[k] \in held[k]

AccountInv == TrackedByOne /\ ClosingInv

-----------------------------------------------------------------------------
LEMMA InitTypes == Init => TypeOK
  BY DocumentsAssumption
     DEF Init, TypeOK, Copies, Forwardings, Changes, Messages, Mishaps

LEMMA InitAccount == Init => AccountInv
  BY DEF Init, AccountInv, TrackedByOne, ClosingInv, Copies

(* A message keeps the streams well typed. *)
LEMMA SendTypes ==
  ASSUME TypeOK, NEW s \in Servers, NEW g, NEW m \in Messages, Send(s, g, m)
  PROVE  received' \in [Servers -> Seq(Messages)]
<1>1. received[s] \in Seq(Messages) /\ Append(received[s], m) \in Seq(Messages)
  BY DEF TypeOK
<1>2. QED
  BY <1>1 DEF Send, TypeOK

LEMMA CopyTypes ==
  ASSUME TypeOK, NEW r \in Requests, step[r] # "idle"
  PROVE  copy[r] \in Copies /\ copy[r][1] \in Docs /\ copy[r][2] \in Servers
  BY DEF TypeOK, Copies

LEMMA HistoryTypes ==
  ASSUME TypeOK, Next
  PROVE  overtaken' \subseteq Changes /\ mishaps' \subseteq Mishaps
<1> USE DEF historyVars
<1>1. overtaken' \subseteq Changes
  <2>1. ASSUME NEW h \in Changes, Change(h) PROVE overtaken' \subseteq Changes
    BY <2>1 DEF Change, TypeOK
  <2>2. CASE \A h \in Changes : ~Change(h)
    BY <2>2 DEF Next, Request, Begin, Connect, DecideDidOpen, CheckOpened,
                SendDidOpen, MarkDocumentOpened, SendRequest, Forward,
                ForwardCheck, ForwardLookup, ForwardIncrement, Close,
                RemoveRegions, TakeEntries, SendDidClose, Untrack, EndClosing,
                Fail, Respawn, TypeOK
  <2>3. QED
    BY <2>1, <2>2
<1>2. ASSUME NEW es \in SUBSET Copies,
             NEW w \in {"unopened", "missed", "lost", "late", "unclosed"},
             Suffer(w, es)
      PROVE  mishaps' \subseteq Mishaps
  BY <1>2 DEF Suffer, Mishaps, TypeOK
<1>3. ASSUME NEW e \in Copies,
             NEW w \in {"unopened", "missed", "lost", "late", "unclosed"},
             SufferIfUnsent(w, e)
      PROVE  mishaps' \subseteq Mishaps
  BY <1>2, <1>3 DEF SufferIfUnsent, TypeOK
<1>4. \A r \in Requests : step[r] # "idle" => copy[r] \in Copies
  BY CopyTypes
<1>5. ASSUME NEW r \in Requests, SendDidOpen(r) PROVE mishaps' \subseteq Mishaps
  BY <1>2, <1>4, <1>5 DEF SendDidOpen, TypeOK
<1>6. ASSUME NEW h \in Changes, NEW d \in Docs, ForwardCheck(h, d)
      PROVE  mishaps' \subseteq Mishaps
  <2>1. {copy[r] : r \in Behind(h, d)} \subseteq Copies
    BY <1>4 DEF Behind, InFlight
  <2>2. QED
    BY <1>2, <1>6, <2>1 DEF ForwardCheck
<1>7. ASSUME NEW h \in Changes, ForwardIncrement(h) PROVE mishaps' \subseteq Mishaps
  <2>1. <<forwarding[h].doc, forwarding[h].server>> \in Copies
    BY <1>7 DEF ForwardIncrement, At, TypeOK, Forwardings, Copies
  <2>2. QED
    BY <1>3, <1>7, <2>1 DEF ForwardIncrement, TypeOK
<1>8. ASSUME NEW k \in Closers, NEW D \in SUBSET Docs, RemoveRegions(k, D)
      PROVE  mishaps' \subseteq Mishaps
  BY <1>2, <1>8 DEF RemoveRegions, Copies
<1>9. ASSUME NEW k \in Closers, NEW e \in Copies, SendDidClose(k, e)
      PROVE  mishaps' \subseteq Mishaps
  BY <1>3, <1>9 DEF SendDidClose
<1>10. ASSUME UNCHANGED mishaps PROVE mishaps' \subseteq Mishaps
  BY <1>10 DEF TypeOK
<1>11. ASSUME NEW r \in Requests, Request(r), ~SendDidOpen(r)
       PROVE  UNCHANGED mishaps
  BY <1>11 DEF Request, Begin, Connect, DecideDidOpen, CheckOpened,
               MarkDocumentOpened, SendRequest
<1>12. ASSUME NEW h \in Changes, Forward(h), ~ForwardIncrement(h),
              \A d \in Docs : ~ForwardCheck(h, d)
       PROVE  UNCHANGED mishaps
  BY <1>12 DEF Forward, Change, ForwardLookup
<1>13. ASSUME NEW k \in Closers, Close(k), \A D \in SUBSET Docs : ~RemoveRegions(k, D),
              \A e \in Copies : ~SendDidClose(k, e)
       PROVE  UNCHANGED mishaps
  BY <1>13 DEF Close, TakeEntries, Untrack, EndClosing
<1>14. ASSUME NEW s \in Servers, Fail(s) \/ Respawn(s) PROVE UNCHANGED mishaps
  BY <1>14 DEF Fail, Respawn
<1>15. QED
  BY <1>1, <1>5, <1>6, <1>7, <1>8, <1>9, <1>10, <1>11, <1>12, <1>13, <1>14
     DEF Next

LEMMA RequestTypes ==
  ASSUME TypeOK, NEW r \in Requests, Request(r)
  PROVE  TypeOK'
<1>0. overtaken' \subseteq Changes /\ mishaps' \subseteq Mishaps
  BY HistoryTypes DEF Next
<1>1. ASSUME NEW e \in Copies, Begin(r, e) PROVE TypeOK'
  <2>1. e # None
    BY DocumentsAssumption DEF Copies
  <2>2. /\ copy' \in [Requests -> Copies \cup {None}]
        /\ snapshot' \in [Requests -> Nat]
    BY <1>1 DEF Begin, TypeOK
  <2>3. \A t \in Requests : step'[t] # "idle" => copy'[t] # None
    BY <1>1, <2>1 DEF Begin, Goto, TypeOK
  <2>4. QED
    BY <1>0, <1>1, <2>2, <2>3
       DEF Begin, Goto, TypeOK, trackerVars, connectionVars, hostVars,
           changeVars, closerVars
<1>2. CASE Connect(r)
  <2>1. generation[copy[r][2]] \in Nat
    BY <1>2, CopyTypes DEF Connect, TypeOK
  <2>2. QED
    BY <1>0, <1>2, <2>1 DEF Connect, Goto, TypeOK, trackerVars, connectionVars,
                      hostVars, changeVars, closerVars
<1>3. CASE DecideDidOpen(r)
  <2>1. copy[r] \in Copies
    BY <1>3, CopyTypes DEF DecideDidOpen
  <2>2. document_versions' \in [Copies -> Nat]
    <3>1. \/ UNCHANGED document_versions
          \/ document_versions' = [document_versions EXCEPT ![copy[r]] = 1]
      BY <1>3 DEF DecideDidOpen
    <3>2. document_versions \in [Copies -> Nat] /\ 1 \in Nat
      BY DEF TypeOK
    <3>3. QED
      BY <3>1, <3>2, <2>1
  <2>3. host_to_virtual' \subseteq Copies /\ leaked' \subseteq Copies
    <3>1. /\ host_to_virtual' \in {host_to_virtual, host_to_virtual \cup {copy[r]}}
          /\ leaked' \in {leaked, leaked \cup {copy[r]}}
      BY <1>3 DEF DecideDidOpen
    <3>2. QED
      BY <3>1, <2>1 DEF TypeOK
  <2>4. /\ step' \in [Requests -> {"idle", "connecting", "deciding", "checking",
                            "opening", "marking", "requesting", "done", "failed"}]
        /\ \A t \in Requests : step'[t] # "idle" => copy'[t] # None
    BY <1>3 DEF DecideDidOpen, Goto, TypeOK, requestVars
  <2>5. QED
    BY <1>0, <1>3, <2>2, <2>3, <2>4
       DEF DecideDidOpen, TypeOK, connectionVars, hostVars, changeVars,
           closerVars
<1>4. CASE CheckOpened(r)
  BY <1>0, <1>4 DEF CheckOpened, Goto, TypeOK, trackerVars, connectionVars,
              hostVars, changeVars, closerVars
<1>5. CASE SendDidOpen(r)
  <2>1. copy[r][2] \in Servers
        /\ Msg("didOpen", copy[r][1], 1, snapshot[r]) \in Messages
    BY <1>5, CopyTypes DEF SendDidOpen, Msg, Messages, TypeOK
  <2>2. received' \in [Servers -> Seq(Messages)]
    BY <1>5, <2>1, SendTypes DEF SendDidOpen, SendFails, TypeOK
  <2>3. QED
    BY <1>0, <1>5, <2>2 DEF SendDidOpen, Goto, TypeOK, trackerVars, hostVars,
                      changeVars, closerVars
<1>6. CASE MarkDocumentOpened(r)
  BY <1>0, <1>6, CopyTypes
     DEF MarkDocumentOpened, Goto, TypeOK, connectionVars, hostVars,
         changeVars, closerVars
<1>7. CASE SendRequest(r)
  <2>1. copy[r][2] \in Servers
        /\ Msg("request", copy[r][1], 0, snapshot[r]) \in Messages
    BY <1>7, CopyTypes DEF SendRequest, Msg, Messages, TypeOK
  <2>2. received' \in [Servers -> Seq(Messages)]
    BY <1>7, <2>1, SendTypes DEF SendRequest, SendFails, TypeOK
  <2>3. QED
    BY <1>0, <1>7, <2>2 DEF SendRequest, Goto, TypeOK, trackerVars, hostVars,
                      changeVars, closerVars
<1>8. QED
  BY <1>1, <1>2, <1>3, <1>4, <1>5, <1>6, <1>7 DEF Request

LEMMA ForwardTypes ==
  ASSUME TypeOK, NEW h \in Changes, Forward(h)
  PROVE  TypeOK'
<1>0. overtaken' \subseteq Changes /\ mishaps' \subseteq Mishaps
  BY HistoryTypes DEF Next
<1>1. CASE Change(h)
  <2>1. h \in Nat
    BY DocumentsAssumption DEF Changes
  <2>2. text' \in Nat /\ todo' \in [Changes -> SUBSET Docs]
    BY <1>1, <2>1 DEF Change, TypeOK
  <2>3. QED
    BY <1>0, <1>1, <2>2
       DEF Change, TypeOK, trackerVars, connectionVars, requestVars, closerVars
<1>2. ASSUME NEW d \in Docs, ForwardCheck(h, d) PROVE TypeOK'
  <2>1. [at |-> "lookup", doc |-> d, server |-> None] \in Forwardings
    BY DEF Forwardings
  <2>2. /\ forwarding' \in [Changes -> Forwardings]
        /\ todo' \in [Changes -> SUBSET Docs]
    BY <1>2, <2>1 DEF ForwardCheck, TypeOK
  <2>3. QED
    BY <1>0, <1>2, <2>2
       DEF ForwardCheck, TypeOK, trackerVars, connectionVars, hostVars,
           requestVars, closerVars
<1>3. CASE ForwardLookup(h)
  <2>1. forwarding[h] \in [at : {"lookup"}, doc : Docs, server : {None}]
    BY <1>3 DEF ForwardLookup, At, TypeOK, Forwardings
  <2>2. \A s \in Servers :
          [forwarding[h] EXCEPT !.at = "increment", !.server = s] \in Forwardings
    BY <2>1 DEF Forwardings
  <2>3. None \in Forwardings
    BY DEF Forwardings
  <2>4. forwarding' \in [Changes -> Forwardings]
    BY <1>3, <2>2, <2>3 DEF ForwardLookup, Skip, TypeOK
  <2>5. QED
    BY <1>0, <1>3, <2>4 DEF ForwardLookup, TypeOK, trackerVars, connectionVars,
                      hostVars, requestVars, closerVars
<1>4. CASE ForwardIncrement(h)
  <2> DEFINE f == forwarding[h]
             c == <<f.doc, f.server>>
             v == document_versions[c] + 1
  <2>1. f \in [at : {"increment"}, doc : Docs, server : Servers]
    BY <1>4 DEF ForwardIncrement, At, TypeOK, Forwardings
  <2>2. c \in Copies
    BY <2>1 DEF Copies
  <2>3. document_versions \in [Copies -> Nat] /\ v \in Nat
    BY <2>2 DEF TypeOK
  <2>4. Msg("didChange", f.doc, v, h) \in Messages /\ f.server \in Servers
    BY <2>1, <2>3, DocumentsAssumption DEF Msg, Messages, Changes
  <2>5. \/ UNCHANGED <<document_versions, received>>
        \/ /\ document_versions' = [document_versions EXCEPT ![c] = v]
           /\ \/ Send(f.server, generation[f.server], Msg("didChange", f.doc, v, h))
              \/ UNCHANGED received
    BY <1>4 DEF ForwardIncrement, SendFails
  <2>6. document_versions' \in [Copies -> Nat]
    <3> HIDE DEF c, v
    <3>1. QED
      BY <2>2, <2>3, <2>5
  <2>7. received' \in [Servers -> Seq(Messages)]
    BY <2>4, <2>5, SendTypes DEF TypeOK
  <2>8. forwarding' \in [Changes -> Forwardings]
    BY <1>4 DEF ForwardIncrement, Skip, TypeOK, Forwardings
  <2>9. QED
    BY <1>0, <1>4, <2>6, <2>7, <2>8
       DEF ForwardIncrement, TypeOK, hostVars, requestVars, closerVars
<1>6. QED
  BY <1>1, <1>2, <1>3, <1>4 DEF Forward

LEMMA CloseTypes ==
  ASSUME TypeOK, NEW k \in Closers, Close(k)
  PROVE  TypeOK'
<1>0. overtaken' \subseteq Changes /\ mishaps' \subseteq Mishaps
  BY HistoryTypes DEF Next
<1>1. ASSUME NEW D \in SUBSET Docs, RemoveRegions(k, D) PROVE TypeOK'
  BY <1>0, <1>1 DEF RemoveRegions, TypeOK, trackerVars, connectionVars,
              requestVars, changeVars
<1>2. CASE TakeEntries(k)
  <2>1. /\ host_to_virtual' \subseteq Copies
        /\ held' \in [Closers -> SUBSET Copies]
    BY <1>2 DEF TakeEntries, TypeOK
  <2>2. closer' \in [Closers -> {"idle", "taking", "closing", "done"}]
    BY <1>2 DEF TakeEntries, TypeOK
  <2>3. QED
    BY <1>0, <1>2, <2>1, <2>2 DEF TakeEntries, TypeOK, connectionVars, hostVars,
                            requestVars, changeVars
<1>3. ASSUME NEW e \in Copies, SendDidClose(k, e) PROVE TypeOK'
  <2>1. e[2] \in Servers /\ Msg("didClose", e[1], 0, 0) \in Messages
    BY DEF Copies, Msg, Messages
  <2>2. received' \in [Servers -> Seq(Messages)]
    BY <1>3, <2>1, SendTypes DEF SendDidClose, SendFails, TypeOK
  <2>3. QED
    BY <1>0, <1>3, <2>2 DEF SendDidClose, TypeOK, trackerVars, hostVars,
                      requestVars, changeVars
<1>4. CASE Untrack(k)
  <2>1. notified[k] \in Copies
    BY <1>4 DEF Untrack, TypeOK
  <2>2. /\ document_versions' \in [Copies -> Nat]
        /\ opened_documents' \subseteq Docs
        /\ held' \in [Closers -> SUBSET Copies]
        /\ notified' \in [Closers -> Copies \cup {None}]
    BY <1>4, <2>1 DEF Untrack, TypeOK
  <2>3. QED
    BY <1>0, <1>4, <2>2 DEF Untrack, TypeOK, connectionVars, hostVars, requestVars,
                      changeVars
<1>5. CASE EndClosing(k)
  BY <1>0, <1>5 DEF EndClosing, TypeOK, trackerVars, connectionVars, hostVars,
              requestVars, changeVars
<1>6. QED
  BY <1>1, <1>2, <1>3, <1>4, <1>5 DEF Close

LEMMA TypesPreserved == TypeOK /\ [Next]_vars => TypeOK'
<1> SUFFICES ASSUME TypeOK, [Next]_vars PROVE TypeOK'
  OBVIOUS
<1>1. ASSUME NEW s \in Servers, Fail(s) \/ Respawn(s) PROVE TypeOK'
  <2>1. /\ ready' \in [Servers -> BOOLEAN]
        /\ generation' \in [Servers -> Nat]
    <3>1. generation[s] + 1 \in Nat
      BY DEF TypeOK
    <3>2. ready' = [ready EXCEPT ![s] = FALSE] \/ ready' = [ready EXCEPT ![s] = TRUE]
      BY <1>1 DEF Fail, Respawn
    <3>3. \/ UNCHANGED generation
          \/ generation' = [generation EXCEPT ![s] = generation[s] + 1]
      BY <1>1 DEF Fail, Respawn
    <3>4. ready \in [Servers -> BOOLEAN] /\ generation \in [Servers -> Nat]
      BY DEF TypeOK
    <3>5. ready' \in [Servers -> BOOLEAN]
      BY <3>2, <3>4
    <3>6. [generation EXCEPT ![s] = generation[s] + 1] \in [Servers -> Nat]
      BY <3>1, <3>4
    <3>7. QED
      BY <3>3, <3>4, <3>5, <3>6
  <2>2. <<>> \in Seq(Messages)
    OBVIOUS
  <2>3. received' \in [Servers -> Seq(Messages)]
    BY <1>1, <2>2 DEF Fail, Respawn, TypeOK
  <2>4. QED
    BY <1>1, <2>1, <2>3 DEF Fail, Respawn, TypeOK, trackerVars, hostVars,
                            requestVars, changeVars, closerVars, historyVars
<1>2. CASE UNCHANGED vars
  BY <1>2 DEF vars, TypeOK, trackerVars, connectionVars, hostVars,
              requestVars, changeVars, closerVars, historyVars
<1>3. QED
  BY <1>1, <1>2, RequestTypes, ForwardTypes, CloseTypes DEF Next

(* The type of every variable, in every instance. *)
THEOREM DocumentsTypeCorrect == Spec => []TypeOK
<1>1. QED
  BY InitTypes, TypesPreserved, PTL DEF Spec

-----------------------------------------------------------------------------
(* Of the steps, only these four touch the account. *)
LEMMA DecideKeepsAccount ==
  ASSUME TypeOK, AccountInv, NEW r \in Requests, DecideDidOpen(r)
  PROVE  AccountInv'
<1>1. copy[r] \in Copies
  BY CopyTypes DEF DecideDidOpen
<1>2. CASE document_versions[copy[r]] # 0
  BY <1>2 DEF DecideDidOpen, AccountInv, TrackedByOne, ClosingInv, closerVars
<1>3. CASE document_versions[copy[r]] = 0
  <2>1. /\ document_versions' = [document_versions EXCEPT ![copy[r]] = 1]
        /\ \/ /\ host_to_virtual' = host_to_virtual \cup {copy[r]}
              /\ UNCHANGED leaked
           \/ /\ leaked' = leaked \cup {copy[r]}
              /\ UNCHANGED host_to_virtual
        /\ UNCHANGED closerVars
    BY <1>3 DEF DecideDidOpen
  <2>2. /\ \A k \in Closers : copy[r] \notin held[k]
        /\ copy[r] \notin leaked \cup host_to_virtual
    BY <1>1, <1>3 DEF AccountInv, TrackedByOne
  <2>3. QED
    BY <1>1, <2>1, <2>2
       DEF AccountInv, TrackedByOne, ClosingInv, closerVars, TypeOK
<1>4. QED
  BY <1>2, <1>3

LEMMA IncrementKeepsAccount ==
  ASSUME TypeOK, AccountInv, NEW h \in Changes, ForwardIncrement(h)
  PROVE  AccountInv'
<1> DEFINE d == <<forwarding[h].doc, forwarding[h].server>>
<1>1. d \in Copies
  BY DEF ForwardIncrement, At, TypeOK, Forwardings, Copies
<1>2. document_versions[d] \in Nat
  BY <1>1 DEF TypeOK
<1>3. \A c \in Copies : document_versions'[c] # 0 <=> document_versions[c] # 0
  <2>1. CASE document_versions[d] = 0
    BY <2>1 DEF ForwardIncrement
  <2>2. CASE document_versions[d] # 0
    <3>1. document_versions' =
            [document_versions EXCEPT ![d] = document_versions[d] + 1]
      BY <2>2 DEF ForwardIncrement
    <3>2. document_versions[d] + 1 # 0
      BY <1>2
    <3>3. QED
      BY <1>1, <2>2, <3>1, <3>2 DEF TypeOK
  <2>3. QED
    BY <2>1, <2>2
<1>4. UNCHANGED <<host_to_virtual, leaked, closerVars>>
  BY DEF ForwardIncrement
<1>5. QED
  BY <1>3, <1>4 DEF AccountInv, TrackedByOne, ClosingInv, closerVars

LEMMA TakeKeepsAccount ==
  ASSUME TypeOK, AccountInv, NEW k \in Closers, TakeEntries(k)
  PROVE  AccountInv'
<1> DEFINE T == {e \in host_to_virtual : e[1] \in doomed[k]}
<1>1. held[k] = {} /\ notified[k] = None
  BY DEF TakeEntries, AccountInv, ClosingInv
<1>2. /\ held'[k] = T
      /\ \A l \in Closers : l # k => held'[l] = held[l]
      /\ host_to_virtual' = host_to_virtual \ T
      /\ UNCHANGED <<document_versions, notified, leaked>>
  BY DEF TakeEntries, TypeOK
<1>3. closer'[k] = "closing" /\ \A l \in Closers : l # k => closer'[l] = closer[l]
  BY DEF TakeEntries, TypeOK
<1>4. TrackedByOne'
  BY <1>1, <1>2 DEF AccountInv, TrackedByOne
<1>5. ClosingInv'
  BY <1>1, <1>2, <1>3 DEF AccountInv, ClosingInv
<1>6. QED
  BY <1>4, <1>5 DEF AccountInv

LEMMA UntrackKeepsAccount ==
  ASSUME TypeOK, AccountInv, NEW k \in Closers, Untrack(k)
  PROVE  AccountInv'
<1> DEFINE e == notified[k]
<1>1. e \in held[k] /\ e \in Copies
  BY DEF Untrack, AccountInv, ClosingInv, TypeOK
<1>2. /\ e \notin host_to_virtual \cup leaked
      /\ \A l \in Closers : l # k => e \notin held[l]
  BY <1>1 DEF AccountInv, TrackedByOne
<1>3. /\ held'[k] = held[k] \ {e}
      /\ \A l \in Closers : l # k => held'[l] = held[l]
      /\ notified'[k] = None
      /\ \A l \in Closers : l # k => notified'[l] = notified[l]
      /\ document_versions'[e] = 0
      /\ \A c \in Copies : c # e => document_versions'[c] = document_versions[c]
      /\ UNCHANGED <<host_to_virtual, leaked, closer>>
  BY <1>1 DEF Untrack, TypeOK
<1>4. TrackedByOne'
  BY <1>1, <1>2, <1>3 DEF AccountInv, TrackedByOne
<1>5. ClosingInv'
  BY <1>3 DEF AccountInv, ClosingInv
<1>6. QED
  BY <1>4, <1>5 DEF AccountInv

LEMMA AccountPreserved ==
  ASSUME TypeOK, AccountInv, [Next]_vars
  PROVE  AccountInv'
<1> USE DEF AccountInv, TrackedByOne, ClosingInv
<1>1. ASSUME NEW r \in Requests, Request(r) PROVE AccountInv'
  <2>1. CASE DecideDidOpen(r)
    BY <2>1, DecideKeepsAccount
  <2>2. CASE ~DecideDidOpen(r)
    <3>1. UNCHANGED <<document_versions, host_to_virtual, leaked, closerVars>>
      BY <1>1, <2>2 DEF Request, Begin, Connect, CheckOpened, SendDidOpen,
                        MarkDocumentOpened, SendRequest, trackerVars
    <3>2. QED
      BY <3>1 DEF closerVars
  <2>3. QED
    BY <2>1, <2>2
<1>2. ASSUME NEW h \in Changes, Forward(h) PROVE AccountInv'
  <2>1. CASE ForwardIncrement(h)
    BY <2>1, IncrementKeepsAccount
  <2>2. CASE ~ForwardIncrement(h)
    <3>1. UNCHANGED <<document_versions, host_to_virtual, leaked, closerVars>>
      BY <1>2, <2>2 DEF Forward, Change, ForwardCheck, ForwardLookup,
                        trackerVars
    <3>2. QED
      BY <3>1 DEF closerVars
  <2>3. QED
    BY <2>1, <2>2
<1>3. ASSUME NEW k \in Closers, Close(k) PROVE AccountInv'
  <2>1. CASE TakeEntries(k)
    BY <2>1, TakeKeepsAccount
  <2>2. CASE Untrack(k)
    BY <2>2, UntrackKeepsAccount
  <2>3. ASSUME NEW D \in SUBSET Docs, RemoveRegions(k, D) PROVE AccountInv'
    BY <2>3 DEF RemoveRegions, trackerVars, TypeOK
  <2>4. ASSUME NEW e \in Copies, SendDidClose(k, e) PROVE AccountInv'
    BY <2>4 DEF SendDidClose, trackerVars, TypeOK
  <2>5. CASE EndClosing(k)
    BY <2>5 DEF EndClosing, trackerVars, TypeOK
  <2>6. QED
    BY <1>3, <2>1, <2>2, <2>3, <2>4, <2>5 DEF Close
<1>4. ASSUME NEW s \in Servers, Fail(s) \/ Respawn(s) PROVE AccountInv'
  BY <1>4 DEF Fail, Respawn, trackerVars, closerVars
<1>5. CASE UNCHANGED vars
  BY <1>5 DEF vars, trackerVars, closerVars
<1>6. QED
  BY <1>1, <1>2, <1>3, <1>4, <1>5 DEF Next

(* The tracker forgets no copy and no copy is closed twice, but for those   *)
(* of the tasks aborted between the two locks of should_send_didopen.       *)
THEOREM TrackingIsExact == Spec => []TrackedByOne
<1>1. TypeOK /\ AccountInv /\ [Next]_vars => (TypeOK /\ AccountInv)'
  BY AccountPreserved, TypesPreserved
<1>2. Init => TypeOK /\ AccountInv
  BY InitTypes, InitAccount
<1>3. TypeOK /\ AccountInv => TrackedByOne
  BY DEF AccountInv
<1>4. QED
  BY <1>1, <1>2, <1>3, PTL DEF Spec

(* The tracker has its types and accounts for every copy, for any number   *)
(* of documents, servers, requests, changes, closings and respawns.        *)
THEOREM TrackerIsSafe == Spec => []TrackingSafe
BY DocumentsTypeCorrect, TrackingIsExact, PTL DEF TrackingSafe

-----------------------------------------------------------------------------
(* The streams of messages, position by position: p is q and x after it.   *)
Grown(q, p, x) ==
  /\ DOMAIN q = 1 .. Len(q) /\ Len(q) \in Nat
  /\ DOMAIN p = 1 .. Len(q) + 1
  /\ p[Len(q) + 1] = x
  /\ \A i \in DOMAIN q : p[i] = q[i]
  /\ \A i \in DOMAIN p : \/ i = Len(q) + 1 /\ p[i] = x
                         \/ i \in DOMAIN q /\ p[i] = q[i]

LEMMA AppendGrows ==
  ASSUME NEW q \in Seq(Messages), NEW x \in Messages
  PROVE  Grown(q, Append(q, x), x)
<1> DEFINE p == Append(q, x)
<1>1. p \in Seq(Messages) /\ Len(p) = Len(q) + 1 /\ Len(q) \in Nat
  OBVIOUS
<1>2. DOMAIN p = 1 .. Len(q) + 1 /\ DOMAIN q = 1 .. Len(q)
  BY <1>1
<1>3. p[Len(q) + 1] = x /\ \A i \in 1 .. Len(q) : p[i] = q[i]
  OBVIOUS
<1>4. \A i \in 1 .. Len(q) + 1 : i = Len(q) + 1 \/ i \in 1 .. Len(q)
  BY <1>1
<1> HIDE DEF p
<1>5. Grown(q, p, x)
  BY <1>1, <1>2, <1>3, <1>4 DEF Grown
<1>6. QED
  BY <1>5 DEF p

(* What a message sent changes of the streams. *)
LEMMA SendShape ==
  ASSUME TypeOK, NEW s \in Servers, NEW g, NEW m \in Messages, Send(s, g, m)
  PROVE  /\ \A t \in Servers : t # s => received'[t] = received[t]
         /\ \/ received'[s] = received[s] /\ ~(g = generation[s] /\ ready[s])
            \/ Grown(received[s], received'[s], m) /\ g = generation[s] /\ ready[s]
<1>1. CASE g = generation[s] /\ ready[s]
  <2>1. received' = [received EXCEPT ![s] = Append(received[s], m)]
    BY <1>1 DEF Send
  <2>2. /\ received'[s] = Append(received[s], m)
        /\ \A t \in Servers : t # s => received'[t] = received[t]
    BY <2>1 DEF TypeOK
  <2>3. received[s] \in Seq(Messages)
    BY DEF TypeOK
  <2>4. QED
    BY <1>1, <2>2, <2>3, AppendGrows
<1>2. CASE ~(g = generation[s] /\ ready[s])
  BY <1>2 DEF Send
<1>3. QED
  BY <1>1, <1>2

(* The four steps that send m to s. *)
Opening(r, s, m) ==
  /\ SendDidOpen(r) /\ s = copy[r][2] /\ step' = [step EXCEPT ![r] = "marking"]
  /\ handle[r] = generation[s] /\ ready[s]
  /\ m = Msg("didOpen", copy[r][1], 1, snapshot[r])

Asking(r, s, m) ==
  /\ SendRequest(r) /\ s = copy[r][2]
  /\ handle[r] = generation[s] /\ ready[s]
  /\ m = Msg("request", copy[r][1], 0, snapshot[r])

Telling(h, s, m) ==
  /\ ForwardIncrement(h) /\ s = forwarding[h].server /\ ready[s]
  /\ document_versions[<<forwarding[h].doc, s>>] # 0
  /\ document_versions' = [document_versions EXCEPT ![<<forwarding[h].doc, s>>] =
                             document_versions[<<forwarding[h].doc, s>>] + 1]
  /\ m = Msg("didChange", forwarding[h].doc,
             document_versions[<<forwarding[h].doc, s>>] + 1, h)

Shutting(k, e, s, m) ==
  SendDidClose(k, e) /\ s = e[2] /\ ready[s] /\ m = Msg("didClose", e[1], 0, 0)

Sending(s, m) ==
  \/ \E r \in Requests : Opening(r, s, m) \/ Asking(r, s, m)
  \/ \E h \in Changes : Telling(h, s, m)
  \/ \E k \in Closers, e \in Copies : Shutting(k, e, s, m)

LEMMA CarriedTypes ==
  ASSUME TypeOK, NEW h \in Changes, At(h, "increment")
  PROVE  /\ forwarding[h].doc \in Docs /\ forwarding[h].server \in Servers
         /\ <<forwarding[h].doc, forwarding[h].server>> \in Copies
         /\ document_versions[<<forwarding[h].doc, forwarding[h].server>>] \in Nat
         /\ h \in Nat
<1>1. forwarding[h] \in [at : {"increment"}, doc : Docs, server : Servers]
  BY DEF At, TypeOK, Forwardings
<1>2. <<forwarding[h].doc, forwarding[h].server>> \in Copies
  BY <1>1 DEF Copies
<1>3. QED
  BY <1>1, <1>2, DocumentsAssumption DEF TypeOK, Changes

(* A step leaves the stream of a server alone, adds one message to it, or   *)
(* replaces the server.                                                     *)
LEMMA StreamShapes ==
  ASSUME TypeOK, [Next]_vars, NEW s \in Servers
  PROVE  \/ received'[s] = received[s]
         \/ \E m \in Messages : Grown(received[s], received'[s], m) /\ Sending(s, m)
         \/ Respawn(s)
<1> DEFINE Shape == \/ received'[s] = received[s]
                    \/ \E m \in Messages : /\ Grown(received[s], received'[s], m)
                                           /\ Sending(s, m)
                    \/ Respawn(s)
<1>1. ASSUME NEW r \in Requests, Request(r) PROVE Shape
  <2>1. CASE SendDidOpen(r)
    <3> DEFINE m == Msg("didOpen", copy[r][1], 1, snapshot[r])
    <3>1. copy[r][2] \in Servers /\ m \in Messages
      BY <2>1, CopyTypes DEF SendDidOpen, Msg, Messages, TypeOK
    <3>2. CASE received' = received
      BY <3>2
    <3>3. CASE received' # received
      <4>1. Send(copy[r][2], handle[r], m) /\ step' = [step EXCEPT ![r] = "marking"]
        BY <2>1, <3>3 DEF SendDidOpen, SendFails, Goto
      <4>2. CASE s = copy[r][2]
        BY <2>1, <3>1, <4>1, <4>2, SendShape DEF Opening, Sending
      <4>3. CASE s # copy[r][2]
        BY <3>1, <4>1, <4>3, SendShape
      <4>4. QED
        BY <4>2, <4>3
    <3>4. QED
      BY <3>2, <3>3
  <2>2. CASE SendRequest(r)
    <3> DEFINE m == Msg("request", copy[r][1], 0, snapshot[r])
    <3>1. copy[r][2] \in Servers /\ m \in Messages
      BY <2>2, CopyTypes DEF SendRequest, Msg, Messages, TypeOK
    <3>2. CASE received' = received
      BY <3>2
    <3>3. CASE received' # received
      <4>1. Send(copy[r][2], handle[r], m)
        BY <2>2, <3>3 DEF SendRequest, SendFails
      <4>2. CASE s = copy[r][2]
        BY <2>2, <3>1, <4>1, <4>2, SendShape DEF Asking, Sending
      <4>3. CASE s # copy[r][2]
        BY <3>1, <4>1, <4>3, SendShape
      <4>4. QED
        BY <4>2, <4>3
    <3>4. QED
      BY <3>2, <3>3
  <2>3. CASE ~SendDidOpen(r) /\ ~SendRequest(r)
    BY <1>1, <2>3 DEF Request, Begin, Connect, DecideDidOpen, CheckOpened,
                      MarkDocumentOpened, connectionVars
  <2>4. QED
    BY <2>1, <2>2, <2>3
<1>2. ASSUME NEW h \in Changes, Forward(h) PROVE Shape
  <2>1. CASE ForwardIncrement(h)
    <3> DEFINE e == <<forwarding[h].doc, forwarding[h].server>>
               v == document_versions[e] + 1
               m == Msg("didChange", forwarding[h].doc, v, h)
    <3>1. /\ forwarding[h].server \in Servers /\ forwarding[h].doc \in Docs
          /\ v \in Nat /\ h \in Nat
      BY <2>1, CarriedTypes DEF ForwardIncrement
    <3>2. m \in Messages
      BY <3>1 DEF Msg, Messages
    <3>3. CASE received' = received
      BY <3>3
    <3>4. CASE received' # received
      <4>1. /\ Send(forwarding[h].server, generation[forwarding[h].server], m)
            /\ document_versions[e] # 0
            /\ document_versions' = [document_versions EXCEPT ![e] = v]
        BY <2>1, <3>4 DEF ForwardIncrement, SendFails
      <4>2. CASE s = forwarding[h].server
        BY <2>1, <3>1, <3>2, <4>1, <4>2, SendShape DEF Telling, Sending
      <4>3. CASE s # forwarding[h].server
        BY <3>1, <3>2, <4>1, <4>3, SendShape
      <4>4. QED
        BY <4>2, <4>3
    <3>5. QED
      BY <3>3, <3>4
  <2>2. CASE ~ForwardIncrement(h)
    BY <1>2, <2>2 DEF Forward, Change, ForwardCheck, ForwardLookup, connectionVars
  <2>3. QED
    BY <2>1, <2>2
<1>3. ASSUME NEW k \in Closers, Close(k) PROVE Shape
  <2>1. ASSUME NEW e \in Copies, SendDidClose(k, e) PROVE Shape
    <3> DEFINE m == Msg("didClose", e[1], 0, 0)
    <3>1. e[2] \in Servers /\ m \in Messages
      BY DEF Copies, Msg, Messages
    <3>2. CASE received' = received
      BY <3>2
    <3>3. CASE received' # received
      <4>1. Send(e[2], generation[e[2]], m)
        BY <2>1, <3>3 DEF SendDidClose, SendFails
      <4>2. CASE s = e[2]
        BY <2>1, <3>1, <4>1, <4>2, SendShape DEF Shutting, Sending
      <4>3. CASE s # e[2]
        BY <3>1, <4>1, <4>3, SendShape
      <4>4. QED
        BY <4>2, <4>3
    <3>4. QED
      BY <3>2, <3>3
  <2>2. CASE \A e \in Copies : ~SendDidClose(k, e)
    BY <1>3, <2>2 DEF Close, RemoveRegions, TakeEntries, Untrack, EndClosing,
                      connectionVars
  <2>3. QED
    BY <2>1, <2>2
<1>4. ASSUME NEW t \in Servers, Fail(t) \/ Respawn(t) PROVE Shape
  BY <1>4 DEF Fail, Respawn, TypeOK
<1>5. CASE UNCHANGED vars
  BY <1>5 DEF vars, connectionVars
<1>6. QED
  BY <1>1, <1>2, <1>3, <1>4, <1>5 DEF Next

-----------------------------------------------------------------------------
(* What OpenedFirst rests on, while a server has replaced no other: what is *)
(* marked as opened, about to be asked about or about to be told of a       *)
(* change was opened there.                                                 *)
HasOpen(s, d) ==
  \E i \in DOMAIN received[s] :
     received[s][i].kind = "didOpen" /\ received[s][i].doc = d

FirstHandles ==
  \A r \in Requests :
     \/ handle[r] = 0
     \/ step[r] # "idle" /\ generation[copy[r][2]] # 0

OpenInv ==
  \A s \in Servers : generation[s] = 0 /\ ready[s] =>
     /\ \A d \in opened_documents : HasOpen(s, d)
     /\ \A r \in Requests :
           step[r] \in {"marking", "requesting"} /\ copy[r][2] = s
              => HasOpen(s, copy[r][1])
     /\ \A h \in Changes : forwarding[h] # None => HasOpen(s, forwarding[h].doc)

LEMMA InitOpen == Init => FirstHandles /\ OpenInv /\ OpenedFirst
BY DEF Init, FirstHandles, OpenInv, OpenedFirst

(* Generations only grow. *)
LEMMA GenerationsGrow ==
  ASSUME TypeOK, [Next]_vars, NEW s \in Servers
  PROVE  /\ generation'[s] = 0 => generation[s] = 0 /\ ~Respawn(s)
         /\ generation'[s] = 0 /\ ready'[s] => ready[s]
<1>1. ASSUME NEW t \in Servers, Respawn(t)
      PROVE  /\ generation'[s] = 0 => generation[s] = 0 /\ ~Respawn(s)
             /\ generation'[s] = 0 /\ ready'[s] => ready[s]
  <2>1. /\ generation'[t] = generation[t] + 1 /\ generation[t] \in Nat
        /\ \A u \in Servers : u # t => /\ generation'[u] = generation[u]
                                       /\ ready'[u] = ready[u]
    BY <1>1 DEF Respawn, TypeOK
  <2>2. ~ready[t] /\ ready'[t] /\ received'[t] = <<>>
    BY <1>1 DEF Respawn, TypeOK
  <2>3. CASE s = t
    BY <2>1, <2>3
  <2>4. CASE s # t
    <3>1. Respawn(s) => generation'[s] = generation[s] + 1 /\ generation[s] \in Nat
      BY DEF Respawn, TypeOK
    <3>2. QED
      BY <2>1, <2>4, <3>1
  <2>5. QED
    BY <2>3, <2>4
<1>2. CASE ~\E t \in Servers : Respawn(t)
  <2>1. UNCHANGED generation /\ (ready'[s] => ready[s])
    <3> USE DEF connectionVars
    <3>1. ASSUME NEW r \in Requests, Request(r) PROVE UNCHANGED <<generation, ready>>
      BY <3>1 DEF Request, Begin, Connect, DecideDidOpen, CheckOpened,
                  SendDidOpen, MarkDocumentOpened, SendRequest
    <3>2. ASSUME NEW h \in Changes, Forward(h) PROVE UNCHANGED <<generation, ready>>
      BY <3>2 DEF Forward, Change, ForwardCheck, ForwardLookup, ForwardIncrement
    <3>3. ASSUME NEW k \in Closers, Close(k) PROVE UNCHANGED <<generation, ready>>
      BY <3>3 DEF Close, RemoveRegions, TakeEntries, SendDidClose, Untrack,
                  EndClosing
    <3>4. ASSUME NEW t \in Servers, Fail(t)
          PROVE  UNCHANGED generation /\ (ready'[s] => ready[s])
      BY <3>4 DEF Fail, TypeOK
    <3>5. CASE UNCHANGED vars
      BY <3>5 DEF vars
    <3>6. QED
      BY <1>2, <3>1, <3>2, <3>3, <3>4, <3>5 DEF Next
  <2>2. QED
    BY <1>2, <2>1
<1>3. QED
  BY <1>1, <1>2

LEMMA HandlesPreserved ==
  ASSUME TypeOK, FirstHandles, [Next]_vars
  PROVE  FirstHandles'
<1>0. SUFFICES ASSUME NEW r \in Requests
               PROVE  \/ handle'[r] = 0
                      \/ step'[r] # "idle" /\ generation'[copy'[r][2]] # 0
  BY DEF FirstHandles
<1> DEFINE Kept == \/ handle'[r] = 0
                   \/ step'[r] # "idle" /\ generation'[copy'[r][2]] # 0
<1>1. step[r] # "idle" => copy[r][2] \in Servers
  BY CopyTypes
<1>2. \/ handle[r] = 0
      \/ step[r] # "idle" /\ generation[copy[r][2]] # 0
  BY DEF FirstHandles
<1>3. ASSUME UNCHANGED handle,
             step[r] # "idle" => step'[r] # "idle" /\ copy'[r] = copy[r]
      PROVE  Kept
  BY <1>1, <1>2, <1>3, GenerationsGrow
<1>4. ASSUME NEW t \in Requests, Request(t) PROVE Kept
  <2>1. CASE \E e \in Copies : Begin(t, e)
    <3>1. UNCHANGED handle /\ (step[r] # "idle" => step'[r] # "idle" /\ copy'[r] = copy[r])
      BY <2>1 DEF Begin, Goto, TypeOK
    <3>2. QED
      BY <1>3, <3>1
  <2>2. CASE Connect(t)
    <3>1. /\ handle' = [handle EXCEPT ![t] = generation[copy[t][2]]]
          /\ step' = [step EXCEPT ![t] = "deciding"]
          /\ step[t] = "connecting" /\ UNCHANGED <<copy, generation>>
      BY <2>2 DEF Connect, Goto, connectionVars
    <3>2. QED
      BY <1>2, <3>1 DEF TypeOK
  <2>3. CASE Connect(t) \/ \E e \in Copies : Begin(t, e)
    BY <2>1, <2>2, <2>3
  <2>4. CASE ~Connect(t) /\ ~\E e \in Copies : Begin(t, e)
    <3>1. UNCHANGED <<handle, copy>> /\ (step[r] # "idle" => step'[r] # "idle")
      BY <1>4, <2>4
         DEF Request, DecideDidOpen, CheckOpened, SendDidOpen,
             MarkDocumentOpened, SendRequest, Goto, TypeOK
    <3>2. QED
      BY <1>3, <3>1
  <2>5. QED
    BY <2>3, <2>4
<1>5. ASSUME UNCHANGED requestVars PROVE Kept
  BY <1>3, <1>5 DEF requestVars
<1>6. ASSUME NEW h \in Changes, Forward(h) PROVE Kept
  BY <1>5, <1>6 DEF Forward, Change, ForwardCheck, ForwardLookup, ForwardIncrement
<1>7. ASSUME NEW k \in Closers, Close(k) PROVE Kept
  BY <1>5, <1>7 DEF Close, RemoveRegions, TakeEntries, SendDidClose, Untrack,
                    EndClosing
<1>8. ASSUME NEW t \in Servers, Fail(t) \/ Respawn(t) PROVE Kept
  BY <1>5, <1>8 DEF Fail, Respawn
<1>9. CASE UNCHANGED vars
  BY <1>5, <1>9 DEF vars
<1>10. QED
  BY <1>4, <1>6, <1>7, <1>8, <1>9 DEF Next

LEMMA OpensStay ==
  ASSUME TypeOK, [Next]_vars, NEW s \in Servers, NEW d, HasOpen(s, d),
         generation'[s] = 0
  PROVE  HasOpen(s, d)'
<1>1. \/ received'[s] = received[s]
      \/ \E m \in Messages : Grown(received[s], received'[s], m)
  BY StreamShapes, GenerationsGrow
<1>2. CASE received'[s] = received[s]
  BY <1>2 DEF HasOpen
<1>3. ASSUME NEW m \in Messages, Grown(received[s], received'[s], m)
      PROVE  HasOpen(s, d)'
  <2>1. \A i \in DOMAIN received[s] : i \in DOMAIN received'[s]
    BY <1>3 DEF Grown
  <2>2. QED
    BY <1>3, <2>1 DEF HasOpen, Grown
<1>4. QED
  BY <1>1, <1>2, <1>3

(* With one server, the mark of a document speaks of the server the next   *)
(* request goes to.                                                         *)
LEMMA OpenPreserved ==
  ASSUME \A s, t \in Servers : s = t,
         TypeOK, FirstHandles, OpenInv, [Next]_vars
  PROVE  OpenInv'
<1>0. SUFFICES ASSUME NEW s \in Servers, generation'[s] = 0, ready'[s]
               PROVE  /\ \A d \in opened_documents' : HasOpen(s, d)'
                      /\ \A r \in Requests :
                           step'[r] \in {"marking", "requesting"} /\ copy'[r][2] = s
                              => HasOpen(s, copy[r][1])'
                      /\ \A h \in Changes :
                           forwarding'[h] # None => HasOpen(s, forwarding[h].doc)'
  BY DEF OpenInv
<1>1. generation[s] = 0 /\ ready[s]
  BY <1>0, GenerationsGrow
<1>2. /\ \A d \in opened_documents : HasOpen(s, d)
      /\ \A r \in Requests :
           step[r] \in {"marking", "requesting"} /\ copy[r][2] = s
              => HasOpen(s, copy[r][1])
      /\ \A h \in Changes : forwarding[h] # None => HasOpen(s, forwarding[h].doc)
  BY <1>1 DEF OpenInv
<1>3. \A d : HasOpen(s, d) => HasOpen(s, d)'
  BY <1>0, OpensStay
<1> DEFINE O == \A d \in opened_documents' : HasOpen(s, d)'
           R == \A r \in Requests :
                  step'[r] \in {"marking", "requesting"} /\ copy'[r][2] = s
                     => HasOpen(s, copy[r][1])'
           F == \A h \in Changes :
                  forwarding'[h] # None => HasOpen(s, forwarding[h].doc)'
<1>4. ASSUME UNCHANGED requestVars PROVE R
  BY <1>2, <1>3, <1>4 DEF requestVars, HasOpen
<1>5. ASSUME UNCHANGED forwarding PROVE F
  BY <1>2, <1>3, <1>5 DEF HasOpen
<1>6. ASSUME opened_documents' \subseteq opened_documents PROVE O
  BY <1>2, <1>3, <1>6
<1>7. ASSUME NEW r \in Requests, Request(r) PROVE O /\ R /\ F
  <2>1. F
    BY <1>5, <1>7 DEF Request, Begin, Connect, DecideDidOpen, CheckOpened,
                      SendDidOpen, MarkDocumentOpened, SendRequest, changeVars
  <2>2. CASE SendDidOpen(r)
    <3>1. UNCHANGED <<opened_documents, copy>> /\ step[r] = "opening"
          /\ \A t \in Requests : t # r => step'[t] = step[t]
      BY <2>2 DEF SendDidOpen, trackerVars, Goto, TypeOK
    <3>2. ASSUME step'[r] \in {"marking", "requesting"}, copy[r][2] = s
          PROVE  HasOpen(s, copy[r][1])'
      <4> DEFINE m == Msg("didOpen", copy[r][1], 1, snapshot[r])
      <4>1. Send(s, handle[r], m)
        BY <2>2, <3>2 DEF SendDidOpen, Goto, TypeOK
      <4>2. handle[r] = generation[s]
        BY <1>1, <3>1, <3>2 DEF FirstHandles
      <4>3. m \in Messages
        BY <3>1, CopyTypes DEF Msg, Messages, TypeOK
      <4> HIDE DEF m
      <4>4. Grown(received[s], received'[s], m)
        BY <1>1, <4>1, <4>2, <4>3, SendShape
      <4>5. Len(received[s]) + 1 \in DOMAIN received'[s]
            /\ received'[s][Len(received[s]) + 1] = m
        BY <4>4 DEF Grown
      <4>6. m.kind = "didOpen" /\ m.doc = copy[r][1]
        BY DEF m, Msg
      <4>7. QED
        BY <3>1, <4>5, <4>6 DEF HasOpen
    <3>3. R
      BY <1>2, <1>3, <3>1, <3>2 DEF HasOpen
    <3>4. QED
      BY <1>6, <2>1, <3>1, <3>3
  <2>3. CASE MarkDocumentOpened(r)
    <3>1. /\ opened_documents' = opened_documents \cup {copy[r][1]}
          /\ step[r] = "marking" /\ UNCHANGED copy
          /\ \A t \in Requests : t # r => step'[t] = step[t]
      BY <2>3 DEF MarkDocumentOpened, Goto, TypeOK
    <3>2. copy[r][2] = s
      BY <3>1, CopyTypes
    <3>3. HasOpen(s, copy[r][1])
      BY <1>2, <3>1, <3>2
    <3>4. O
      BY <1>2, <1>3, <3>1, <3>3
    <3>5. \A t \in Requests :
            step'[t] \in {"marking", "requesting"} /\ copy[t][2] = s
               => HasOpen(s, copy[t][1])
      BY <1>2, <3>1, <3>2, <3>3
    <3>6. R
      BY <1>3, <3>1, <3>5 DEF HasOpen
    <3>7. QED
      BY <2>1, <3>4, <3>6
  <2>4. CASE CheckOpened(r)
    <3>1. /\ step'[r] \in {"marking", "requesting"} => copy[r][1] \in opened_documents
          /\ UNCHANGED <<opened_documents, copy>>
          /\ \A t \in Requests : t # r => step'[t] = step[t]
      BY <2>4 DEF CheckOpened, Goto, TypeOK, trackerVars
    <3>2. QED
      BY <1>2, <1>3, <1>6, <2>1, <3>1 DEF HasOpen
  <2>5. CASE ~SendDidOpen(r) /\ ~MarkDocumentOpened(r) /\ ~CheckOpened(r)
    <3>1. /\ UNCHANGED opened_documents
          /\ step'[r] \notin {"marking", "requesting"}
          /\ \A t \in Requests : t # r => step'[t] = step[t] /\ copy'[t] = copy[t]
      BY <1>7, <2>5 DEF Request, Begin, Connect, DecideDidOpen, SendRequest,
                        trackerVars, Goto, TypeOK
    <3>2. R
      BY <1>2, <1>3, <3>1 DEF HasOpen
    <3>3. QED
      BY <1>6, <2>1, <3>1, <3>2
  <2>6. QED
    BY <2>2, <2>3, <2>4, <2>5
<1>8. ASSUME NEW h \in Changes, Forward(h) PROVE O /\ R /\ F
  <2>1. O /\ R
    BY <1>4, <1>6, <1>8 DEF Forward, Change, ForwardCheck, ForwardLookup,
                            ForwardIncrement, trackerVars
  <2>2. CASE Change(h)
    BY <1>5, <2>1, <2>2 DEF Change
  <2>3. ASSUME NEW d \in Docs, ForwardCheck(h, d) PROVE F
    <3>1. \/ UNCHANGED forwarding
          \/ /\ d \in opened_documents
             /\ forwarding' = [forwarding EXCEPT
                  ![h] = [at |-> "lookup", doc |-> d, server |-> None]]
      BY <2>3 DEF ForwardCheck
    <3>2. CASE UNCHANGED forwarding
      BY <1>5, <3>2
    <3>3. CASE /\ d \in opened_documents
               /\ forwarding' = [forwarding EXCEPT
                    ![h] = [at |-> "lookup", doc |-> d, server |-> None]]
      <4>1. \A g \in Changes : forwarding'[g] # None =>
              \/ g = h /\ forwarding'[g].doc = d
              \/ forwarding[g] # None /\ forwarding'[g].doc = forwarding[g].doc
        BY <3>3 DEF TypeOK
      <4>2. \A g \in Changes : forwarding'[g] # None => HasOpen(s, forwarding'[g].doc)
        BY <1>2, <3>3, <4>1
      <4>3. QED
        BY <1>3, <4>2 DEF HasOpen
    <3>4. QED
      BY <3>1, <3>2, <3>3
  <2>4. CASE ForwardLookup(h)
    <3>1. \A g \in Changes : forwarding'[g] # None =>
            forwarding[g] # None /\ forwarding'[g].doc = forwarding[g].doc
      <4>1. forwarding[h] # None
            /\ forwarding[h] \in [at : {"lookup"}, doc : Docs, server : {None}]
        BY <2>4 DEF ForwardLookup, At, TypeOK, Forwardings
      <4>2. \/ \E t \in Servers : forwarding' = [forwarding EXCEPT
                 ![h] = [@ EXCEPT !.at = "increment", !.server = t]]
            \/ forwarding' = [forwarding EXCEPT ![h] = None]
        BY <2>4 DEF ForwardLookup, Skip
      <4>3. \A t \in Servers :
              [forwarding[h] EXCEPT !.at = "increment", !.server = t].doc
                = forwarding[h].doc
        BY <4>1
      <4>4. QED
        BY <4>1, <4>2, <4>3 DEF TypeOK
    <3>2. \A g \in Changes : forwarding'[g] # None =>
            HasOpen(s, forwarding[g].doc) /\ forwarding'[g].doc = forwarding[g].doc
      BY <1>2, <3>1
    <3>3. F
      BY <1>3, <3>2 DEF HasOpen
    <3>4. QED
      BY <2>1, <3>3
  <2>5. CASE ForwardIncrement(h)
    <3>1. \A g \in Changes : forwarding'[g] # None => forwarding'[g] = forwarding[g]
      BY <2>5 DEF ForwardIncrement, Skip, TypeOK
    <3>2. \A g \in Changes : forwarding'[g] # None =>
            HasOpen(s, forwarding[g].doc) /\ forwarding'[g].doc = forwarding[g].doc
      BY <1>2, <3>1
    <3>3. F
      BY <1>3, <3>2 DEF HasOpen
    <3>4. QED
      BY <2>1, <3>3
  <2>6. QED
    BY <1>8, <2>1, <2>2, <2>3, <2>4, <2>5 DEF Forward
<1>9. ASSUME NEW k \in Closers, Close(k) PROVE O /\ R /\ F
  <2>1. UNCHANGED <<requestVars, changeVars>>
        /\ opened_documents' \subseteq opened_documents
    BY <1>9 DEF Close, RemoveRegions, TakeEntries, SendDidClose, Untrack,
                EndClosing, trackerVars
  <2>2. QED
    BY <1>4, <1>5, <1>6, <2>1 DEF changeVars
<1>10. ASSUME NEW t \in Servers, Fail(t) \/ Respawn(t) PROVE O /\ R /\ F
  BY <1>4, <1>5, <1>6, <1>10 DEF Fail, Respawn, trackerVars, changeVars
<1>11. CASE UNCHANGED vars
  BY <1>4, <1>5, <1>6, <1>11 DEF vars, trackerVars, changeVars
<1>12. QED
  BY <1>7, <1>8, <1>9, <1>10, <1>11 DEF Next

LEMMA FirstPreserved ==
  ASSUME \A s, t \in Servers : s = t,
         TypeOK, FirstHandles, OpenInv, OpenedFirst, [Next]_vars
  PROVE  OpenedFirst'
<1>0. SUFFICES ASSUME NEW s \in Servers, generation'[s] = 0, NEW j \in DOMAIN received'[s],
                      received'[s][j].kind \in {"request", "didChange"}
               PROVE  \E i \in 1 .. (j - 1) :
                         /\ received'[s][i].kind = "didOpen"
                         /\ received'[s][i].doc = received'[s][j].doc
  BY DEF OpenedFirst
<1>1. generation[s] = 0 /\ ~Respawn(s)
  BY <1>0, GenerationsGrow
<1>2. \A l \in DOMAIN received[s] : received[s][l].kind \in {"request", "didChange"} =>
        \E i \in 1 .. (l - 1) :
           received[s][i].kind = "didOpen" /\ received[s][i].doc = received[s][l].doc
  BY <1>1 DEF OpenedFirst
<1>3. CASE received'[s] = received[s]
  BY <1>0, <1>2, <1>3
<1>4. ASSUME NEW m \in Messages, Grown(received[s], received'[s], m), Sending(s, m)
      PROVE  \E i \in 1 .. (j - 1) : /\ received'[s][i].kind = "didOpen"
                                     /\ received'[s][i].doc = received'[s][j].doc
  <2>0. /\ DOMAIN received[s] = 1 .. Len(received[s]) /\ Len(received[s]) \in Nat
        /\ \A i \in DOMAIN received[s] : received'[s][i] = received[s][i]
    BY <1>4 DEF Grown
  <2>1. CASE j \in DOMAIN received[s]
    <3>1. PICK i \in 1 .. (j - 1) : /\ received[s][i].kind = "didOpen"
                                    /\ received[s][i].doc = received[s][j].doc
      BY <1>0, <1>2, <2>0, <2>1
    <3>2. i \in DOMAIN received[s]
      BY <2>0, <2>1
    <3>3. QED
      BY <2>0, <2>1, <3>1, <3>2
  <2>2. CASE j = Len(received[s]) + 1 /\ received'[s][j] = m
    <3>1. HasOpen(s, m.doc)
      <4>1. CASE \E r \in Requests : Opening(r, s, m)
        BY <1>0, <2>2, <4>1 DEF Opening, Msg
      <4>2. ASSUME NEW r \in Requests, Asking(r, s, m) PROVE HasOpen(s, m.doc)
        BY <1>1, <4>2 DEF Asking, SendRequest, Msg, OpenInv
      <4>3. ASSUME NEW h \in Changes, Telling(h, s, m) PROVE HasOpen(s, m.doc)
        BY <1>1, <4>3 DEF Telling, ForwardIncrement, At, Msg, OpenInv
      <4>4. CASE \E k \in Closers, e \in Copies : Shutting(k, e, s, m)
        BY <1>0, <2>2, <4>4 DEF Shutting, Msg
      <4>5. QED
        BY <1>4, <4>1, <4>2, <4>3, <4>4 DEF Sending
    <3>2. PICK i \in DOMAIN received[s] :
            received[s][i].kind = "didOpen" /\ received[s][i].doc = m.doc
      BY <3>1 DEF HasOpen
    <3>3. i \in 1 .. (j - 1)
      BY <2>0, <2>2, <3>2
    <3>4. QED
      BY <2>0, <2>2, <3>2, <3>3
  <2>3. QED
    BY <1>4, <2>1, <2>2 DEF Grown
<1>5. QED
  BY <1>1, <1>3, <1>4, StreamShapes

(* A server that replaced no other is asked about a document, and told of  *)
(* its change, only after its didOpen, if there is one server: the mark of  *)
(* a document (opened_documents) does not say at which one it is open.      *)
THEOREM DocumentsAreOpenedFirst ==
  ASSUME \A s, t \in Servers : s = t
  PROVE  Spec => []OpenedFirst
<1> DEFINE I == TypeOK /\ FirstHandles /\ OpenInv /\ OpenedFirst
<1>1. Init => I
  BY InitTypes, InitOpen
<1>2. I /\ [Next]_vars => I'
  BY TypesPreserved, HandlesPreserved, OpenPreserved, FirstPreserved
<1>3. QED
  BY <1>1, <1>2, PTL DEF Spec

-----------------------------------------------------------------------------
(* Whose step changes what: of a request, of a handler of a change, of a    *)
(* closing, and of the tracker.                                             *)
LEMMA RequestMoves ==
  ASSUME TypeOK, [Next]_vars, NEW r \in Requests
  PROVE  \/ Request(r)
         \/ /\ step'[r] = step[r] /\ copy'[r] = copy[r]
            /\ snapshot'[r] = snapshot[r] /\ handle'[r] = handle[r]
<1> DEFINE Still == /\ step'[r] = step[r] /\ copy'[r] = copy[r]
                    /\ snapshot'[r] = snapshot[r] /\ handle'[r] = handle[r]
<1>1. ASSUME NEW t \in Requests, Request(t), t # r PROVE Still
  BY <1>1 DEF Request, Begin, Connect, DecideDidOpen, CheckOpened, SendDidOpen,
              MarkDocumentOpened, SendRequest, Goto, TypeOK
<1>2. ASSUME UNCHANGED requestVars PROVE Still
  BY <1>2 DEF requestVars
<1>3. ASSUME NEW h \in Changes, Forward(h) PROVE UNCHANGED requestVars
  BY <1>3 DEF Forward, Change, ForwardCheck, ForwardLookup, ForwardIncrement
<1>4. ASSUME NEW k \in Closers, Close(k) PROVE UNCHANGED requestVars
  BY <1>4 DEF Close, RemoveRegions, TakeEntries, SendDidClose, Untrack, EndClosing
<1>5. ASSUME NEW s \in Servers, Fail(s) \/ Respawn(s) PROVE UNCHANGED requestVars
  BY <1>5 DEF Fail, Respawn
<1>6. CASE UNCHANGED vars
  BY <1>2, <1>6 DEF vars
<1>7. QED
  BY <1>1, <1>2, <1>3, <1>4, <1>5, <1>6 DEF Next

LEMMA ForwardMoves ==
  ASSUME TypeOK, [Next]_vars, NEW h \in Changes
  PROVE  Forward(h) \/ (forwarding'[h] = forwarding[h] /\ todo'[h] = todo[h])
<1>1. ASSUME NEW g \in Changes, Forward(g), g # h
      PROVE  forwarding'[h] = forwarding[h] /\ todo'[h] = todo[h]
  BY <1>1 DEF Forward, Change, ForwardCheck, ForwardLookup, ForwardIncrement,
              Skip, TypeOK
<1>2. ASSUME NEW r \in Requests, Request(r) PROVE UNCHANGED changeVars
  BY <1>2 DEF Request, Begin, Connect, DecideDidOpen, CheckOpened, SendDidOpen,
              MarkDocumentOpened, SendRequest
<1>3. ASSUME NEW k \in Closers, Close(k) PROVE UNCHANGED changeVars
  BY <1>3 DEF Close, RemoveRegions, TakeEntries, SendDidClose, Untrack, EndClosing
<1>4. ASSUME NEW s \in Servers, Fail(s) \/ Respawn(s) PROVE UNCHANGED changeVars
  BY <1>4 DEF Fail, Respawn
<1>5. QED
  BY <1>1, <1>2, <1>3, <1>4 DEF Next, vars, changeVars

LEMMA CloseMoves ==
  ASSUME TypeOK, [Next]_vars, NEW k \in Closers
  PROVE  \/ Close(k)
         \/ /\ closer'[k] = closer[k] /\ doomed'[k] = doomed[k]
            /\ held'[k] = held[k] /\ notified'[k] = notified[k]
<1>1. ASSUME NEW l \in Closers, Close(l), l # k
      PROVE  /\ closer'[k] = closer[k] /\ doomed'[k] = doomed[k]
             /\ held'[k] = held[k] /\ notified'[k] = notified[k]
  BY <1>1 DEF Close, RemoveRegions, TakeEntries, SendDidClose, Untrack,
              EndClosing, TypeOK
<1>2. ASSUME NEW r \in Requests, Request(r) PROVE UNCHANGED closerVars
  BY <1>2 DEF Request, Begin, Connect, DecideDidOpen, CheckOpened, SendDidOpen,
              MarkDocumentOpened, SendRequest
<1>3. ASSUME NEW h \in Changes, Forward(h) PROVE UNCHANGED closerVars
  BY <1>3 DEF Forward, Change, ForwardCheck, ForwardLookup, ForwardIncrement
<1>4. ASSUME NEW s \in Servers, Fail(s) \/ Respawn(s) PROVE UNCHANGED closerVars
  BY <1>4 DEF Fail, Respawn
<1>5. QED
  BY <1>1, <1>2, <1>3, <1>4 DEF Next, vars, closerVars

(* The three steps that change the version of a copy. *)
Registers(r, e) ==
  /\ DecideDidOpen(r) /\ copy[r] = e /\ document_versions[e] = 0
  /\ document_versions'[e] = 1

Counts(h, e) ==
  /\ ForwardIncrement(h) /\ e = <<forwarding[h].doc, forwarding[h].server>>
  /\ document_versions[e] # 0 /\ document_versions'[e] = document_versions[e] + 1

Forgets(k, e) == Untrack(k) /\ notified[k] = e /\ document_versions'[e] = 0

LEMMA VersionMoves ==
  ASSUME TypeOK, [Next]_vars, NEW e \in Copies
  PROVE  \/ document_versions'[e] = document_versions[e]
         \/ \E r \in Requests : Registers(r, e)
         \/ \E h \in Changes : Counts(h, e)
         \/ \E k \in Closers : Forgets(k, e)
<1> DEFINE Moves == \/ document_versions'[e] = document_versions[e]
                    \/ \E r \in Requests : Registers(r, e)
                    \/ \E h \in Changes : Counts(h, e)
                    \/ \E k \in Closers : Forgets(k, e)
<1>0. document_versions \in [Copies -> Nat]
  BY DEF TypeOK
<1>1. ASSUME NEW r \in Requests, Request(r) PROVE Moves
  <2>1. CASE DecideDidOpen(r) /\ document_versions[copy[r]] = 0
    <3>1. document_versions' = [document_versions EXCEPT ![copy[r]] = 1]
      BY <2>1 DEF DecideDidOpen
    <3>2. CASE copy[r] = e
      BY <1>0, <2>1, <3>1, <3>2 DEF Registers
    <3>3. CASE copy[r] # e
      BY <1>0, <3>1, <3>3
    <3>4. QED
      BY <3>2, <3>3
  <2>2. CASE ~(DecideDidOpen(r) /\ document_versions[copy[r]] = 0)
    BY <1>1, <2>2 DEF Request, Begin, Connect, DecideDidOpen, CheckOpened,
                      SendDidOpen, MarkDocumentOpened, SendRequest, trackerVars
  <2>3. QED
    BY <2>1, <2>2
<1>2. ASSUME NEW h \in Changes, Forward(h) PROVE Moves
  <2>1. CASE ForwardIncrement(h)
    <3> DEFINE c == <<forwarding[h].doc, forwarding[h].server>>
    <3>1. CASE document_versions[c] = 0
      BY <2>1, <3>1 DEF ForwardIncrement
    <3>2. CASE document_versions[c] # 0
      <4>1. document_versions' =
              [document_versions EXCEPT ![c] = document_versions[c] + 1]
        BY <2>1, <3>2 DEF ForwardIncrement
      <4>2. CASE c = e
        <5>1. document_versions'[e] = document_versions[e] + 1
          BY <1>0, <4>1, <4>2
        <5>2. QED
          BY <2>1, <3>2, <4>2, <5>1 DEF Counts
      <4>3. CASE c # e
        <5> HIDE DEF c
        <5>1. QED
          BY <1>0, <4>1, <4>3
      <4>4. QED
        BY <4>2, <4>3
    <3>3. QED
      BY <3>1, <3>2
  <2>2. CASE ~ForwardIncrement(h)
    BY <1>2, <2>2 DEF Forward, Change, ForwardCheck, ForwardLookup, trackerVars
  <2>3. QED
    BY <2>1, <2>2
<1>3. ASSUME NEW k \in Closers, Close(k) PROVE Moves
  <2>1. CASE Untrack(k)
    <3>1. document_versions' = [document_versions EXCEPT ![notified[k]] = 0]
      BY <2>1 DEF Untrack
    <3>2. QED
      BY <1>0, <2>1, <3>1 DEF Forgets
  <2>2. CASE ~Untrack(k)
    BY <1>3, <2>2 DEF Close, RemoveRegions, TakeEntries, SendDidClose,
                      EndClosing, trackerVars
  <2>3. QED
    BY <2>1, <2>2
<1>4. ASSUME NEW s \in Servers, Fail(s) \/ Respawn(s) PROVE Moves
  BY <1>4 DEF Fail, Respawn, trackerVars
<1>5. CASE UNCHANGED vars
  BY <1>5 DEF vars, trackerVars
<1>6. QED
  BY <1>1, <1>2, <1>3, <1>4, <1>5 DEF Next

(* The marks, the host's map and what is gone. *)
LEMMA TrackerMoves ==
  ASSUME TypeOK, [Next]_vars
  PROVE  /\ \/ UNCHANGED opened_documents
            \/ \E r \in Requests :
                  /\ MarkDocumentOpened(r)
                  /\ opened_documents' = opened_documents \cup {copy[r][1]}
            \/ \E k \in Closers :
                  /\ Untrack(k) /\ opened_documents' = opened_documents \ {notified[k][1]}
         /\ \/ UNCHANGED host_to_virtual
            \/ \E r \in Requests :
                  /\ DecideDidOpen(r) /\ host_to_virtual' = host_to_virtual \cup {copy[r]}
            \/ \E k \in Closers :
                  /\ TakeEntries(k)
                  /\ host_to_virtual' = {e \in host_to_virtual : e[1] \notin doomed[k]}
         /\ leaked \subseteq leaked'
         /\ \/ UNCHANGED live
            \/ \E k \in Closers, D \in SUBSET Docs : RemoveRegions(k, D)
         /\ UNCHANGED text \/ \E h \in Changes : Change(h)
<1> USE DEF trackerVars, hostVars
<1>1. ASSUME NEW r \in Requests, Request(r)
      PROVE  /\ \/ UNCHANGED opened_documents
                \/ /\ MarkDocumentOpened(r)
                   /\ opened_documents' = opened_documents \cup {copy[r][1]}
             /\ \/ UNCHANGED host_to_virtual
                \/ /\ DecideDidOpen(r)
                   /\ host_to_virtual' = host_to_virtual \cup {copy[r]}
             /\ leaked \subseteq leaked' /\ UNCHANGED <<live, text>>
  BY <1>1 DEF Request, Begin, Connect, DecideDidOpen, CheckOpened, SendDidOpen,
              MarkDocumentOpened, SendRequest
<1>2. ASSUME NEW h \in Changes, Forward(h)
      PROVE  /\ UNCHANGED <<opened_documents, host_to_virtual, leaked, live>>
             /\ UNCHANGED text \/ Change(h)
  BY <1>2 DEF Forward, Change, ForwardCheck, ForwardLookup, ForwardIncrement
<1>3. ASSUME NEW k \in Closers, Close(k)
      PROVE  /\ \/ UNCHANGED opened_documents
                \/ /\ Untrack(k)
                   /\ opened_documents' = opened_documents \ {notified[k][1]}
             /\ \/ UNCHANGED host_to_virtual
                \/ /\ TakeEntries(k)
                   /\ host_to_virtual' = {e \in host_to_virtual : e[1] \notin doomed[k]}
             /\ UNCHANGED <<leaked, text>>
             /\ UNCHANGED live \/ \E D \in SUBSET Docs : RemoveRegions(k, D)
  BY <1>3 DEF Close, RemoveRegions, TakeEntries, SendDidClose, Untrack, EndClosing
<1>4. ASSUME NEW s \in Servers, Fail(s) \/ Respawn(s)
      PROVE  UNCHANGED <<opened_documents, host_to_virtual, leaked, live, text>>
  BY <1>4 DEF Fail, Respawn
<1>5. CASE UNCHANGED vars
  BY <1>5 DEF vars
<1>6. QED
  BY <1>1, <1>2, <1>3, <1>4, <1>5 DEF Next

(* What went wrong is not forgotten, nor which changes were overtaken. *)
LEMMA HistoryGrows ==
  ASSUME TypeOK, [Next]_vars
  PROVE  mishaps \subseteq mishaps' /\ overtaken \subseteq overtaken'
BY DEF Next, vars, historyVars, Request, Begin, Connect, DecideDidOpen,
       CheckOpened, SendDidOpen, MarkDocumentOpened, SendRequest, Forward,
       Change, ForwardCheck, ForwardLookup, ForwardIncrement, Close,
       RemoveRegions, TakeEntries, SendDidClose, Untrack, EndClosing, Fail,
       Respawn, Suffer, SufferIfUnsent

-----------------------------------------------------------------------------
(* What a closing closes is gone; a request under way for what is gone was  *)
(* so when its region went.                                                 *)
GoneInv ==
  /\ \A k \in Closers : doomed[k] \cap live = {}
  /\ \A k \in Closers : \A e \in held[k] : e[1] \in doomed[k]

LateInv ==
  /\ \A r \in Requests : InFlight(r) /\ ~Had("late", copy[r]) => copy[r][1] \in live
  /\ \A e \in Copies : Had("late", e) => e[1] \notin live

LEMMA InitGone == Init => GoneInv /\ LateInv
BY DEF Init, GoneInv, LateInv, InFlight, Had

LEMMA LateMoves ==
  ASSUME TypeOK, [Next]_vars, NEW e \in Copies, Had("late", e)', ~Had("late", e)
  PROVE  \E k \in Closers, D \in SUBSET Docs : RemoveRegions(k, D) /\ e[1] \in D
<1> USE DEF Had
<1>1. ~UNCHANGED mishaps
  OBVIOUS
<1>2. ASSUME NEW r \in Requests, Request(r) PROVE FALSE
  BY <1>1, <1>2 DEF Request, Begin, Connect, DecideDidOpen, CheckOpened,
                    SendDidOpen, MarkDocumentOpened, SendRequest, Suffer, historyVars
<1>3. ASSUME NEW h \in Changes, Forward(h) PROVE FALSE
  <2>1. ASSUME NEW d \in Docs, ForwardCheck(h, d) PROVE FALSE
    BY <2>1 DEF ForwardCheck, Suffer
  <2>2. CASE ForwardIncrement(h)
    <3>1. UNCHANGED mishaps \/ \E c : Suffer("lost", {c})
      BY <2>2 DEF ForwardIncrement, SufferIfUnsent
    <3>2. QED
      BY <1>1, <3>1 DEF Suffer
  <2>3. CASE Change(h) \/ ForwardLookup(h)
    BY <1>1, <2>3 DEF Change, ForwardLookup, historyVars
  <2>4. QED
    BY <1>3, <2>1, <2>2, <2>3 DEF Forward
<1>4. ASSUME NEW k \in Closers, Close(k)
      PROVE  \E D \in SUBSET Docs : RemoveRegions(k, D) /\ e[1] \in D
  <2>1. ASSUME NEW D \in SUBSET Docs, RemoveRegions(k, D) PROVE e[1] \in D
    BY <1>1, <2>1 DEF RemoveRegions, Suffer
  <2>2. CASE \A D \in SUBSET Docs : ~RemoveRegions(k, D)
    BY <1>1, <1>4, <2>2 DEF Close, TakeEntries, SendDidClose, Untrack,
                            EndClosing, SufferIfUnsent, Suffer, historyVars
  <2>3. QED
    BY <2>1, <2>2
<1>5. ASSUME NEW s \in Servers, Fail(s) \/ Respawn(s) PROVE FALSE
  BY <1>1, <1>5 DEF Fail, Respawn, historyVars
<1>6. QED
  BY <1>1, <1>2, <1>3, <1>4, <1>5 DEF Next, vars, historyVars

LEMMA GonePreserved ==
  ASSUME TypeOK, AccountInv, GoneInv, [Next]_vars
  PROVE  GoneInv'
<1>1. live' \subseteq live
  BY TrackerMoves DEF RemoveRegions
<1>2. ASSUME NEW k \in Closers, Close(k)
      PROVE  /\ doomed'[k] \cap live' = {}
             /\ \A e \in held'[k] : e[1] \in doomed'[k]
  <2>1. /\ doomed[k] \cap live' = {} /\ \A e \in held[k] : e[1] \in doomed[k]
        /\ held[k] # {} => closer[k] = "closing"
    BY <1>1 DEF GoneInv, AccountInv, ClosingInv
  <2>2. ASSUME NEW D \in SUBSET Docs, RemoveRegions(k, D)
        PROVE  /\ doomed'[k] \cap live' = {}
               /\ \A e \in held'[k] : e[1] \in doomed'[k]
    BY <2>1, <2>2 DEF RemoveRegions, TypeOK
  <2>3. CASE TakeEntries(k) \/ Untrack(k) \/ EndClosing(k) \/ \E e \in Copies : SendDidClose(k, e)
    <3>1. doomed'[k] = doomed[k]
      BY <2>3 DEF TakeEntries, Untrack, EndClosing, SendDidClose
    <3>2. held'[k] \subseteq held[k] \cup {e \in host_to_virtual : e[1] \in doomed[k]}
      BY <2>3 DEF TakeEntries, Untrack, EndClosing, SendDidClose, TypeOK
    <3>3. QED
      BY <2>1, <3>1, <3>2
  <2>4. QED
    BY <1>2, <2>2, <2>3 DEF Close
<1>3. ASSUME NEW k \in Closers
      PROVE  /\ doomed'[k] \cap live' = {}
             /\ \A e \in held'[k] : e[1] \in doomed'[k]
  BY <1>1, <1>2, CloseMoves DEF GoneInv
<1>4. QED
  BY <1>3 DEF GoneInv

LEMMA LatePreserved ==
  ASSUME TypeOK, LateInv, [Next]_vars
  PROVE  LateInv'
<1>1. live' \subseteq live
  BY TrackerMoves DEF RemoveRegions
<1>2. ASSUME NEW r \in Requests, InFlight(r)', ~Had("late", copy[r])'
      PROVE  copy'[r][1] \in live'
  <2>1. CASE \E e \in Copies : Begin(r, e)
    BY <2>1 DEF Begin, hostVars, TypeOK
  <2>2. CASE ~\E e \in Copies : Begin(r, e)
    <3>1. InFlight(r) /\ copy'[r] = copy[r]
      <4>1. CASE Request(r)
        BY <1>2, <2>2, <4>1
           DEF Request, Connect, DecideDidOpen, CheckOpened, SendDidOpen,
               MarkDocumentOpened, SendRequest, InFlight
      <4>2. CASE ~Request(r)
        BY <1>2, <4>2, RequestMoves DEF InFlight
      <4>3. QED
        BY <4>1, <4>2
    <3>2. ~Had("late", copy[r])
      BY <1>2, <3>1, HistoryGrows DEF Had
    <3>3. copy[r][1] \in live /\ copy[r] \in Copies
      BY <3>1, <3>2, CopyTypes DEF LateInv, InFlight
    <3>4. CASE UNCHANGED live
      BY <3>1, <3>3, <3>4
    <3>5. ASSUME NEW k \in Closers, NEW D \in SUBSET Docs, RemoveRegions(k, D)
          PROVE  copy[r][1] \in live'
      <4>1. CASE copy[r][1] \in D
        <5>1. copy[r] \in D \X Servers
          BY <3>3, <4>1 DEF Copies
        <5>2. Had("late", copy[r])'
          BY <3>1, <3>5, <5>1 DEF RemoveRegions, Suffer, Had, requestVars
        <5>3. QED
          BY <1>2, <3>1, <5>2 DEF Had
      <4>2. CASE copy[r][1] \notin D
        BY <3>3, <3>5, <4>2 DEF RemoveRegions
      <4>3. QED
        BY <4>1, <4>2
    <3>6. QED
      BY <3>1, <3>4, <3>5, TrackerMoves
  <2>3. QED
    BY <2>1, <2>2
<1>3. ASSUME NEW e \in Copies, Had("late", e)' PROVE e[1] \notin live'
  BY <1>1, <1>3, LateMoves DEF LateInv, RemoveRegions
<1>4. QED
  BY <1>2, <1>3 DEF LateInv, Had

(* What is tracked of a document stays so while its region is there.        *)
LEMMA LiveKeeps ==
  ASSUME TypeOK, AccountInv, GoneInv, [Next]_vars, NEW e \in Copies, e[1] \in live
  PROVE  /\ e \in host_to_virtual => e \in host_to_virtual'
         /\ e[1] \in opened_documents => e[1] \in opened_documents'
         /\ document_versions[e] # 0 => document_versions'[e] # 0
         /\ \A k \in Closers : ~Forgets(k, e)
<1>1. ASSUME NEW k \in Closers, Untrack(k)
      PROVE  notified[k] \in Copies /\ notified[k][1] \notin live
  BY <1>1 DEF Untrack, AccountInv, ClosingInv, GoneInv, TypeOK
<1>2. \A k \in Closers : ~Forgets(k, e)
  BY <1>1 DEF Forgets
<1>3. \A k \in Closers : e[1] \notin doomed[k]
  BY DEF GoneInv
<1>4. document_versions[e] \in Nat
  BY DEF TypeOK
<1>5. document_versions[e] # 0 => document_versions'[e] # 0
  <2>1. PICK n \in Nat : n = document_versions[e]
    BY <1>4
  <2>2. QED
    BY <1>2, <2>1, VersionMoves DEF Registers, Counts
<1>6. e \in host_to_virtual => e \in host_to_virtual'
  BY <1>3, TrackerMoves
<1>7. e[1] \in opened_documents => e[1] \in opened_documents'
  BY <1>1, TrackerMoves
<1>8. QED
  BY <1>2, <1>5, <1>6, <1>7

-----------------------------------------------------------------------------
(* Who opens a document: while its region is there, a tracked copy is       *)
(* marked, or being opened, or its didOpen was not sent.                    *)
Opener(r, e) == step[r] \in {"opening", "marking"} /\ copy[r] = e

PendingInv ==
  /\ \A r \in Requests : step[r] = "checking" /\ copy[r][1] \in live
                            => document_versions[copy[r]] # 0
  /\ \A e \in Copies : document_versions[e] # 0 /\ e[1] \in live =>
        \/ e[1] \in opened_documents \/ \E t \in Requests : Opener(t, e)
        \/ e \in leaked \/ Had("unopened", e)

LEMMA InitPending == Init => PendingInv
BY DEF Init, PendingInv

LEMMA OpenerMoves ==
  ASSUME TypeOK, [Next]_vars, NEW r \in Requests, NEW e \in Copies, Opener(r, e)
  PROVE  \/ Opener(r, e)' \/ Had("unopened", e)' \/ e[1] \in opened_documents'
<1>1. CASE Request(r)
  <2>1. SendDidOpen(r) \/ MarkDocumentOpened(r)
    BY <1>1 DEF Request, Begin, Connect, DecideDidOpen, CheckOpened, SendRequest,
                Opener
  <2>2. CASE MarkDocumentOpened(r)
    BY <2>2 DEF MarkDocumentOpened, Opener
  <2>3. CASE SendDidOpen(r)
    BY <2>3 DEF SendDidOpen, Opener, Goto, Suffer, Had, TypeOK
  <2>4. QED
    BY <2>1, <2>2, <2>3
<1>2. CASE ~Request(r)
  BY <1>2, RequestMoves DEF Opener
<1>3. QED
  BY <1>1, <1>2

LEMMA PendingPreserved ==
  ASSUME TypeOK, AccountInv, GoneInv, PendingInv, [Next]_vars
  PROVE  PendingInv'
<1>0. live' \subseteq live
  BY TrackerMoves DEF RemoveRegions
<1>1. ASSUME NEW r \in Requests, step'[r] = "checking", copy'[r][1] \in live'
      PROVE  document_versions'[copy'[r]] # 0
  <2>1. CASE Request(r)
    BY <1>1, <2>1
       DEF Request, Begin, Connect, DecideDidOpen, CheckOpened, SendDidOpen,
           MarkDocumentOpened, SendRequest, Goto, TypeOK
  <2>2. CASE ~Request(r)
    <3>1. step[r] = "checking" /\ copy'[r] = copy[r] /\ copy[r] \in Copies
      BY <1>1, <2>2, RequestMoves, CopyTypes
    <3>2. PICK e \in Copies : e = copy[r]
      BY <3>1
    <3>3. document_versions[e] # 0 /\ e[1] \in live
      BY <1>0, <1>1, <3>1, <3>2 DEF PendingInv
    <3>4. QED
      BY <3>1, <3>2, <3>3, LiveKeeps
  <2>3. QED
    BY <2>1, <2>2
<1>2. ASSUME NEW e \in Copies, document_versions'[e] # 0, e[1] \in live'
      PROVE  \/ e[1] \in opened_documents' \/ \E t \in Requests : Opener(t, e)'
             \/ e \in leaked' \/ Had("unopened", e)'
  <2>1. CASE document_versions[e] = 0
    <3>1. PICK r \in Requests : Registers(r, e)
      BY <1>2, <2>1, VersionMoves DEF Counts, Forgets
    <3>2. QED
      BY <3>1 DEF Registers, DecideDidOpen, Opener, Goto, TypeOK
  <2>2. CASE document_versions[e] # 0
    <3>1. \/ e[1] \in opened_documents \/ \E t \in Requests : Opener(t, e)
          \/ e \in leaked \/ Had("unopened", e)
      BY <1>0, <1>2, <2>2 DEF PendingInv
    <3>2. leaked \subseteq leaked' /\ (Had("unopened", e) => Had("unopened", e)')
      BY TrackerMoves, HistoryGrows DEF Had
    <3>3. e[1] \in opened_documents => e[1] \in opened_documents'
      BY <1>0, <1>2, LiveKeeps
    <3>4. QED
      BY <3>1, <3>2, <3>3, OpenerMoves
  <2>3. QED
    BY <2>1, <2>2
<1>3. QED
  BY <1>1, <1>2 DEF PendingInv, Opener, Had

(* A request is refused with "didOpen pending" only while another one is    *)
(* about to open the document, until its region goes, or for ever when the  *)
(* didOpen could not be queued or the task that registered the copy was     *)
(* aborted: in every instance.                                              *)
THEOREM PendingIsAccountedFor == Spec => PendingMeansOpening
<1> DEFINE I == TypeOK /\ AccountInv /\ GoneInv /\ PendingInv
           Pending == \A r \in Requests : Refused(r) =>
                        \/ \E t \in Requests : step[t] \in {"opening", "marking"}
                                               /\ copy[t] = copy[r]
                        \/ copy[r] \in leaked \/ Had("unopened", copy[r])
                        \/ copy[r][1] \notin live
<1>1. Init => I
  BY InitTypes, InitAccount, InitGone, InitPending
<1>2. I /\ [Next]_vars => I'
  BY TypesPreserved, AccountPreserved, GonePreserved, PendingPreserved
<1>3. I /\ [Next]_vars => [Pending]_vars
  <2> SUFFICES ASSUME I, [Next]_vars, NEW r \in Requests, Refused(r)
               PROVE  \/ \E t \in Requests : step[t] \in {"opening", "marking"}
                                             /\ copy[t] = copy[r]
                      \/ copy[r] \in leaked \/ Had("unopened", copy[r])
                      \/ copy[r][1] \notin live
    OBVIOUS
  <2>1. CheckOpened(r) /\ copy[r][1] \notin opened_documents
    <3>1. Request(r)
      BY RequestMoves DEF Refused
    <3>2. QED
      BY <3>1 DEF Refused, Request, Begin, Connect, DecideDidOpen, CheckOpened,
                  SendDidOpen, MarkDocumentOpened, SendRequest, Goto, TypeOK
  <2>2. copy[r] \in Copies
    BY CopyTypes DEF Refused
  <2>3. CASE copy[r][1] \in live
    <3>1. document_versions[copy[r]] # 0
      BY <2>3 DEF PendingInv, Refused
    <3>2. QED
      BY <2>1, <2>2, <2>3, <3>1 DEF PendingInv, Opener
  <2>4. QED
    BY <2>3
<1>4. QED
  BY <1>1, <1>2, <1>3, PTL DEF Spec, PendingMeansOpening

-----------------------------------------------------------------------------
(* Who closes a document: what is open at a server is in the host's map, or *)
(* with a closing that has yet to tell the server, or its didClose did not  *)
(* get through; and a region that went left a closing behind.               *)
HostInv ==
  \A r \in Requests : step[r] \in {"opening", "marking"} /\ copy[r][1] \in live
                         => copy[r] \in host_to_virtual

Owned(e) ==
  \/ e \in host_to_virtual \/ Had("unclosed", e)
  \/ \E k \in Closers : e \in held[k] /\ notified[k] # e

OwnedInv ==
  \A e \in Copies : OpenAt(e[2], e[1]) /\ ~Had("late", e) => Owned(e)

TakenInv ==
  /\ \A k \in Closers, e \in host_to_virtual :
        closer[k] \in {"closing", "done"} /\ e[1] \in doomed[k] => Had("late", e)
  /\ \A d \in Docs \ live : \E k \in Closers : d \in doomed[k] /\ closer[k] # "idle"

LEMMA InitOwned == Init => HostInv /\ OwnedInv /\ TakenInv
BY DEF Init, HostInv, OwnedInv, TakenInv, OpenAt, Copies

LEMMA HostPreserved ==
  ASSUME TypeOK, AccountInv, GoneInv, HostInv, [Next]_vars
  PROVE  HostInv'
<1>0. live' \subseteq live
  BY TrackerMoves DEF RemoveRegions
<1>1. SUFFICES ASSUME NEW r \in Requests, step'[r] \in {"opening", "marking"},
                      copy'[r][1] \in live'
               PROVE  copy'[r] \in host_to_virtual'
  BY DEF HostInv
<1>2. CASE DecideDidOpen(r)
  BY <1>1, <1>2 DEF DecideDidOpen, Goto, TypeOK
<1>3. CASE ~DecideDidOpen(r)
  <2>1. step[r] \in {"opening", "marking"} /\ copy'[r] = copy[r]
    <3>1. CASE Request(r)
      BY <1>1, <1>3, <3>1
         DEF Request, Begin, Connect, CheckOpened, SendDidOpen,
             MarkDocumentOpened, SendRequest, Goto, TypeOK
    <3>2. CASE ~Request(r)
      BY <1>1, <3>2, RequestMoves
    <3>3. QED
      BY <3>1, <3>2
  <2>2. PICK e \in Copies : e = copy[r]
    BY <2>1, CopyTypes
  <2>3. e \in host_to_virtual /\ e[1] \in live
    BY <1>0, <1>1, <2>1, <2>2 DEF HostInv
  <2>4. QED
    BY <2>1, <2>2, <2>3, LiveKeeps
<1>4. QED
  BY <1>2, <1>3

LEMMA TakenPreserved ==
  ASSUME TypeOK, AccountInv, GoneInv, LateInv, TakenInv, [Next]_vars
  PROVE  TakenInv'
<1>1. ASSUME NEW k \in Closers, NEW e \in host_to_virtual',
             closer'[k] \in {"closing", "done"}, e[1] \in doomed'[k]
      PROVE  Had("late", e)'
  <2>1. CASE e \in host_to_virtual
    <3>1. CASE TakeEntries(k)
      BY <1>1, <3>1 DEF TakeEntries
    <3>2. CASE ~TakeEntries(k)
      <4>1. closer[k] \in {"closing", "done"} /\ doomed'[k] = doomed[k]
        <5>1. CASE Close(k)
          BY <1>1, <3>2, <5>1 DEF Close, RemoveRegions, SendDidClose, Untrack,
                                  EndClosing, AccountInv, ClosingInv, TypeOK
        <5>2. CASE ~Close(k)
          BY <1>1, <5>2, CloseMoves
        <5>3. QED
          BY <5>1, <5>2
      <4>2. QED
        BY <1>1, <2>1, <4>1, HistoryGrows DEF TakenInv, Had
    <3>3. QED
      BY <3>1, <3>2
  <2>2. CASE e \notin host_to_virtual
    <3>1. PICK r \in Requests : DecideDidOpen(r) /\ copy[r] = e
      BY <1>1, <2>2, TrackerMoves
    <3>2. InFlight(r) /\ UNCHANGED closerVars
      BY <3>1 DEF DecideDidOpen, InFlight
    <3>3. e[1] \notin live
      BY <1>1, <3>2 DEF GoneInv, closerVars
    <3>4. Had("late", e)
      BY <3>1, <3>2, <3>3 DEF LateInv
    <3>5. QED
      BY <3>4, HistoryGrows DEF Had
  <2>3. QED
    BY <2>1, <2>2
<1>2. ASSUME NEW d \in Docs \ live'
      PROVE  \E k \in Closers : d \in doomed'[k] /\ closer'[k] # "idle"
  <2>1. CASE d \in live
    <3>1. PICK k \in Closers, D \in SUBSET Docs : RemoveRegions(k, D)
      BY <1>2, <2>1, TrackerMoves
    <3>2. QED
      BY <1>2, <2>1, <3>1 DEF RemoveRegions, TypeOK
  <2>2. CASE d \notin live
    <3>1. PICK k \in Closers : d \in doomed[k] /\ closer[k] # "idle"
      BY <1>2, <2>2 DEF TakenInv
    <3>2. CASE Close(k)
      BY <3>1, <3>2 DEF Close, RemoveRegions, TakeEntries, SendDidClose, Untrack,
                        EndClosing, TypeOK
    <3>3. CASE ~Close(k)
      BY <3>1, <3>3, CloseMoves
    <3>4. QED
      BY <3>2, <3>3
  <2>3. QED
    BY <2>1, <2>2
<1>3. QED
  BY <1>1, <1>2 DEF TakenInv, Had

(* A copy is open after a step only if it was, or was opened by the step.   *)
LEMMA OpenMoves ==
  ASSUME TypeOK, [Next]_vars, NEW e \in Copies, OpenAt(e[2], e[1])'
  PROVE  OpenAt(e[2], e[1]) \/ \E r \in Requests : SendDidOpen(r) /\ copy[r] = e
<1> DEFINE s == e[2]
           d == e[1]
<1>0. s \in Servers /\ e = <<d, s>>
  BY DEF Copies
<1>1. PICK i \in DOMAIN received'[s] :
        /\ received'[s][i].kind = "didOpen" /\ received'[s][i].doc = d
        /\ \A j \in DOMAIN received'[s] :
             received'[s][j].kind = "didClose" /\ received'[s][j].doc = d => j < i
  BY DEF OpenAt
<1>2. CASE received'[s] = received[s]
  BY <1>1, <1>2 DEF OpenAt
<1>3. ASSUME NEW m \in Messages, Grown(received[s], received'[s], m), Sending(s, m)
      PROVE  OpenAt(s, d) \/ \E r \in Requests : SendDidOpen(r) /\ copy[r] = e
  <2>1. CASE i \in DOMAIN received[s]
    <3>1. \A j \in DOMAIN received[s] :
             j \in DOMAIN received'[s] /\ received'[s][j] = received[s][j]
      BY <1>3 DEF Grown
    <3>2. QED
      BY <1>1, <2>1, <3>1 DEF OpenAt
  <2>2. CASE received'[s][i] = m
    <3>1. m.kind = "didOpen" /\ m.doc = d
      BY <1>1, <2>2
    <3>2. PICK r \in Requests : Opening(r, s, m)
      <4>1. ASSUME NEW r \in Requests, Asking(r, s, m) PROVE FALSE
        BY <3>1, <4>1 DEF Asking, Msg
      <4>2. ASSUME NEW h \in Changes, Telling(h, s, m) PROVE FALSE
        BY <3>1, <4>2 DEF Telling, Msg
      <4>3. ASSUME NEW k \in Closers, NEW c \in Copies, Shutting(k, c, s, m)
            PROVE  FALSE
        BY <3>1, <4>3 DEF Shutting, Msg
      <4>4. QED
        BY <1>3, <4>1, <4>2, <4>3 DEF Sending
    <3>3. copy[r] \in Copies
      BY <3>2, CopyTypes DEF Opening, SendDidOpen
    <3>4. copy[r][1] = d /\ copy[r][2] = s
      BY <3>1, <3>2 DEF Opening, Msg
    <3>5. copy[r] = e
      BY <1>0, <3>3, <3>4 DEF Copies
    <3>6. QED
      BY <3>2, <3>5 DEF Opening
  <2>3. QED
    BY <1>1, <1>3, <2>1, <2>2 DEF Grown
<1>4. CASE Respawn(s)
  BY <1>0, <1>1, <1>4 DEF Respawn, TypeOK
<1>5. QED
  BY <1>0, <1>2, <1>3, <1>4, StreamShapes

LEMMA OwnedMoves ==
  ASSUME TypeOK, AccountInv, [Next]_vars, NEW e \in Copies, Owned(e)
  PROVE  Owned(e)' \/ \E k \in Closers : SendDidClose(k, e)
<1>1. CASE e \in host_to_virtual
  <2>1. ASSUME NEW k \in Closers, TakeEntries(k) PROVE Owned(e)'
    <3>1. notified[k] = None
      BY <2>1 DEF TakeEntries, AccountInv, ClosingInv
    <3>2. e # None
      BY DocumentsAssumption DEF Copies
    <3>3. QED
      BY <1>1, <2>1, <3>1, <3>2 DEF TakeEntries, Owned, TypeOK
  <2>2. CASE e \in host_to_virtual'
    BY <2>2 DEF Owned
  <2>3. QED
    BY <1>1, <2>1, <2>2, TrackerMoves
<1>2. CASE Had("unclosed", e)
  BY <1>2, HistoryGrows DEF Owned, Had
<1>3. ASSUME NEW k \in Closers, e \in held[k], notified[k] # e
      PROVE  Owned(e)' \/ SendDidClose(k, e)
  <2>1. CASE Close(k)
    <3>1. closer[k] = "closing" /\ e # None
      BY <1>3, DocumentsAssumption DEF AccountInv, ClosingInv, Copies
    <3>2. CASE Untrack(k)
      BY <1>3, <3>1, <3>2 DEF Untrack, Owned, TypeOK
    <3>3. ASSUME NEW c \in Copies, SendDidClose(k, c), c # e PROVE Owned(e)'
      BY <1>3, <3>3 DEF SendDidClose, Owned, TypeOK
    <3>4. CASE EndClosing(k)
      BY <1>3, <3>4 DEF EndClosing
    <3>5. QED
      BY <2>1, <3>1, <3>2, <3>3, <3>4 DEF Close, RemoveRegions, TakeEntries
  <2>2. CASE ~Close(k)
    BY <1>3, <2>2, CloseMoves DEF Owned
  <2>3. QED
    BY <2>1, <2>2
<1>4. QED
  BY <1>1, <1>2, <1>3 DEF Owned

(* A didClose ends the stream of the copy, or did not get through.          *)
LEMMA ClosedAfter ==
  ASSUME TypeOK, NEW k \in Closers, NEW e \in Copies, SendDidClose(k, e),
         OpenAt(e[2], e[1])'
  PROVE  Had("unclosed", e)'
<1> DEFINE m == Msg("didClose", e[1], 0, 0)
           s == e[2]
<1>1. s \in Servers /\ m \in Messages
  BY DEF Copies, Msg, Messages
<1>2. CASE received' = received
  BY <1>2 DEF SendDidClose, SufferIfUnsent, Suffer, Had
<1>3. CASE received' # received
  <2>1. Send(s, generation[s], m)
    BY <1>3 DEF SendDidClose, SendFails
  <2>2. Grown(received[s], received'[s], m)
    BY <1>3, <2>1, <1>1, SendShape DEF Send
  <2>3. PICK i \in DOMAIN received'[s] :
          /\ received'[s][i].kind = "didOpen"
          /\ \A j \in DOMAIN received'[s] :
               received'[s][j].kind = "didClose" /\ received'[s][j].doc = e[1] => j < i
    BY DEF OpenAt
  <2>4. m.kind = "didClose" /\ m.doc = e[1]
    BY DEF Msg
  <2> HIDE DEF m
  <2>5. Len(received[s]) + 1 < i
    BY <2>2, <2>3, <2>4 DEF Grown
  <2>6. QED
    BY <2>2, <2>5 DEF Grown
<1>4. QED
  BY <1>2, <1>3

LEMMA OwnedPreserved ==
  ASSUME TypeOK, AccountInv, LateInv, HostInv, OwnedInv, [Next]_vars
  PROVE  OwnedInv'
<1>1. SUFFICES ASSUME NEW e \in Copies, OpenAt(e[2], e[1])', ~Had("late", e)'
               PROVE  Owned(e)'
  BY DEF OwnedInv
<1>2. ~Had("late", e)
  BY <1>1, HistoryGrows DEF Had
<1>3. CASE OpenAt(e[2], e[1])
  <2>1. Owned(e)
    BY <1>2, <1>3 DEF OwnedInv
  <2>2. QED
    BY <1>1, <2>1, OwnedMoves, ClosedAfter DEF Owned
<1>4. ASSUME NEW r \in Requests, SendDidOpen(r), copy[r] = e PROVE Owned(e)'
  <2>1. e[1] \in live
    BY <1>2, <1>4 DEF LateInv, SendDidOpen, InFlight
  <2>2. e \in host_to_virtual
    BY <1>4, <2>1 DEF HostInv, SendDidOpen
  <2>3. QED
    BY <1>4, <2>2 DEF SendDidOpen, trackerVars, Owned
<1>5. QED
  BY <1>1, <1>3, <1>4, OpenMoves

(* When all is quiet, no document whose region is gone is open at a server, *)
(* unless a request was under way for it or its didClose did not get        *)
(* through: in every instance.                                              *)
THEOREM NothingElseIsOrphaned == Spec => []NoOrphans
<1> DEFINE I == /\ TypeOK /\ AccountInv /\ GoneInv /\ LateInv
                /\ HostInv /\ OwnedInv /\ TakenInv
<1>1. Init => I
  BY InitTypes, InitAccount, InitGone, InitOwned
<1>2. I /\ [Next]_vars => I'
  BY TypesPreserved, AccountPreserved, GonePreserved, LatePreserved,
     HostPreserved, OwnedPreserved, TakenPreserved
<1>3. I => NoOrphans
  <2> SUFFICES ASSUME I, Quiet, NEW s \in Servers, NEW d \in Docs \ live,
                      OpenAt(s, d), ~Had("late", <<d, s>>)
               PROVE  Had("unclosed", <<d, s>>)
    BY DEF NoOrphans
  <2> DEFINE e == <<d, s>>
  <2>1. e \in Copies /\ e[1] = d /\ e[2] = s
    BY DEF Copies
  <2>2. PICK k \in Closers : d \in doomed[k] /\ closer[k] # "idle"
    BY DEF TakenInv
  <2>3. closer[k] = "done"
    BY <2>2 DEF Quiet, Closing, TypeOK
  <2>4. e \notin host_to_virtual
    BY <2>1, <2>2, <2>3 DEF TakenInv
  <2>5. \A l \in Closers : held[l] = {}
    BY DEF Quiet, Closing, AccountInv, ClosingInv
  <2>6. Owned(e)
    BY <2>1 DEF OwnedInv
  <2>7. QED
    BY <2>4, <2>5, <2>6 DEF Owned
<1>4. QED
  BY <1>1, <1>2, <1>3, PTL DEF Spec

-----------------------------------------------------------------------------
(* With one server the mark of a document is that of its copy: a copy that  *)
(* is being opened is not marked, one request opens it, and only a marked   *)
(* one is told of changes.                                                  *)
OneServer == \A s, t \in Servers : s = t

MarkInv ==
  /\ \A r \in Requests : step[r] \in {"opening", "marking"} /\ copy[r][1] \in live
        => copy[r][1] \notin opened_documents /\ document_versions[copy[r]] = 1
  /\ \A r, t \in Requests, e \in Copies :
        Opener(r, e) /\ Opener(t, e) /\ e[1] \in live => r = t
  /\ \A e \in Copies : e[1] \in opened_documents /\ e[1] \in live
        => document_versions[e] # 0 /\ e \in host_to_virtual
  /\ \A h \in Changes : forwarding[h] # None /\ forwarding[h].doc \in live
        => forwarding[h].doc \in opened_documents

LEMMA InitMark == Init => MarkInv
BY DEF Init, MarkInv, Opener

LEMMA SameCopy ==
  ASSUME OneServer, NEW e \in Copies, NEW c \in Copies, e[1] = c[1]
  PROVE  e = c
BY DEF OneServer, Copies

LEMMA MarksStay ==
  ASSUME TypeOK, AccountInv, GoneInv, [Next]_vars, NEW d \in live, d \in opened_documents
  PROVE  d \in opened_documents'
<1>1. ASSUME NEW k \in Closers, Untrack(k) PROVE notified[k][1] \notin live
  BY <1>1 DEF Untrack, AccountInv, ClosingInv, GoneInv
<1>2. QED
  BY <1>1, TrackerMoves

LEMMA OpenersWere ==
  ASSUME TypeOK, [Next]_vars, NEW r \in Requests, NEW e \in Copies, Opener(r, e)'
  PROVE  \/ Opener(r, e) /\ ~MarkDocumentOpened(r)
         \/ Registers(r, e) /\ step'[r] = "opening"
<1>1. CASE Request(r)
  <2>1. SendDidOpen(r) \/ DecideDidOpen(r)
    BY <1>1 DEF Request, Begin, Connect, CheckOpened, SendRequest,
                MarkDocumentOpened, Goto, Opener, TypeOK
  <2>2. CASE SendDidOpen(r)
    BY <2>2 DEF SendDidOpen, MarkDocumentOpened, Opener
  <2>3. CASE DecideDidOpen(r)
    <3>1. copy[r] = e /\ step'[r] = "opening" /\ document_versions[copy[r]] = 0
      BY <2>3 DEF DecideDidOpen, Goto, Opener, TypeOK
    <3>2. document_versions'[e] = 1
      BY <2>3, <3>1 DEF DecideDidOpen, TypeOK
    <3>3. QED
      BY <2>3, <3>1, <3>2 DEF Registers
  <2>4. QED
    BY <2>1, <2>2, <2>3
<1>2. CASE ~Request(r)
  BY <1>2, RequestMoves DEF Opener, Request
<1>3. QED
  BY <1>1, <1>2

LEMMA MarkPreserved ==
  ASSUME OneServer, TypeOK, AccountInv, GoneInv, HostInv, MarkInv, [Next]_vars
  PROVE  MarkInv'
<1>0. live' \subseteq live
  BY TrackerMoves DEF RemoveRegions
<1>1. ASSUME NEW r \in Requests, NEW e \in Copies, Opener(r, e), e[1] \in live
      PROVE  e[1] \notin opened_documents /\ document_versions[e] = 1
  BY <1>1 DEF MarkInv, Opener
<1>2. ASSUME NEW h \in Changes, NEW e \in Copies, Counts(h, e), e[1] \in live
      PROVE  e[1] \in opened_documents
  BY <1>2 DEF MarkInv, Counts, ForwardIncrement, At
<1>3. ASSUME NEW t \in Requests, MarkDocumentOpened(t)
      PROVE  Opener(t, copy[t]) /\ copy[t] \in Copies
  BY <1>3, CopyTypes DEF MarkDocumentOpened, Opener
<1>4. ASSUME NEW r \in Requests, NEW e \in Copies, Opener(r, e)', e[1] \in live'
      PROVE  e[1] \notin opened_documents' /\ document_versions'[e] = 1
  <2>1. e[1] \in live
    BY <1>0, <1>4
  <2>2. CASE Opener(r, e) /\ ~MarkDocumentOpened(r)
    <3>1. e[1] \notin opened_documents /\ document_versions[e] = 1
      BY <1>1, <2>1, <2>2
    <3>2. document_versions'[e] = 1
      BY <1>2, <2>1, <3>1, VersionMoves, LiveKeeps DEF Registers
    <3>3. ASSUME NEW t \in Requests, MarkDocumentOpened(t) PROVE copy[t][1] # e[1]
      <4>1. PICK c \in Copies : c = copy[t] /\ Opener(t, c)
        BY <1>3, <3>3
      <4>2. CASE c[1] = e[1]
        <5>1. c = e
          BY <4>2, SameCopy
        <5>2. r = t
          BY <2>1, <2>2, <4>1, <5>1 DEF MarkInv
        <5>3. QED
          BY <2>2, <3>3, <5>2
      <4>3. QED
        BY <4>1, <4>2
    <3>4. QED
      BY <3>1, <3>2, <3>3, TrackerMoves
  <2>3. CASE Registers(r, e)
    <3>1. e[1] \notin opened_documents
      BY <2>1, <2>3 DEF MarkInv, Registers
    <3>2. QED
      BY <2>3, <3>1 DEF Registers, DecideDidOpen
  <2>4. QED
    BY <1>4, <2>2, <2>3, OpenersWere
<1>5. ASSUME NEW r \in Requests, NEW t \in Requests, NEW e \in Copies,
             Opener(r, e)', Opener(t, e)', e[1] \in live', r # t
      PROVE  FALSE
  <2>1. e[1] \in live
    BY <1>0, <1>5
  <2>2. ~(Opener(r, e) /\ Opener(t, e))
    BY <1>5, <2>1 DEF MarkInv
  <2>3. ~(Registers(r, e) /\ Opener(t, e)) /\ ~(Opener(r, e) /\ Registers(t, e))
    BY <1>1, <2>1 DEF Registers
  <2>4. ~(Registers(r, e) /\ step'[t] = "opening" /\ Registers(t, e))
    BY <1>5 DEF Registers, DecideDidOpen, Goto, TypeOK
  <2>5. QED
    BY <1>5, <2>2, <2>3, <2>4, OpenersWere
<1>6. ASSUME NEW e \in Copies, e[1] \in opened_documents', e[1] \in live'
      PROVE  document_versions'[e] # 0 /\ e \in host_to_virtual'
  <2>1. e[1] \in live
    BY <1>0, <1>6
  <2>2. document_versions[e] # 0 /\ e \in host_to_virtual
    <3>1. CASE e[1] \in opened_documents
      BY <2>1, <3>1 DEF MarkInv
    <3>2. CASE e[1] \notin opened_documents
      <4>1. PICK t \in Requests : MarkDocumentOpened(t) /\ copy[t][1] = e[1]
        BY <1>6, <3>2, TrackerMoves
      <4>2. Opener(t, e)
        <5>1. PICK c \in Copies : c = copy[t] /\ Opener(t, c)
          BY <1>3, <4>1
        <5>2. QED
          BY <4>1, <5>1, SameCopy
      <4>3. QED
        BY <1>1, <2>1, <4>2 DEF HostInv, Opener
    <3>3. QED
      BY <3>1, <3>2
  <2>3. QED
    BY <2>1, <2>2, LiveKeeps
<1>7. ASSUME NEW h \in Changes, forwarding'[h] # None, forwarding'[h].doc \in live'
      PROVE  forwarding'[h].doc \in opened_documents'
  <2>1. forwarding'[h].doc \in opened_documents
    <3>1. CASE forwarding'[h] = forwarding[h]
      BY <1>0, <1>7, <3>1 DEF MarkInv
    <3>2. ASSUME NEW d \in Docs, ForwardCheck(h, d) PROVE forwarding'[h].doc \in opened_documents
      BY <1>7, <3>1, <3>2 DEF ForwardCheck, TypeOK
    <3>3. CASE ForwardLookup(h)
      <4>1. forwarding[h] \in [at : {"lookup"}, doc : Docs, server : {None}]
            /\ forwarding[h] # None
        BY <3>3 DEF ForwardLookup, At, TypeOK, Forwardings
      <4>2. PICK s \in Servers : forwarding' = [forwarding EXCEPT
               ![h] = [@ EXCEPT !.at = "increment", !.server = s]]
        BY <1>7, <3>3 DEF ForwardLookup, Skip, TypeOK
      <4>3. forwarding'[h].doc = forwarding[h].doc
        BY <4>1, <4>2 DEF TypeOK
      <4>4. QED
        BY <1>0, <1>7, <4>1, <4>3 DEF MarkInv
    <3>4. QED
      BY <1>7, <3>1, <3>2, <3>3, ForwardMoves
         DEF Forward, Change, ForwardIncrement, Skip, TypeOK
  <2>2. QED
    BY <1>0, <1>7, <2>1, MarksStay
<1>8. \A r \in Requests : step'[r] # "idle" => copy'[r] \in Copies
  BY TypesPreserved DEF TypeOK
<1>9. QED
  BY <1>4, <1>5, <1>6, <1>7, <1>8 DEF MarkInv, Opener

-----------------------------------------------------------------------------
(* Nothing is newer than the text, and a change that is forwarded is the    *)
(* last or was overtaken.                                                   *)
AgeInv ==
  /\ \A r \in Requests : snapshot[r] <= text
  /\ \A h \in Changes : Forwarding(h) => h <= text /\ (h = text \/ h \in overtaken)
  /\ \A s \in Servers : \A i \in DOMAIN received[s] : received[s][i].content <= text

LEMMA InitAge == Init => AgeInv
BY DEF Init, AgeInv, Forwarding

LEMMA AgePreserved ==
  ASSUME TypeOK, AgeInv, [Next]_vars
  PROVE  AgeInv'
<1>0. Changes \subseteq Nat
  BY DocumentsAssumption DEF Changes
<1>1. text \in Nat /\ text' \in Nat /\ text <= text'
  BY <1>0, TypesPreserved, TrackerMoves DEF TypeOK, Change
<1>2. ASSUME NEW r \in Requests PROVE snapshot'[r] <= text'
  <2>1. CASE \E e \in Copies : Begin(r, e)
    BY <1>1, <2>1 DEF Begin, hostVars, TypeOK
  <2>2. CASE ~\E e \in Copies : Begin(r, e)
    <3>1. snapshot'[r] = snapshot[r]
      BY <2>2, RequestMoves
         DEF Request, Connect, DecideDidOpen, CheckOpened, SendDidOpen,
             MarkDocumentOpened, SendRequest
    <3>2. snapshot[r] \in Nat /\ snapshot[r] <= text
      BY DEF TypeOK, AgeInv
    <3>3. QED
      BY <1>1, <3>1, <3>2
  <2>3. QED
    BY <2>1, <2>2
<1>3. ASSUME NEW h \in Changes, Forwarding(h)'
      PROVE  h <= text' /\ (h = text' \/ h \in overtaken')
  <2>1. CASE Change(h)
    BY <1>0, <2>1 DEF Change
  <2>2. CASE ~Change(h)
    <3>1. Forwarding(h)
      <4>1. CASE Forward(h)
        BY <2>2, <4>1 DEF Forward, ForwardCheck, ForwardLookup, ForwardIncrement,
                          At, Forwarding
      <4>2. CASE ~Forward(h)
        BY <1>3, <4>2, ForwardMoves DEF Forwarding
      <4>3. QED
        BY <4>1, <4>2
    <3>2. h \in Nat /\ h <= text /\ (h = text \/ h \in overtaken)
      BY <1>0, <3>1 DEF AgeInv
    <3>3. CASE UNCHANGED text
      BY <3>2, <3>3, HistoryGrows
    <3>4. ASSUME NEW g \in Changes, Change(g) PROVE h <= text' /\ h \in overtaken'
      BY <1>1, <3>1, <3>2, <3>4 DEF Change
    <3>5. QED
      BY <3>2, <3>3, <3>4, TrackerMoves
  <2>3. QED
    BY <2>1, <2>2
<1>4. ASSUME NEW s \in Servers, NEW i \in DOMAIN received'[s]
      PROVE  received'[s][i].content <= text'
  <2>1. ASSUME NEW j \in DOMAIN received[s]
        PROVE  received[s][j].content \in Nat /\ received[s][j].content <= text
    <3>1. received[s] \in Seq(Messages)
      BY DEF TypeOK
    <3>2. received[s][j] \in Messages
      BY <3>1
    <3>3. QED
      BY <3>2 DEF Messages, AgeInv
  <2>2. CASE received'[s] = received[s]
    BY <1>1, <2>1, <2>2
  <2>3. ASSUME NEW m \in Messages, Grown(received[s], received'[s], m), Sending(s, m)
        PROVE  received'[s][i].content <= text'
    <3>1. CASE i \in DOMAIN received[s] /\ received'[s][i] = received[s][i]
      BY <1>1, <2>1, <3>1
    <3>2. CASE received'[s][i] = m
      <4>1. ASSUME NEW r \in Requests, Opening(r, s, m) \/ Asking(r, s, m)
            PROVE  m.content <= text
        BY <4>1 DEF Opening, Asking, Msg, AgeInv
      <4>2. ASSUME NEW h \in Changes, Telling(h, s, m) PROVE m.content <= text
        BY <4>2 DEF Telling, ForwardIncrement, At, Forwarding, Msg, AgeInv
      <4>3. ASSUME NEW k \in Closers, NEW e \in Copies, Shutting(k, e, s, m)
            PROVE  m.content <= text
        BY <1>1, <4>3 DEF Shutting, Msg
      <4>4. m.content <= text /\ m.content \in Nat
        BY <2>3, <4>1, <4>2, <4>3 DEF Sending, Messages
      <4>5. QED
        BY <1>1, <3>2, <4>4
    <3>3. QED
      BY <2>3, <3>1, <3>2 DEF Grown
  <2>4. CASE Respawn(s)
    BY <2>4 DEF Respawn, TypeOK
  <2>5. QED
    BY <2>2, <2>3, <2>4, StreamShapes
<1>5. QED
  BY <1>2, <1>3, <1>4 DEF AgeInv, Forwarding

-----------------------------------------------------------------------------
(* What a server is sent of the content of a copy: a step leaves it, ends   *)
(* it with the server, or adds the didOpen of the request that opens the    *)
(* copy or a didChange.                                                     *)
Pos(e) == ContentAt(e[2], e[1])

Kept(e) ==
  /\ Pos(e)' \in {Pos(e), {}}
  /\ \A i \in Pos(e)' : received'[e[2]][i] = received[e[2]][i]

Extends(e, m) ==
  \E n \in Nat : /\ \A i \in Pos(e) : i \in Nat /\ i < n
                 /\ Pos(e)' = Pos(e) \cup {n}
                 /\ received'[e[2]][n] = m
                 /\ \A i \in Pos(e) : received'[e[2]][i] = received[e[2]][i]

Opens(r, e) ==
  /\ SendDidOpen(r) /\ copy[r] = e /\ step'[r] = "marking"
  /\ Extends(e, Msg("didOpen", e[1], 1, snapshot[r]))

Tells(h, e) ==
  /\ Counts(h, e)
  /\ Extends(e, Msg("didChange", e[1], document_versions[e] + 1, h))

LEMMA PosMoves ==
  ASSUME TypeOK, [Next]_vars, NEW e \in Copies
  PROVE  \/ Kept(e) \/ \E r \in Requests : Opens(r, e)
         \/ \E h \in Changes : Tells(h, e)
<1> DEFINE s == e[2]
           d == e[1]
           Moves == \/ Kept(e) \/ \E r \in Requests : Opens(r, e)
                    \/ \E h \in Changes : Tells(h, e)
<1>0. s \in Servers /\ e = <<d, s>>
  BY DEF Copies
<1>1. CASE received'[s] = received[s]
  BY <1>1 DEF Kept, Pos, ContentAt
<1>2. CASE Respawn(s)
  <2>1. received'[s] = <<>>
    BY <1>0, <1>2 DEF Respawn, TypeOK
  <2>2. Pos(e)' = {}
    BY <2>1 DEF Pos, ContentAt
  <2>3. QED
    BY <2>2 DEF Kept
<1>3. ASSUME NEW m \in Messages, Grown(received[s], received'[s], m), Sending(s, m)
      PROVE  Moves
  <2> DEFINE n == Len(received[s]) + 1
  <2>1. /\ n \in Nat /\ received'[s][n] = m
        /\ \A i \in Pos(e) : /\ i \in Nat /\ i < n
                             /\ received'[s][i] = received[s][i]
    BY <1>3 DEF Grown, Pos, ContentAt
  <2>2. CASE ~(m.doc = d /\ m.kind \in {"didOpen", "didChange"})
    <3>1. Pos(e)' = Pos(e)
      BY <1>3, <2>2 DEF Grown, Pos, ContentAt
    <3>2. \A i \in Pos(e) : received'[e[2]][i] = received[e[2]][i]
      BY <2>1
    <3>3. QED
      BY ONLY <3>1, <3>2 DEF Kept
  <2>3. CASE m.doc = d /\ m.kind \in {"didOpen", "didChange"}
    <3>1. Pos(e)' = Pos(e) \cup {n}
      BY <1>3, <2>3 DEF Grown, Pos, ContentAt
    <3>2. Extends(e, m)
      BY <2>1, <3>1 DEF Extends
    <3>3. ASSUME NEW r \in Requests, Opening(r, s, m) PROVE Opens(r, e)
      <4>1. copy[r] \in Copies /\ copy[r][1] = d /\ copy[r][2] = s
        BY <2>3, <3>3, CopyTypes DEF Opening, SendDidOpen, Msg
      <4>2. copy[r] = e
        BY <1>0, <4>1 DEF Copies
      <4>3. step'[r] = "marking"
        BY <3>3 DEF Opening, TypeOK
      <4>4. m = Msg("didOpen", e[1], 1, snapshot[r])
        BY <3>3, <4>1 DEF Opening
      <4>5. QED
        BY <3>2, <3>3, <4>2, <4>3, <4>4 DEF Opens, Opening
    <3>4. ASSUME NEW h \in Changes, Telling(h, s, m) PROVE Tells(h, e)
      <4>1. forwarding[h].doc = d /\ forwarding[h].server = s
        BY <2>3, <3>4 DEF Telling, Msg
      <4>2. <<forwarding[h].doc, s>> = e
        BY <1>0, <4>1
      <4>3. document_versions' = [document_versions EXCEPT ![e] = document_versions[e] + 1]
            /\ document_versions[e] # 0 /\ ForwardIncrement(h)
            /\ m = Msg("didChange", d, document_versions[e] + 1, h)
        BY <3>4, <4>1, <4>2 DEF Telling
      <4>4. document_versions'[e] = document_versions[e] + 1
        BY <4>3 DEF TypeOK
      <4>5. Counts(h, e)
        BY <4>1, <4>2, <4>3, <4>4 DEF Counts
      <4>6. QED
        BY <3>2, <4>3, <4>5 DEF Tells
    <3>5. ASSUME NEW r \in Requests, Asking(r, s, m) PROVE FALSE
      BY <2>3, <3>5 DEF Asking, Msg
    <3>6. ASSUME NEW k \in Closers, NEW c \in Copies, Shutting(k, c, s, m)
          PROVE  FALSE
      BY <2>3, <3>6 DEF Shutting, Msg
    <3>7. QED
      BY <1>3, <3>3, <3>4, <3>5, <3>6 DEF Sending
  <2>4. QED
    BY <2>2, <2>3
<1>4. QED
  BY <1>0, <1>1, <1>2, <1>3, StreamShapes

(* The versions sent are at most the tracked one, and a document is opened  *)
(* once.                                                                    *)
OnceInv ==
  /\ \A e \in Copies : e[1] \in live /\ document_versions[e] = 0 => Pos(e) = {}
  /\ \A r \in Requests : step[r] = "opening" /\ copy[r][1] \in live
                            => Pos(copy[r]) = {}

RisingInv ==
  \A e \in Copies : ~Had("late", e) =>
     /\ document_versions[e] # 0 =>
           \A i \in Pos(e) : received[e[2]][i].version <= document_versions[e]
     /\ \A i, j \in Pos(e) : i < j =>
           /\ received[e[2]][i].version < received[e[2]][j].version
           /\ \/ received[e[2]][i].content <= received[e[2]][j].content
              \/ received[e[2]][j].content \in overtaken

LEMMA InitOnce == Init => OnceInv /\ RisingInv
<1>1. Init => \A e \in Copies : Pos(e) = {}
  BY DEF Init, Pos, ContentAt, Copies
<1>2. Init => \A r \in Requests : step[r] = "idle"
  BY DEF Init
<1>3. QED
  BY <1>1, <1>2 DEF OnceInv, RisingInv

LEMMA OnlyOpener ==
  ASSUME MarkInv, NEW r \in Requests, NEW e \in Copies, Opens(r, e), e[1] \in live
  PROVE  /\ Opener(r, e) /\ step[r] = "opening" /\ document_versions[e] = 1
         /\ e[1] \notin opened_documents
BY DEF MarkInv, Opens, SendDidOpen, Opener

LEMMA OnlyMarked ==
  ASSUME MarkInv, NEW h \in Changes, NEW e \in Copies, Counts(h, e), e[1] \in live
  PROVE  e[1] \in opened_documents
BY DEF MarkInv, Counts, ForwardIncrement, At

LEMMA OncePreserved ==
  ASSUME OneServer, TypeOK, AccountInv, GoneInv, MarkInv, OnceInv, [Next]_vars
  PROVE  OnceInv'
<1>0. live' \subseteq live
  BY TrackerMoves DEF RemoveRegions
<1>1. ASSUME NEW e \in Copies, e[1] \in live', document_versions'[e] = 0
      PROVE  Pos(e)' = {}
  <2>1. e[1] \in live /\ document_versions[e] = 0 /\ Pos(e) = {}
    BY <1>0, <1>1, LiveKeeps DEF OnceInv
  <2>2. \A r \in Requests : ~Opens(r, e)
    BY <2>1, OnlyOpener
  <2>3. QED
    BY <2>1, <2>2, PosMoves DEF Kept, Tells, Counts
<1>2. ASSUME NEW r \in Requests, NEW e \in Copies, step'[r] = "opening", copy'[r] = e,
             e[1] \in live'
      PROVE  Pos(e)' = {}
  <2>0. e[1] \in live
    BY <1>0, <1>2
  <2>1. CASE Registers(r, e)
    <3>1. Pos(e) = {}
      BY <2>0, <2>1 DEF OnceInv, Registers
    <3>2. UNCHANGED received
      BY <2>1 DEF Registers, DecideDidOpen, connectionVars
    <3>3. QED
      BY <3>1, <3>2 DEF Pos, ContentAt
  <2>2. CASE Opener(r, e) /\ ~Registers(r, e)
    <3>1. step[r] = "opening" /\ copy[r] = e
      <4>1. CASE Request(r)
        BY <1>2, <2>2, <4>1
           DEF Request, Begin, Connect, DecideDidOpen, CheckOpened, SendDidOpen,
               MarkDocumentOpened, SendRequest, Goto, TypeOK, Opener
      <4>2. CASE ~Request(r)
        BY <1>2, <4>2, RequestMoves
      <4>3. QED
        BY <4>1, <4>2
    <3>2. Pos(e) = {}
      BY <2>0, <3>1 DEF OnceInv
    <3>3. ASSUME NEW t \in Requests, Opens(t, e) PROVE FALSE
      <4>1. t = r
        BY <2>0, <2>2, <3>3, OnlyOpener DEF MarkInv
      <4>2. QED
        BY <1>2, <3>3, <4>1 DEF Opens
    <3>4. ASSUME NEW h \in Changes, Tells(h, e) PROVE FALSE
      BY <2>0, <3>1, <3>4, OnlyMarked DEF Tells, MarkInv
    <3>5. QED
      BY <3>2, <3>3, <3>4, PosMoves DEF Kept
  <2>3. QED
    BY <1>2, <2>1, <2>2, OpenersWere DEF Opener
<1>3. \A r \in Requests : step'[r] # "idle" => copy'[r] \in Copies
  BY TypesPreserved DEF TypeOK
<1>4. QED
  BY <1>1, <1>2, <1>3 DEF OnceInv, Pos

LEMMA RisingPreserved ==
  ASSUME OneServer, TypeOK, LateInv, MarkInv, AgeInv, OnceInv, RisingInv, [Next]_vars
  PROVE  RisingInv'
<1> DEFINE Below(e) == document_versions[e] # 0 =>
              \A i \in Pos(e) : received[e[2]][i].version <= document_versions[e]
           Rises(e) == \A i, j \in Pos(e) : i < j =>
              /\ received[e[2]][i].version < received[e[2]][j].version
              /\ \/ received[e[2]][i].content <= received[e[2]][j].content
                 \/ received[e[2]][j].content \in overtaken
<1>0. ASSUME NEW e \in Copies, NEW i \in Pos(e)
      PROVE  /\ received[e[2]][i].version \in Nat
             /\ received[e[2]][i].content \in Nat
             /\ received[e[2]][i].content <= text
  <2>1. e[2] \in Servers /\ i \in DOMAIN received[e[2]]
    BY <1>0 DEF Copies, Pos, ContentAt
  <2>2. received[e[2]] \in Seq(Messages)
    BY <2>1 DEF TypeOK
  <2>3. received[e[2]][i] \in Messages
    BY <2>1, <2>2
  <2>4. QED
    BY <2>1, <2>3 DEF Messages, AgeInv
<1>1. ASSUME NEW e \in Copies, ~Had("late", e)' PROVE Below(e)' /\ Rises(e)'
  <2>1. ~Had("late", e) /\ Below(e) /\ Rises(e)
    BY <1>1, HistoryGrows DEF Had, RisingInv
  <2>2. document_versions[e] \in Nat /\ document_versions'[e] \in Nat
    BY TypesPreserved DEF TypeOK
  <2>3. overtaken \subseteq overtaken'
    BY HistoryGrows
  <2>4. CASE Kept(e)
    <3>1. Rises(e)'
      BY <2>1, <2>3, <2>4 DEF Kept
    <3>2. ASSUME document_versions'[e] # 0, NEW i \in Pos(e)'
          PROVE  received'[e[2]][i].version <= document_versions'[e]
      <4>1. i \in Pos(e) /\ received'[e[2]][i].version = received[e[2]][i].version
        BY <2>4, <3>2 DEF Kept
      <4>2. CASE document_versions[e] = 0
        <5>1. PICK r \in Requests : Registers(r, e)
          BY <3>2, <4>2, VersionMoves DEF Counts, Forgets
        <5>2. e[1] \in live
          BY <2>1, <5>1 DEF Registers, DecideDidOpen, LateInv, InFlight
        <5>3. QED
          BY <4>1, <4>2, <5>2 DEF OnceInv
      <4>3. CASE document_versions[e] # 0
        <5>1. /\ received[e[2]][i].version <= document_versions[e]
              /\ received[e[2]][i].version \in Nat
          BY <1>0, <2>1, <4>1, <4>3
        <5>2. document_versions[e] <= document_versions'[e]
          BY <2>2, <3>2, <4>3, VersionMoves DEF Registers, Counts, Forgets
        <5>3. QED
          BY <2>2, <4>1, <5>1, <5>2
      <4>4. QED
        BY <4>2, <4>3
    <3>3. QED
      BY <3>1, <3>2
  <2>5. ASSUME NEW r \in Requests, Opens(r, e) PROVE Below(e)' /\ Rises(e)'
    <3>1. e[1] \in live
      BY <2>1, <2>5 DEF Opens, SendDidOpen, LateInv, InFlight
    <3>2. step[r] = "opening" /\ copy[r] = e /\ document_versions[e] = 1
      BY <2>5, <3>1, OnlyOpener DEF Opens
    <3>3. Pos(e) = {}
      BY <3>1, <3>2 DEF OnceInv
    <3>4. document_versions'[e] = 1
      BY <2>5, <3>2 DEF Opens, SendDidOpen, trackerVars
    <3>5. PICK n \in Nat : /\ Pos(e)' = {n}
                           /\ received'[e[2]][n] = Msg("didOpen", e[1], 1, snapshot[r])
      BY <2>5, <3>3 DEF Opens, Extends
    <3>6. received'[e[2]][n].version = 1
      BY <3>5 DEF Msg
    <3>7. QED
      BY <3>4, <3>5, <3>6
  <2>6. ASSUME NEW h \in Changes, Tells(h, e) PROVE Below(e)' /\ Rises(e)'
    <3> DEFINE v == document_versions[e] + 1
    <3>1. document_versions[e] # 0 /\ document_versions'[e] = v /\ ForwardIncrement(h)
      BY <2>6 DEF Tells, Counts
    <3>2. h \in Nat /\ h <= text /\ (h = text \/ h \in overtaken) /\ text \in Nat
      BY <3>1, DocumentsAssumption
         DEF ForwardIncrement, At, Forwarding, AgeInv, Changes, TypeOK
    <3>3. PICK n \in Nat : /\ \A i \in Pos(e) : i \in Nat /\ i < n
                           /\ Pos(e)' = Pos(e) \cup {n}
                           /\ received'[e[2]][n] = Msg("didChange", e[1], v, h)
                           /\ \A i \in Pos(e) : received'[e[2]][i] = received[e[2]][i]
      BY <2>6 DEF Tells, Extends
    <3>4. received'[e[2]][n].version = v /\ received'[e[2]][n].content = h
      BY <3>3 DEF Msg
    <3>5. \A i \in Pos(e) : /\ received[e[2]][i].version \in Nat
                            /\ received[e[2]][i].version <= document_versions[e]
                            /\ received[e[2]][i].content \in Nat
                            /\ received[e[2]][i].content <= text
      BY <1>0, <2>1, <3>1
    <3>6. \A i \in Pos(e) : /\ received[e[2]][i].version < v
                            /\ received[e[2]][i].content <= h \/ h \in overtaken
      BY <2>2, <3>2, <3>5
    <3>7. v \in Nat /\ v <= v
      BY <2>2
    <3> HIDE DEF v
    <3>8. Below(e)'
      BY <3>1, <3>3, <3>4, <3>5, <3>6, <3>7
    <3>9. Rises(e)'
      <4>1. ASSUME NEW i \in Pos(e)', NEW j \in Pos(e)', i < j
            PROVE  /\ received'[e[2]][i].version < received'[e[2]][j].version
                   /\ \/ received'[e[2]][i].content <= received'[e[2]][j].content
                      \/ received'[e[2]][j].content \in overtaken'
        <5>1. i \in Pos(e)
          BY <3>3, <4>1
        <5>2. CASE j = n
          BY <2>3, <3>3, <3>4, <3>6, <5>1, <5>2
        <5>3. CASE j \in Pos(e)
          BY <2>1, <2>3, <3>3, <4>1, <5>1, <5>3
        <5>4. QED
          BY <3>3, <4>1, <5>2, <5>3
      <4>2. QED
        BY <4>1
    <3>10. QED
      BY <3>8, <3>9
  <2>7. QED
    BY <2>4, <2>5, <2>6, PosMoves
<1>2. QED
  BY <1>1 DEF RisingInv, Had

(* What the proofs about one server share. *)
ServerInv ==
  /\ TypeOK /\ AccountInv /\ GoneInv /\ LateInv /\ HostInv /\ MarkInv
  /\ AgeInv /\ OnceInv

LEMMA InitServer == Init => ServerInv
BY InitTypes, InitAccount, InitGone, InitOwned, InitMark, InitAge, InitOnce
   DEF ServerInv

LEMMA ServerPreserved ==
  ASSUME OneServer, ServerInv, [Next]_vars
  PROVE  ServerInv'
BY TypesPreserved, AccountPreserved, GonePreserved, LatePreserved, HostPreserved,
   MarkPreserved, AgePreserved, OncePreserved DEF ServerInv

(* With one server, whatever overlaps, fails or is aborted: it is told of   *)
(* increasing versions of a document, which it sees opened once, unless a   *)
(* request was under way when the region went; and an older text comes      *)
(* after a newer one only from an overtaken change.                         *)
THEOREM VersionsOnlyIncrease ==
  ASSUME OneServer
  PROVE  Spec => []VersionsIncrease
<1>1. ServerInv /\ RisingInv /\ [Next]_vars => (ServerInv /\ RisingInv)'
  BY ServerPreserved, RisingPreserved DEF ServerInv
<1>2. Init => ServerInv /\ RisingInv
  BY InitServer, InitOnce
<1>3. ServerInv /\ RisingInv => VersionsIncrease
  <2> SUFFICES ASSUME RisingInv, NEW s \in Servers, NEW d \in Docs,
                      NEW i \in ContentAt(s, d), NEW j \in ContentAt(s, d),
                      i < j, ~Had("late", <<d, s>>)
               PROVE  /\ received[s][i].version < received[s][j].version
                      /\ \/ received[s][i].content <= received[s][j].content
                         \/ received[s][j].content \in overtaken
    BY DEF VersionsIncrease
  <2> DEFINE e == <<d, s>>
  <2>1. e \in Copies /\ e[1] = d /\ e[2] = s
    BY DEF Copies
  <2>2. i \in Pos(e) /\ j \in Pos(e)
    BY <2>1 DEF Pos
  <2>3. QED
    BY <2>1, <2>2 DEF RisingInv
<1>4. QED
  BY <1>1, <1>2, <1>3, PTL DEF Spec

-----------------------------------------------------------------------------
(* What a server has of a document, and what the request that opens it      *)
(* carries, is the text, or is about to be brought up to it, or the mishap  *)
(* that keeps it behind is known.                                           *)
MarkingInv ==
  \A e \in Copies : e[1] \in live /\ e[1] \notin opened_documents /\ Pos(e) # {} =>
     \E r \in Requests :
        /\ step[r] = "marking" /\ copy[r] = e
        /\ \A i \in Pos(e) : received[e[2]][i].content = snapshot[r]

SnapshotInv ==
  \A r \in Requests :
     /\ step[r] \in {"connecting", "deciding", "opening", "marking"}
     /\ copy[r][1] \in live /\ copy[r][1] \notin opened_documents
     => \/ snapshot[r] = text \/ Had("missed", copy[r])
        \/ \E h \in Changes : h = text /\ copy[r][1] \in todo[h]

OnItsWay(d) ==
  \E h \in Changes :
     /\ h = text
     /\ d \in todo[h] \/ (forwarding[h] # None /\ forwarding[h].doc = d)

LastInv ==
  \A e \in Copies : e[1] \in live => \A i \in Pos(e) :
     (\A j \in Pos(e) : j <= i) =>
        \/ received[e[2]][i].content \in {text} \cup overtaken
        \/ Had("missed", e) \/ Had("lost", e) \/ OnItsWay(e[1])

LEMMA InitLast == Init => MarkingInv /\ SnapshotInv /\ LastInv
<1>1. Init => \A e \in Copies : Pos(e) = {}
  BY DEF Init, Pos, ContentAt, Copies
<1>2. Init => \A r \in Requests : step[r] = "idle"
  BY DEF Init
<1>3. QED
  BY <1>1, <1>2 DEF MarkingInv, SnapshotInv, LastInv

LEMMA MarkingPreserved ==
  ASSUME OneServer, ServerInv, MarkingInv, [Next]_vars
  PROVE  MarkingInv'
<1> USE DEF ServerInv
<1>0. live' \subseteq live
  BY TrackerMoves DEF RemoveRegions
<1>1. SUFFICES ASSUME NEW e \in Copies, e[1] \in live', e[1] \notin opened_documents',
                      Pos(e)' # {}
               PROVE  \E r \in Requests :
                         /\ step'[r] = "marking" /\ copy'[r] = e
                         /\ \A i \in Pos(e)' : received'[e[2]][i].content = snapshot'[r]
  BY DEF MarkingInv
<1>2. e[1] \in live /\ e[1] \notin opened_documents
  BY <1>0, <1>1, MarksStay
<1>3. CASE Kept(e)
  <2>1. Pos(e)' = Pos(e)
    BY <1>1, <1>3 DEF Kept
  <2>2. PICK r \in Requests :
          /\ step[r] = "marking" /\ copy[r] = e
          /\ \A i \in Pos(e) : received[e[2]][i].content = snapshot[r]
    BY <1>1, <1>2, <2>1 DEF MarkingInv
  <2>3. ~Request(r)
    BY <1>1, <2>2 DEF Request, Begin, Connect, DecideDidOpen, CheckOpened,
                      SendDidOpen, MarkDocumentOpened, SendRequest
  <2>4. QED
    BY <1>3, <2>1, <2>2, <2>3, RequestMoves DEF Kept
<1>4. ASSUME NEW r \in Requests, Opens(r, e)
      PROVE  /\ step'[r] = "marking" /\ copy'[r] = e
             /\ \A i \in Pos(e)' : received'[e[2]][i].content = snapshot'[r]
  <2>1. Pos(e) = {}
    BY <1>2, <1>4, OnlyOpener DEF OnceInv, Opener
  <2>2. UNCHANGED <<copy, snapshot>>
    BY <1>4 DEF Opens, SendDidOpen
  <2>3. PICK n \in Nat : /\ Pos(e)' = {n}
                         /\ received'[e[2]][n] = Msg("didOpen", e[1], 1, snapshot[r])
    BY <1>4, <2>1 DEF Opens, Extends
  <2>4. QED
    BY <1>4, <2>2, <2>3 DEF Opens, Msg
<1>5. ASSUME NEW h \in Changes, Tells(h, e) PROVE FALSE
  BY <1>2, <1>5, OnlyMarked DEF Tells
<1>6. QED
  BY <1>3, <1>4, <1>5, PosMoves

(* Who takes a document of the last change up: it is told of it, or one     *)
(* with an older text misses it.                                            *)
LEMMA MissedBy ==
  ASSUME TypeOK, AgeInv, NEW h \in Changes, NEW d \in Docs, ForwardCheck(h, d),
         h = text, d \notin opened_documents, NEW r \in Requests, InFlight(r),
         copy[r][1] = d
  PROVE  snapshot[r] = text \/ Had("missed", copy[r])'
<1>1. snapshot[r] \in Nat /\ text \in Nat /\ snapshot[r] <= text
  BY DEF TypeOK, AgeInv
<1>2. snapshot[r] < h => r \in Behind(h, d)
  BY DEF Behind
<1>3. snapshot[r] < h => <<"missed", copy[r]>> \in mishaps'
  BY <1>2 DEF ForwardCheck, Suffer
<1>4. UNCHANGED copy
  BY DEF ForwardCheck, requestVars
<1>5. QED
  BY <1>1, <1>3, <1>4 DEF Had

LEMMA SnapshotPreserved ==
  ASSUME OneServer, ServerInv, SnapshotInv, [Next]_vars
  PROVE  SnapshotInv'
<1> USE DEF ServerInv
<1> DEFINE Early == {"connecting", "deciding", "opening", "marking"}
<1>0. live' \subseteq live
  BY TrackerMoves DEF RemoveRegions
<1>1. SUFFICES ASSUME NEW r \in Requests, step'[r] \in Early, copy'[r][1] \in live',
                      copy'[r][1] \notin opened_documents'
               PROVE  \/ snapshot'[r] = text' \/ Had("missed", copy[r])'
                      \/ \E h \in Changes : h = text' /\ copy'[r][1] \in todo'[h]
  BY DEF SnapshotInv, Had
<1>2. CASE \E e \in Copies : Begin(r, e)
  BY <1>2 DEF Begin, hostVars, TypeOK
<1>3. CASE ~\E e \in Copies : Begin(r, e)
  <2>1. /\ step[r] \in Early /\ copy'[r] = copy[r] /\ snapshot'[r] = snapshot[r]
        /\ copy[r] \in Copies
    <3>1. CASE Request(r)
      <4>1. Connect(r) \/ DecideDidOpen(r) \/ SendDidOpen(r)
        BY <1>1, <1>3, <3>1 DEF Request, CheckOpened, MarkDocumentOpened,
                                SendRequest, Goto, TypeOK
      <4>2. step[r] \in Early /\ UNCHANGED <<copy, snapshot>>
        BY <4>1 DEF Connect, DecideDidOpen, SendDidOpen
      <4>3. QED
        BY <4>2, CopyTypes
    <3>2. CASE ~Request(r)
      BY <1>1, <3>2, RequestMoves, CopyTypes
    <3>3. QED
      BY <3>1, <3>2
  <2>2. PICK d \in Docs : d = copy[r][1]
    BY <2>1 DEF Copies
  <2>3. d \in live /\ d \notin opened_documents
    BY <1>0, <1>1, <2>1, <2>2, MarksStay
  <2>4. ASSUME NEW h \in Changes, Change(h) PROVE h = text' /\ d \in todo'[h]
    BY <2>3, <2>4 DEF Change, TypeOK
  <2>5. CASE UNCHANGED text
    <3>1. \/ snapshot[r] = text \/ Had("missed", copy[r])
          \/ \E h \in Changes : h = text /\ d \in todo[h]
      BY <2>1, <2>2, <2>3 DEF SnapshotInv
    <3>2. Had("missed", copy[r]) => Had("missed", copy[r])'
      BY <2>1, HistoryGrows DEF Had
    <3>3. ASSUME NEW h \in Changes, h = text, d \in todo[h]
          PROVE  snapshot[r] = text \/ Had("missed", copy[r])' \/ d \in todo'[h]
      <4>1. CASE ForwardCheck(h, d)
        BY <2>1, <2>2, <2>3, <3>3, <4>1, MissedBy DEF InFlight
      <4>2. ASSUME NEW c \in Docs, ForwardCheck(h, c), c # d PROVE d \in todo'[h]
        BY <3>3, <4>2 DEF ForwardCheck, TypeOK
      <4>3. CASE Forward(h) /\ \A c \in Docs : ~ForwardCheck(h, c)
        BY <2>3, <3>3, <4>3 DEF Forward, Change, ForwardLookup, ForwardIncrement,
                                TypeOK
      <4>4. CASE ~Forward(h)
        BY <3>3, <4>4, ForwardMoves
      <4>5. QED
        BY <4>1, <4>2, <4>3, <4>4
    <3>4. QED
      BY <2>1, <2>2, <2>5, <3>1, <3>2, <3>3
  <2>6. QED
    BY <2>1, <2>2, <2>4, <2>5, TrackerMoves
<1>4. QED
  BY <1>2, <1>3

(* An increment sends the change, or loses it. *)
LEMMA IncrementTells ==
  ASSUME TypeOK, [Next]_vars, NEW h \in Changes, NEW e \in Copies,
         ForwardIncrement(h), e = <<forwarding[h].doc, forwarding[h].server>>,
         document_versions[e] # 0
  PROVE  Had("lost", e)' \/ ~Kept(e)
<1>1. CASE received' = received
  <2>1. Suffer("lost", {e})
    BY <1>1 DEF ForwardIncrement, SufferIfUnsent
  <2>2. QED
    BY <2>1 DEF Suffer, Had
<1>2. CASE received' # received
  <2> DEFINE s == forwarding[h].server
             m == Msg("didChange", forwarding[h].doc, document_versions[e] + 1, h)
  <2>1. Send(s, generation[s], m)
    BY <1>2 DEF ForwardIncrement, SendFails
  <2>2. /\ s \in Servers /\ forwarding[h].doc \in Docs
        /\ document_versions[e] \in Nat /\ h \in Nat
    BY CarriedTypes DEF ForwardIncrement
  <2>3. m \in Messages
    BY <2>2 DEF Msg, Messages
  <2>4. Grown(received[s], received'[s], m)
    BY <1>2, <2>1, <2>2, <2>3, SendShape DEF Send
  <2>5. /\ e[2] = s /\ e[1] = m.doc /\ m.kind = "didChange"
    BY DEF Msg
  <2> HIDE DEF m
  <2>6. Len(received[s]) + 1 \in Pos(e)' /\ Len(received[s]) + 1 \notin Pos(e)
    BY <2>4, <2>5 DEF Grown, Pos, ContentAt
  <2>7. QED
    BY <2>6 DEF Kept
<1>3. QED
  BY <1>1, <1>2

LEMMA WayKept ==
  ASSUME OneServer, ServerInv, MarkingInv, [Next]_vars, UNCHANGED text,
         NEW e \in Copies, e[1] \in live', Kept(e), NEW i \in Pos(e),
         OnItsWay(e[1])
  PROVE  \/ OnItsWay(e[1])' \/ Had("missed", e)' \/ Had("lost", e)'
         \/ received[e[2]][i].content = text
<1> USE DEF ServerInv
<1> DEFINE d == e[1]
           Goal == \/ OnItsWay(d)' \/ Had("missed", e)' \/ Had("lost", e)'
                   \/ received[e[2]][i].content = text
<1>0. d \in live /\ d \in Docs
  BY TrackerMoves DEF RemoveRegions, Copies
<1>1. PICK h \in Changes :
        /\ h = text
        /\ d \in todo[h] \/ (forwarding[h] # None /\ forwarding[h].doc = d)
  BY DEF OnItsWay
<1>2. CASE ~Forward(h)
  BY <1>1, <1>2, ForwardMoves DEF OnItsWay
<1>3. CASE Change(h)
  BY <1>0, <1>3 DEF Change, OnItsWay, TypeOK
<1>4. ASSUME NEW c \in Docs, ForwardCheck(h, c), c # d PROVE Goal
  BY <1>1, <1>4 DEF ForwardCheck, OnItsWay, TypeOK
<1>5. CASE ForwardCheck(h, d) /\ d \in opened_documents
  <2> DEFINE f == [at |-> "lookup", doc |-> d, server |-> None]
  <2>1. forwarding'[h] = f
    BY <1>5 DEF ForwardCheck, TypeOK
  <2>2. f # None
    BY <1>0, NoneIsNoForwarding
  <2>3. QED
    BY <1>1, <2>1, <2>2 DEF OnItsWay
<1>6. CASE ForwardCheck(h, d) /\ d \notin opened_documents
  <2>1. PICK r \in Requests : /\ step[r] = "marking" /\ copy[r] = e
                              /\ received[e[2]][i].content = snapshot[r]
    BY <1>0, <1>6 DEF MarkingInv
  <2>2. snapshot[r] = text \/ Had("missed", copy[r])'
    <3>1. PICK c \in Docs : c = d
      BY <1>0
    <3>2. ForwardCheck(h, c) /\ c \notin opened_documents /\ copy[r][1] = c
      BY <1>6, <2>1, <3>1
    <3>3. InFlight(r)
      BY <2>1 DEF InFlight
    <3>4. QED
      BY <1>1, <3>2, <3>3, MissedBy
  <2>3. UNCHANGED copy
    BY <1>6 DEF ForwardCheck, requestVars
  <2>4. QED
    BY <2>1, <2>2, <2>3 DEF Had
<1>7. CASE ForwardLookup(h)
  <2>0. UNCHANGED todo /\ forwarding[h] # None
    BY <1>7 DEF ForwardLookup, At
  <2>1. CASE d \in todo[h]
    BY <1>1, <2>0, <2>1 DEF OnItsWay
  <2>2. CASE forwarding[h].doc = d
    <3>1. e \in host_to_virtual /\ e = <<forwarding[h].doc, e[2]>> /\ e[2] \in Servers
      BY <1>0, <2>0, <2>2 DEF MarkInv, Copies
    <3>2. PICK s \in Servers : forwarding' = [forwarding EXCEPT
             ![h] = [@ EXCEPT !.at = "increment", !.server = s]]
      BY <1>7, <3>1 DEF ForwardLookup
    <3>3. forwarding[h] \in [at : {"lookup"}, doc : Docs, server : {None}]
      BY <1>7 DEF ForwardLookup, At, TypeOK, Forwardings
    <3>4. forwarding'[h] \in [at : {"increment"}, doc : Docs, server : Servers]
          /\ forwarding'[h].doc = d
      BY <2>2, <3>2, <3>3 DEF TypeOK
    <3>5. QED
      BY <1>1, <3>4, NoneIsNoForwarding DEF OnItsWay
  <2>3. QED
    BY <1>1, <2>1, <2>2
<1>8. CASE ForwardIncrement(h)
  <2>0. UNCHANGED todo /\ forwarding[h] # None
    BY <1>8 DEF ForwardIncrement, At
  <2>1. CASE d \in todo[h]
    BY <1>1, <2>0, <2>1 DEF OnItsWay
  <2>2. CASE forwarding[h].doc = d
    <3>1. PICK c \in Copies : c = <<forwarding[h].doc, forwarding[h].server>>
      BY <1>8, CarriedTypes DEF ForwardIncrement
    <3>2. c = e
      BY <2>2, <3>1, SameCopy
    <3>3. document_versions[e] # 0
      BY <1>0, <2>0, <2>2 DEF MarkInv
    <3>4. QED
      BY <1>8, <3>1, <3>2, <3>3, IncrementTells
  <2>3. QED
    BY <1>1, <2>1, <2>2
<1>9. QED
  BY <1>2, <1>3, <1>4, <1>5, <1>6, <1>7, <1>8 DEF Forward

LEMMA LastPreserved ==
  ASSUME OneServer, ServerInv, MarkingInv, SnapshotInv, LastInv, [Next]_vars
  PROVE  LastInv'
<1> USE DEF ServerInv
<1>0. live' \subseteq live
  BY TrackerMoves DEF RemoveRegions
<1>1. SUFFICES ASSUME NEW e \in Copies, e[1] \in live', NEW i \in Pos(e)',
                      \A j \in Pos(e)' : j <= i
               PROVE  \/ received'[e[2]][i].content \in {text'} \cup overtaken'
                      \/ Had("missed", e)' \/ Had("lost", e)' \/ OnItsWay(e[1])'
  BY DEF LastInv
<1>2. e[1] \in live
  BY <1>0, <1>1
<1>3. ASSUME NEW h \in Changes, Change(h) PROVE OnItsWay(e[1])'
  BY <1>2, <1>3 DEF Change, OnItsWay, TypeOK
<1>4. CASE UNCHANGED text
  <2>1. CASE Kept(e)
    <3>1. /\ i \in Pos(e) /\ \A j \in Pos(e) : j <= i
          /\ received'[e[2]][i] = received[e[2]][i]
      BY <1>1, <2>1 DEF Kept
    <3>2. \/ received[e[2]][i].content \in {text} \cup overtaken
          \/ Had("missed", e) \/ Had("lost", e) \/ OnItsWay(e[1])
      BY <1>2, <3>1 DEF LastInv
    <3>3. /\ overtaken \subseteq overtaken'
          /\ Had("missed", e) => Had("missed", e)'
          /\ Had("lost", e) => Had("lost", e)'
      BY HistoryGrows DEF Had
    <3>4. CASE OnItsWay(e[1])
      BY <1>1, <1>4, <2>1, <3>1, <3>4, WayKept
    <3>5. QED
      BY <1>4, <3>1, <3>2, <3>3, <3>4
  <2>2. ASSUME NEW r \in Requests, Opens(r, e)
        PROVE  \/ received'[e[2]][i].content = text
               \/ Had("missed", e)' \/ OnItsWay(e[1])'
    <3>1. step[r] = "opening" /\ copy[r] = e /\ e[1] \notin opened_documents
      BY <1>2, <2>2, OnlyOpener DEF Opens
    <3>2. Pos(e) = {}
      BY <1>2, <3>1 DEF OnceInv
    <3>3. PICK n \in Nat : /\ Pos(e)' = {n}
                           /\ received'[e[2]][n] = Msg("didOpen", e[1], 1, snapshot[r])
      BY <2>2, <3>2 DEF Opens, Extends
    <3>4. received'[e[2]][i].content = snapshot[r]
      BY <1>1, <3>3 DEF Msg
    <3>5. \/ snapshot[r] = text \/ Had("missed", e)
          \/ \E h \in Changes : h = text /\ e[1] \in todo[h]
      BY <1>2, <3>1 DEF SnapshotInv
    <3>6. UNCHANGED todo
      BY <2>2 DEF Opens, SendDidOpen, changeVars
    <3>7. QED
      BY <1>4, <3>4, <3>5, <3>6, HistoryGrows DEF OnItsWay, Had
  <2>3. ASSUME NEW h \in Changes, Tells(h, e)
        PROVE  received'[e[2]][i].content \in {text} \cup overtaken
    <3>1. PICK n \in Nat : /\ \A j \in Pos(e) : j \in Nat /\ j < n
                           /\ Pos(e)' = Pos(e) \cup {n}
                           /\ received'[e[2]][n]
                                = Msg("didChange", e[1], document_versions[e] + 1, h)
      BY <2>3 DEF Tells, Extends
    <3>2. i = n
      BY <1>1, <3>1
    <3>3. h = text \/ h \in overtaken
      BY <2>3 DEF Tells, Counts, ForwardIncrement, At, Forwarding, AgeInv
    <3>4. QED
      BY <3>1, <3>2, <3>3 DEF Msg
  <2>4. QED
    BY <1>4, <2>1, <2>2, <2>3, PosMoves, HistoryGrows
<1>5. QED
  BY <1>3, <1>4, TrackerMoves

(* With one server, when all is quiet it was sent the client's text of a    *)
(* document last; what it has is older only from an overtaken change, from  *)
(* a snapshot that a change went by, or because a didChange did not get     *)
(* through.                                                                 *)
THEOREM OpenCopiesAreCurrent ==
  ASSUME OneServer
  PROVE  Spec => []CopiesCurrent
<1> DEFINE I == ServerInv /\ MarkingInv /\ SnapshotInv /\ LastInv
<1>1. Init => I
  BY InitServer, InitLast
<1>2. I /\ [Next]_vars => I'
  BY ServerPreserved, MarkingPreserved, SnapshotPreserved, LastPreserved
<1>3. I => CopiesCurrent
  <2> SUFFICES ASSUME I, Quiet, NEW s \in Servers, NEW d \in live,
                      NEW i \in DOMAIN received[s], LastContent(s, d, i)
               PROVE  \/ received[s][i].content \in {text} \cup overtaken
                      \/ Had("missed", <<d, s>>) \/ Had("lost", <<d, s>>)
    BY DEF CopiesCurrent
  <2> DEFINE e == <<d, s>>
  <2>1. e \in Copies /\ e[1] = d /\ e[2] = s
    BY DEF Copies, ServerInv, TypeOK
  <2>2. i \in Pos(e) /\ \A j \in Pos(e) : j <= i
    BY <2>1 DEF Pos, LastContent
  <2>3. ~OnItsWay(d)
    BY DEF OnItsWay, Quiet, Forwarding
  <2>4. QED
    BY <2>1, <2>2, <2>3 DEF LastInv
<1>4. QED
  BY <1>1, <1>2, <1>3, PTL DEF Spec

(* What the one server of an instance is left with.                         *)
THEOREM CopiesAreSettled ==
  ASSUME OneServer
  PROVE  Spec => []CopiesSettled
BY OpenCopiesAreCurrent, NothingElseIsOrphaned, PTL DEF CopiesSettled
=============================================================================
