--------------------------- MODULE ServersProofs ---------------------------
(***************************************************************************)
(* Theorems about Servers, for any number of clients, sessions, requests   *)
(* and calls of the API, and any values of the settings: nothing is left   *)
(* of what has ended, and the resources of the core are those of its       *)
(* configuration. There is an inductive invariant for each part.           *)
(***************************************************************************)
EXTENDS Servers, TLAPS

(* The RTMP server. A connection has a reader while its run waits for one, is on
   a path only while that reader works there, and is in the list from the moment
   the server takes it until it ends, unless it was kicked. *)
RTMPTypes ==
  /\ server \in {"running", "ending", "gone"}
  /\ ctxDone \in BOOLEAN
  /\ session \in [Clients -> {"none", "running", "closed", "ended", "gone"}]
  /\ reader \in [Clients ->
       {"none", "handshake", "adding", "pause", "reading", "publishing", "left"}]

RTMPConns ==
  \A c \in Clients :
    /\ session[c] \in {"running", "closed"} <=> reader[c] # "none"
    /\ c \in onPath => reader[c] \in {"reading", "publishing"}
    /\ session[c] = "none" => c \notin known
    /\ session[c] = "gone" /\ ~ctxDone => c \notin known
    /\ session[c] = "running" => c \in known \/ M!Done(c)

RTMPEnd ==
  /\ server = "gone" => ctxDone
  /\ closing # "no" => ctxDone
  /\ closing = "returned" =>
       server = "gone" /\ \A c \in Clients : session[c] \in {"none", "gone"}

RTMPInv == RTMPTypes /\ RTMPConns /\ RTMPEnd
-----------------------------------------------------------------------------
LEMMA RTMPInit == M!Init => RTMPInv
BY DEF M!Init, RTMPInv, RTMPTypes, RTMPConns, RTMPEnd

LEMMA RTMPStep ==
  ASSUME RTMPInv, M!Next
  PROVE  RTMPInv'
<1> USE DEF RTMPInv, RTMPTypes, RTMPConns, RTMPEnd, M!Done
<1>1. ASSUME NEW c \in Clients, M!NewConn(c) PROVE RTMPInv'
  BY <1>1 DEF M!NewConn
<1>2. ASSUME NEW c \in Clients, M!Identify(c) PROVE RTMPInv'
  BY <1>2 DEF M!Identify
<1>3. ASSUME NEW c \in Clients, M!Answered(c) PROVE RTMPInv'
  BY <1>3 DEF M!Answered
<1>4. ASSUME NEW c \in Clients, M!PauseEnds(c) PROVE RTMPInv'
  BY <1>4 DEF M!PauseEnds
<1>5. ASSUME NEW c \in Clients, M!Interrupt(c) PROVE RTMPInv'
  BY <1>5 DEF M!Interrupt
<1>6. ASSUME NEW c \in Clients, M!Joined(c) PROVE RTMPInv'
  BY <1>6 DEF M!Joined
<1>7. ASSUME NEW c \in Clients, M!CloseConn(c) PROVE RTMPInv'
  BY <1>7 DEF M!CloseConn
<1>8. ASSUME NEW c \in Clients, M!Leave(c) PROVE RTMPInv'
  BY <1>8 DEF M!Leave
<1>9. ASSUME NEW c \in Clients, M!Accept(c) \/ M!PathCloses(c) PROVE RTMPInv'
  BY <1>9 DEF M!Accept, M!PathCloses
<1>10. ASSUME NEW k \in Callers, M!List(k) \/ M!Get(k) \/ M!Terminated(k) \/ M!Ask(k)
       PROVE RTMPInv'
  <2>1. UNCHANGED <<server, ctxDone, known, session, reader, cancelled, onPath, closing>>
    <3>1. CASE M!List(k)
      BY <3>1 DEF M!List
    <3>2. CASE M!Get(k)
      BY <3>2 DEF M!Get
    <3>3. CASE M!Terminated(k)
      BY <3>3 DEF M!Terminated
    <3>4. CASE M!Ask(k)
      BY <3>4, Zenon DEF M!Ask
    <3> QED
      BY <1>10, <3>1, <3>2, <3>3, <3>4
  <2> QED
    BY <2>1
<1>11. ASSUME NEW k \in Callers, M!Kick(k) PROVE RTMPInv'
  BY <1>11 DEF M!Kick
<1>12. CASE M!AcceptFails \/ M!AcceptError \/ M!Terminate \/ M!EndServer \/ M!Close
  BY <1>12 DEF M!AcceptFails, M!AcceptError, M!Terminate, M!EndServer, M!Close
<1>13. CASE M!CloseReturns
  BY <1>13 DEF M!CloseReturns
<1> QED
  BY <1>1, <1>2, <1>3, <1>4, <1>5, <1>6, <1>7, <1>8, <1>9, <1>10, <1>11, <1>12, <1>13
     DEF M!Next, M!Step
-----------------------------------------------------------------------------
(* The RTSP server. While nobody is kicked s.path follows the state of the library;
   who was not kicked is in the list until the library has ended it, and on a path
   only in a state in which onClose takes it off. *)
RTSPTypes ==
  /\ session \in [Sessions -> {"none", "Initial", "PrePlay", "Play", "PreRecord", "Record", "gone"}]
  /\ handler \in [Sessions -> {"none", "SETUP", "ANNOUNCE"}]
  /\ crashed \in BOOLEAN
  /\ DOMAIN call = Kickers

RTSPSessions ==
  \A c \in Sessions :
    /\ session[c] \in {"none", "gone"} => handler[c] = "none" /\ c \notin known
    /\ session[c] = "none" => c \notin onPath /\ c \notin pathSet
    /\ session[c] \notin {"none", "gone"} /\ c \notin kicked => c \in known
    /\ c \in onPath /\ c \notin kicked => S!Playing(c) \/ S!Recording(c)

RTSPKicks ==
  /\ \A k \in Kickers, c \in Sessions : call[k] = <<"deleted", c>> => c \in kicked
  /\ kicked = {} =>
       /\ ~crashed
       /\ \A c \in Sessions :
            session[c] # "gone" => (c \in pathSet <=> S!Playing(c) \/ S!Recording(c))

RTSPInv == RTSPTypes /\ RTSPSessions /\ RTSPKicks

(* The steps of a call have different names. *)
LEMMA OnlyDeleted ==
  ASSUME NEW c, NEW d
  PROVE  /\ <<"idle">> # <<"deleted", c>> /\ <<"answered">> # <<"deleted", c>>
         /\ <<"terminated">> # <<"deleted", c>> /\ <<"not found">> # <<"deleted", c>>
         /\ <<"list">> # <<"deleted", c>> /\ <<"found", c>> # <<"deleted", d>>
         /\ <<"deleted", c>> = <<"deleted", d>> => c = d
OBVIOUS

LEMMA RTSPInit == S!Init => RTSPInv
BY OnlyDeleted DEF S!Init, RTSPInv, RTSPTypes, RTSPSessions, RTSPKicks, S!Playing, S!Recording

LEMMA RTSPStep ==
  ASSUME RTSPInv, S!Next
  PROVE  RTSPInv'
<1> USE DEF RTSPInv, RTSPTypes, RTSPSessions, RTSPKicks, S!Playing, S!Recording, S!Serves
<1>1. ASSUME NEW c \in Sessions, S!OnSessionOpen(c) PROVE RTSPInv'
  BY <1>1 DEF S!OnSessionOpen
<1>2. ASSUME NEW c \in Sessions, S!Request(c) PROVE RTSPInv'
  BY <1>2 DEF S!Request
<1>3. ASSUME NEW c \in Sessions, S!Answered(c) PROVE RTSPInv'
  BY <1>3 DEF S!Answered
<1>4. ASSUME NEW c \in Sessions, S!OnPlay(c) PROVE RTSPInv'
  BY <1>4 DEF S!OnPlay
<1>5. ASSUME NEW c \in Sessions, S!OnRecord(c) PROVE RTSPInv'
  <2>1. /\ UNCHANGED <<server, ctxDone, known, handler, pathSet, cancelled, onPath, call,
                      closing, kicked>>
        /\ session[c] = "PreRecord"
    BY <1>5 DEF S!OnRecord
  <2>2. CASE c \notin pathSet
    BY <1>5, <2>1, <2>2 DEF S!OnRecord
  <2>3. CASE c \in pathSet
    BY <1>5, <2>1, <2>3 DEF S!OnRecord
  <2> QED
    BY <2>2, <2>3
<1>6. ASSUME NEW c \in Sessions, S!OnPause(c) PROVE RTSPInv'
  BY <1>6 DEF S!OnPause
<1>7. ASSUME NEW c \in Sessions, S!PathCloses(c) \/ S!ClientGoes(c) PROVE RTSPInv'
  BY <1>7 DEF S!PathCloses, S!ClientGoes
<1>8. ASSUME NEW c \in Sessions, S!OnSessionClose(c) PROVE RTSPInv'
  BY <1>8 DEF S!OnSessionClose, S!LeavesPath
<1>9. ASSUME NEW k \in Kickers, S!KickDeletes(k) PROVE RTSPInv'
  <2>1. PICK c \in Sessions :
          /\ call' = [call EXCEPT ![k] = <<"deleted", c>>]
          /\ known' = known \ {c} /\ kicked' = kicked \cup {c}
          /\ onPath' \in SUBSET onPath /\ crashed' \in BOOLEAN
          /\ UNCHANGED <<session, handler, pathSet>>
    BY <1>9 DEF S!KickDeletes, S!LeavesPath
  <2>2. RTSPTypes' /\ RTSPSessions'
    BY <2>1
  <2>3. RTSPKicks'
    BY <2>1, OnlyDeleted
  <2> QED
    BY <2>2, <2>3
<1>10. ASSUME NEW k \in Kickers, S!KickReturns(k) PROVE RTSPInv'
  BY <1>10 DEF S!KickReturns
<1>11. ASSUME NEW k \in Kickers, S!ListReturns(k) \/ S!Ask(k) PROVE RTSPInv'
  <2>1. UNCHANGED <<known, session, handler, pathSet, onPath, crashed, kicked>>
    BY <1>11 DEF S!ListReturns, S!Ask
  <2>2. PICK op \in {<<"answered">>, <<"terminated">>, <<"list">>, <<"not found">>}
                   \cup {<<"found", c>> : c \in Sessions} :
          call' = [call EXCEPT ![k] = op]
    BY <1>11 DEF S!ListReturns, S!Ask
  <2>3. \A c : op # <<"deleted", c>>
    <3> TAKE c
    <3>1. CASE \E d \in Sessions : op = <<"found", d>>
      BY <3>1, OnlyDeleted
    <3>2. CASE op \in {<<"answered">>, <<"terminated">>, <<"list">>, <<"not found">>}
      BY <3>2, OnlyDeleted, Zenon
    <3> QED
      BY <2>2, <3>1, <3>2, Zenon
  <2>4. \A j \in Kickers, c \in Sessions : call'[j] = <<"deleted", c>> => call[j] = <<"deleted", c>>
    BY <2>2, <2>3
  <2> QED
    BY <2>1, <2>2, <2>4
<1>12. CASE S!EndServer \/ S!CloseReturns \/ S!ServerFails \/ S!Close
  BY <1>12 DEF S!EndServer, S!CloseReturns, S!ServerFails, S!Close
<1> QED
  BY <1>1, <1>2, <1>3, <1>4, <1>5, <1>6, <1>7, <1>8, <1>9, <1>10, <1>11, <1>12
     DEF S!Next, S!Step
-----------------------------------------------------------------------------
(* The WebRTC manager. A POST waits for its session exactly while that has an answer
   to give; a session is on a path only when the path manager said so; and when the
   loop of the manager has ended, its steps follow one another. *)
WebRTCTypes ==
  /\ server \in {"running", "ending", "stopping", "gone"}
  /\ ctxDone \in BOOLEAN
  /\ session \in [Clients ->
       {"none", "new", "adding", "offered", "refused", "connected", "ended", "gone"}]
  /\ reader \in [Clients -> {"none", "reading", "stuck", "gone"}]
  /\ post \in [Clients ->
       {"none", "reading", "asking", "new", "waiting", "failed", "answered"}]
  /\ DOMAIN patch = Patches
  /\ \A p \in Patches :
       patch[p] = W!Unsent \/ patch[p] \in [pc : {"reading", "asking", "adding", "answered", "failed"},
                                            on : Clients, bad : 0..MaxBad]

WebRTCSessions ==
  \A c \in Clients :
    /\ post[c] = "waiting" <=> session[c] \in {"adding", "offered", "refused"}
    /\ post[c] \in {"none", "reading", "asking"} => session[c] = "none"
    /\ c \in onPath => session[c] \in {"offered", "connected"}
    /\ session[c] = "gone" /\ ~ctxDone => c \notin known
    /\ session[c] \notin {"none", "ended", "gone"} => c \in known \/ W!Done(c)

WebRTCStuck ==
  \A c \in Clients : reader[c] = "stuck" =>
    \E p \in Patches, bad \in 1..MaxBad : patch[p] = [pc |-> "failed", on |-> c, bad |-> bad]

WebRTCEnd ==
  /\ server # "running" => ctxDone
  /\ closing # "no" => ctxDone
  /\ server \in {"stopping", "gone"} => \A c \in Clients : session[c] \in {"none", "gone"}
  /\ server = "gone" => ~W!InHandler
  /\ closing = "returned" => server = "gone"

WebRTCInv == WebRTCTypes /\ WebRTCSessions /\ WebRTCStuck /\ WebRTCEnd

LEMMA WebRTCInit == W!Init => WebRTCInv
BY DEF W!Init, WebRTCInv, WebRTCTypes, WebRTCSessions, WebRTCStuck, WebRTCEnd, W!Unsent,
       W!InHandler, W!ReadsBody, W!PostWaits

(* What neither a PATCH nor the goroutine that takes its candidates changes. *)
LEMMA StuckStays ==
  ASSUME WebRTCStuck, UNCHANGED patch,
         \A c \in Clients : reader'[c] = "stuck" => reader[c] = "stuck"
  PROVE  WebRTCStuck'
BY DEF WebRTCStuck

(* A PATCH that has not failed is not what left anybody stuck. *)
LEMMA StuckElsewhere ==
  ASSUME WebRTCStuck, NEW p \in Patches,
         \A q \in Patches : q # p => patch'[q] = patch[q],
         \A d \in Clients, n \in 1..MaxBad : patch[p] # [pc |-> "failed", on |-> d, bad |-> n]
  PROVE  \A c \in Clients : reader[c] = "stuck" =>
           \E q \in Patches, bad \in 1..MaxBad :
             patch'[q] = [pc |-> "failed", on |-> c, bad |-> bad]
<1> TAKE c \in Clients
<1> HAVE reader[c] = "stuck"
<1>1. PICK q \in Patches, bad \in 1..MaxBad : patch[q] = [pc |-> "failed", on |-> c, bad |-> bad]
  BY Zenon DEF WebRTCStuck
<1>2. q # p
  BY <1>1, Zenon
<1> QED
  BY <1>1, <1>2, Zenon

(* The handlers that are called do not begin again. *)
LEMMA HandlersStay ==
  ASSUME \A c \in Clients :
           \/ post'[c] = post[c] \/ post'[c] \notin {"reading", "asking", "new", "waiting"}
           \/ W!PostWaits(c) \/ post[c] = "reading",
         UNCHANGED patch, ~W!InHandler
  PROVE  ~W!InHandler'
BY DEF W!InHandler, W!ReadsBody, W!PostWaits

LEMMA WebRTCStep ==
  ASSUME WebRTCInv, W!Next
  PROVE  WebRTCInv'
<1> USE DEF WebRTCInv, WebRTCTypes, WebRTCSessions, WebRTCEnd, W!Done
<1>1. ASSUME NEW c \in Clients, W!Post(c) PROVE WebRTCInv'
  <2>1. WebRTCStuck'
    BY <1>1, StuckStays DEF W!Post
  <2> QED
    BY <1>1, <2>1 DEF W!Post
<1>2. ASSUME NEW c \in Clients, W!PostRead(c) PROVE WebRTCInv'
  <2>1. WebRTCStuck'
    BY <1>2, StuckStays DEF W!PostRead
  <2>2. server = "gone" => ~W!InHandler'
    BY <1>2, HandlersStay DEF W!PostRead
  <2> QED
    BY <1>2, <2>1, <2>2 DEF W!PostRead
<1>3. ASSUME NEW c \in Clients, W!NewSession(c) PROVE WebRTCInv'
  <2>1. WebRTCStuck'
    BY <1>3, StuckStays DEF W!NewSession
  <2>2. server = "gone" => ~W!InHandler'
    BY <1>3, HandlersStay DEF W!NewSession, W!PostWaits
  <2> QED
    BY <1>3, <2>1, <2>2 DEF W!NewSession
<1>4. ASSUME NEW c \in Clients, W!New(c) PROVE WebRTCInv'
  <2>1. WebRTCStuck'
    BY <1>4, StuckStays DEF W!New
  <2>2. server = "gone" => ~W!InHandler'
    BY <1>4, HandlersStay DEF W!New, W!PostWaits
  <2> QED
    BY <1>4, <2>1, <2>2 DEF W!New
<1>5. ASSUME NEW c \in Clients, W!NeverMet(c) \/ W!Answered(c) \/ W!Leave(c) \/ W!PathCloses(c)
      PROVE WebRTCInv'
  <2>1. WebRTCStuck'
    BY <1>5, StuckStays DEF W!NeverMet, W!Answered, W!Leave, W!PathCloses
  <2>2. ~W!InHandler => ~W!InHandler'
    BY <1>5, HandlersStay DEF W!NeverMet, W!Answered, W!Leave, W!PathCloses
  <2> QED
    BY <1>5, <2>1, <2>2 DEF W!NeverMet, W!Answered, W!Leave, W!PathCloses
<1>6. ASSUME NEW c \in Clients, W!Refuse(c) \/ W!WriteAnswer(c) PROVE WebRTCInv'
  <2>1. WebRTCStuck'
    BY <1>6, StuckStays DEF W!Refuse, W!WriteAnswer
  <2>2. server # "gone"
    BY <1>6 DEF W!Refuse, W!WriteAnswer
  <2> QED
    BY <1>6, <2>1, <2>2 DEF W!Refuse, W!WriteAnswer
<1>7. ASSUME NEW c \in Clients, W!CloseSession(c) PROVE WebRTCInv'
  <2>1. WebRTCStuck'
    BY <1>7, StuckStays DEF W!CloseSession
  <2>2. ~W!InHandler => ~W!InHandler'
    BY <1>7, HandlersStay DEF W!CloseSession
  <2> QED
    BY <1>7, <2>1, <2>2 DEF W!CloseSession
<1>8. ASSUME NEW c \in Clients, W!CandidatesEnd(c) PROVE WebRTCInv'
  <2>1. WebRTCStuck'
    BY <1>8, StuckStays DEF W!CandidatesEnd
  <2>2. ~W!InHandler => ~W!InHandler'
    BY <1>8, HandlersStay DEF W!CandidatesEnd
  <2> QED
    BY <1>8, <2>1, <2>2 DEF W!CandidatesEnd
<1>9. ASSUME NEW p \in Patches, W!Patch(p) PROVE WebRTCInv'
  <2>1. PICK c \in Clients, bad \in 0..MaxBad :
          patch' = [patch EXCEPT ![p] = [pc |-> "reading", on |-> c, bad |-> bad]]
    BY <1>9 DEF W!Patch
  <2>2. \A q \in Patches : q # p => patch'[q] = patch[q]
    BY <2>1
  <2>3. \A d \in Clients, n \in 1..MaxBad : patch[p] # [pc |-> "failed", on |-> d, bad |-> n]
    BY <1>9 DEF W!Patch, W!Unsent
  <2>4. WebRTCStuck'
    BY <1>9, <2>2, <2>3 DEF W!Patch, WebRTCStuck
  <2>5. WebRTCTypes'
    BY <1>9, <2>1 DEF W!Patch
  <2> QED
    BY <1>9, <2>4, <2>5 DEF W!Patch
<1>10. ASSUME NEW p \in Patches, W!AddSessionCandidates(p) PROVE WebRTCInv'
  <2>1. patch[p] \in [pc : {"asking"}, on : Clients, bad : 0..MaxBad]
    BY <1>10 DEF W!AddSessionCandidates, W!Unsent
  <2>2. \E pc \in {"adding", "failed"} : patch' = [patch EXCEPT ![p].pc = pc]
    BY <1>10 DEF W!AddSessionCandidates
  <2>3. WebRTCTypes'
    BY <1>10, <2>1, <2>2 DEF W!AddSessionCandidates
  <2>4. \A q \in Patches : q # p => patch'[q] = patch[q]
    BY <2>2
  <2>5. WebRTCStuck'
    <3>1. \A d \in Clients, n \in 1..MaxBad : patch[p] # [pc |-> "failed", on |-> d, bad |-> n]
      BY <2>1
    <3>2. UNCHANGED reader
      BY <1>10 DEF W!AddSessionCandidates
    <3> QED
      BY <2>4, <3>1, <3>2, StuckElsewhere, Zenon DEF WebRTCStuck
  <2>6. server = "gone" => ~W!InHandler'
    BY <1>10 DEF W!AddSessionCandidates, W!InHandler, W!ReadsBody
  <2> QED
    BY <1>10, <2>3, <2>5, <2>6 DEF W!AddSessionCandidates
<1>11. ASSUME NEW p \in Patches, W!PatchRead(p) PROVE WebRTCInv'
  <2>1. patch[p] \in [pc : {"reading"}, on : Clients, bad : 0..MaxBad]
    BY <1>11 DEF W!PatchRead, W!Unsent
  <2>2. \E pc \in {"asking", "failed"} : patch' = [patch EXCEPT ![p].pc = pc]
    BY <1>11 DEF W!PatchRead
  <2>3. WebRTCTypes'
    BY <1>11, <2>1, <2>2 DEF W!PatchRead
  <2>4. \A q \in Patches : q # p => patch'[q] = patch[q]
    BY <2>2
  <2>5. WebRTCStuck'
    <3>1. \A d \in Clients, n \in 1..MaxBad : patch[p] # [pc |-> "failed", on |-> d, bad |-> n]
      BY <2>1
    <3>2. UNCHANGED reader
      BY <1>11 DEF W!PatchRead
    <3> QED
      BY <2>4, <3>1, <3>2, StuckElsewhere, Zenon DEF WebRTCStuck
  <2>6. server = "gone" => ~W!InHandler'
    BY <1>11 DEF W!PatchRead, W!InHandler, W!ReadsBody
  <2> QED
    BY <1>11, <2>3, <2>5, <2>6 DEF W!PatchRead
<1>12. ASSUME NEW p \in Patches, W!AddCandidates(p) PROVE WebRTCInv'
  <2>1. patch[p] \in [pc : {"adding"}, on : Clients, bad : 0..MaxBad]
    BY <1>12 DEF W!AddCandidates, W!Unsent
  <2>2. PICK pc \in {"answered", "failed"} :
          /\ patch' = [patch EXCEPT ![p].pc = pc]
          /\ \/ UNCHANGED reader
             \/ /\ pc = "failed" /\ patch[p].bad # 0
                /\ reader' = [reader EXCEPT ![patch[p].on] = "stuck"]
    BY <1>12, <2>1 DEF W!AddCandidates
  <2>3. WebRTCTypes'
    BY <1>12, <2>1, <2>2 DEF W!AddCandidates
  <2>4. \A q \in Patches : q # p => patch'[q] = patch[q]
    BY <2>2
  <2>5. patch'[p] = [pc |-> pc, on |-> patch[p].on, bad |-> patch[p].bad]
    BY <2>1, <2>2
  <2>6. WebRTCStuck'
    <3>1. \A d \in Clients, n \in 1..MaxBad : patch[p] # [pc |-> "failed", on |-> d, bad |-> n]
      BY <2>1
    <3>2. \A c \in Clients : reader[c] = "stuck" =>
            \E q \in Patches, bad \in 1..MaxBad :
              patch'[q] = [pc |-> "failed", on |-> c, bad |-> bad]
      BY <2>4, <3>1, StuckElsewhere, Zenon
    <3>3. CASE UNCHANGED reader
      BY <3>2, <3>3, Zenon DEF WebRTCStuck
    <3>4. CASE /\ pc = "failed" /\ patch[p].bad # 0
               /\ reader' = [reader EXCEPT ![patch[p].on] = "stuck"]
      <4>1. patch[p].bad \in 1..MaxBad
        BY <2>1, <3>4, BadAssumption
      <4>2. patch'[p] = [pc |-> "failed", on |-> patch[p].on, bad |-> patch[p].bad]
        BY <2>5, <3>4, Zenon
      <4>3. \A c \in Clients : reader'[c] = "stuck" => reader[c] = "stuck" \/ c = patch[p].on
        BY <3>4
      <4> SUFFICES ASSUME NEW c \in Clients, reader'[c] = "stuck"
                   PROVE  \E q \in Patches, bad \in 1..MaxBad :
                            patch'[q] = [pc |-> "failed", on |-> c, bad |-> bad]
        BY Zenon DEF WebRTCStuck
      <4>4. CASE reader[c] = "stuck"
        BY <3>2, <4>4, Zenon
      <4>5. CASE c = patch[p].on
        <5>1. patch'[p] = [pc |-> "failed", on |-> c, bad |-> patch[p].bad]
          BY <4>2, <4>5, Zenon
        <5> QED
          BY <4>1, <5>1, Zenon
      <4> QED
        BY <4>3, <4>4, <4>5, Zenon
    <3> QED
      BY <2>2, <3>3, <3>4, Zenon
  <2>7. server # "gone"
    BY <1>12 DEF W!AddCandidates, W!InHandler, W!ReadsBody
  <2> QED
    BY <1>12, <2>3, <2>6, <2>7 DEF W!AddCandidates
<1>13. ASSUME NEW k \in Callers, W!List(k) \/ W!Get(k) \/ W!Terminated(k) \/ W!Ask(k)
       PROVE WebRTCInv'
  <2>1. UNCHANGED <<server, ctxDone, known, session, reader, cancelled, onPath, post, patch,
                    closing>>
    <3>1. CASE W!List(k)
      BY <3>1 DEF W!List
    <3>2. CASE W!Get(k)
      BY <3>2 DEF W!Get
    <3>3. CASE W!Terminated(k)
      BY <3>3 DEF W!Terminated
    <3>4. CASE W!Ask(k)
      BY <3>4, Zenon DEF W!Ask
    <3> QED
      BY <1>13, <3>1, <3>2, <3>3, <3>4
  <2> QED
    BY <2>1 DEF WebRTCStuck, W!InHandler, W!ReadsBody, W!PostWaits
<1>14. ASSUME NEW k \in Callers, W!Kick(k) PROVE WebRTCInv'
  <2>1. WebRTCStuck'
    BY <1>14, StuckStays DEF W!Kick
  <2> QED
    BY <1>14, <2>1 DEF W!Kick
<1>15. CASE W!EndServer \/ W!CloseReturns \/ W!Close
  <2>1. WebRTCStuck'
    BY <1>15, StuckStays DEF W!EndServer, W!CloseReturns, W!Close
  <2>2. ~W!InHandler => ~W!InHandler'
    BY <1>15, HandlersStay DEF W!EndServer, W!CloseReturns, W!Close
  <2> QED
    BY <1>15, <2>1, <2>2 DEF W!EndServer, W!CloseReturns, W!Close
<1> QED
  BY <1>1, <1>2, <1>3, <1>4, <1>5, <1>6, <1>7, <1>8, <1>9, <1>10, <1>11, <1>12, <1>13,
     <1>14, <1>15 DEF W!Next, W!Step
-----------------------------------------------------------------------------
(* The core. What is live was created with all that it uses and was live then; what
   is ahead of the core is what the reload closes, or what is still to be created,
   and nothing that is live uses what is still to be created. *)
CoreTypes ==
  /\ core \in {"creating", "running", "closing", "stopping", "gone"}
  /\ todo \in SUBSET C!Resources
  /\ DOMAIN resource = C!Resources

CoreUses ==
  \A r \in C!Resources : C!Live(r) =>
    /\ resource[r] = [given |-> resource[r].given, uses |-> {d \in C!Uses(r) : C!Live(d)}]
    /\ resource[r].given # <<>>

(* A resource is that of a configuration: there if it asks for it, and made of it. *)
Matches(r, c) ==
  /\ C!Live(r) <=> C!Enabled(r, c)
  /\ C!Live(r) => resource[r].given = C!Given(r, c)

CoreCreating ==
  core = "creating" =>
    \A r \in C!Resources :
      /\ r \notin todo => Matches(r, conf)
      /\ r \in todo => C!Enabled(r, conf) /\ ~C!Live(r)
      /\ C!Live(r) => C!Uses(r) \cap todo = {}

CoreRunning ==
  core = "running" => \A r \in C!Resources : Matches(r, conf)

CoreClosing ==
  core = "closing" =>
    \A r \in C!Resources :
      IF C!Closes(r, newConf) THEN C!Live(r) <=> r \in todo
                              ELSE r \notin todo /\ Matches(r, newConf)

CoreStopping ==
  /\ core = "stopping" => \A r \in C!Resources : C!Live(r) <=> r \in todo
  /\ core = "gone" => \A r \in C!Resources : ~C!Live(r)

CoreInv == CoreTypes /\ CoreUses /\ CoreCreating /\ CoreRunning /\ CoreClosing /\ CoreStopping

LEMMA ResourcesAre ==
  C!Resources = {"metrics", "pprof", "cleaner", "pathManager", "rtsp", "rtsps", "rtmp", "rtmps",
                 "webRTC"}
BY DEF C!Resources, C!Order

(* What a resource uses is created before it, and so closed after it. *)
LEMMA UsesAreBefore ==
  ASSUME NEW r \in C!Resources, NEW d \in C!Uses(r)
  PROVE  d \in C!Resources /\ ~(C!Order[r] <= C!Order[d])
BY ResourcesAre DEF C!Uses, C!Order

(* What a configuration does not close is asked for by both, was created from what
   both give it, but for the paths of the path manager, and uses nothing that closes. *)
LEMMA KeptIsTheSame ==
  ASSUME NEW r \in C!Resources, NEW c, ~C!Closes(r, c)
  PROVE  /\ C!Enabled(r, c) <=> C!Enabled(r, conf)
         /\ r # "pathManager" => C!Given(r, c) = C!Given(r, conf)
         /\ \A d \in C!Uses(r) : ~C!Closes(d, c)
<1> USE DEF C!Closes, C!ClosesMetrics, C!ClosesPathManager, C!Enabled, C!Given, C!Uses
<1>1. CASE r \in {"metrics", "pprof", "cleaner"}
  BY <1>1
<1>2. CASE r = "pathManager"
  BY <1>2
<1>3. CASE r \in {"rtsp", "rtsps", "rtmp", "rtmps"}
  BY <1>3
<1>4. CASE r = "webRTC"
  BY <1>4
<1> QED
  BY <1>1, <1>2, <1>3, <1>4, ResourcesAre

LEMMA GivenIsSomething ==
  ASSUME NEW r, NEW c
  PROVE  C!Given(r, c) # <<>>
BY DEF C!Given

(* A record that was created, and what it is when another resource is forgotten or
   its paths are changed. *)
LEMMA CreatedIsLive ==
  ASSUME NEW g, g # <<>>, NEW u
  PROVE  [given |-> g, uses |-> u] # C!None
<1> SUFFICES ASSUME [given |-> g, uses |-> u] = C!None PROVE FALSE
  OBVIOUS
<1>1. [given |-> g, uses |-> u].given = C!None.given
  OBVIOUS
<1> QED
  BY <1>1 DEF C!None

LEMMA Forgets ==
  ASSUME NEW g, NEW u, NEW r, NEW h
  PROVE  /\ [[given |-> g, uses |-> u] EXCEPT !.uses = @ \ {r}] = [given |-> g, uses |-> u \ {r}]
         /\ [[given |-> g, uses |-> u] EXCEPT !.given = h] = [given |-> h, uses |-> u]
         /\ [C!None EXCEPT !.uses = @ \ {r}] = C!None
<1>1. \A f, v, w : [[given |-> f, uses |-> v] EXCEPT !.uses = w] = [given |-> f, uses |-> w]
  OBVIOUS
<1>2. \A f, v, w : [[given |-> f, uses |-> v] EXCEPT !.given = w] = [given |-> w, uses |-> v]
  OBVIOUS
<1>3. {} \ {r} = {}
  OBVIOUS
<1>4. [given |-> g, uses |-> u].uses = u /\ C!None.uses = {}
  BY DEF C!None
<1>5. [[given |-> g, uses |-> u] EXCEPT !.uses = @ \ {r}] = [given |-> g, uses |-> u \ {r}]
  BY <1>1, <1>4
<1>6. [C!None EXCEPT !.uses = @ \ {r}] = C!None
  <2>1. [C!None EXCEPT !.uses = @ \ {r}] = [C!None EXCEPT !.uses = {}]
    BY <1>3, <1>4
  <2> QED
    BY <2>1, <1>1 DEF C!None
<1> QED
  BY <1>2, <1>5, <1>6

LEMMA CoreInit == C!Init => CoreInv
BY DEF C!Init, CoreInv, CoreTypes, CoreUses, CoreCreating, CoreRunning, CoreClosing,
       CoreStopping, Matches, C!Live, C!None

(* A resource is created. *)
LEMMA CoreCreate ==
  ASSUME CoreInv, C!Create
  PROVE  CoreInv'
<1> USE DEF CoreInv, CoreTypes
<1>1. PICK r \in C!Resources :
        /\ C!IsFirst(r, todo)
        /\ resource' = [resource EXCEPT ![r] =
             [given |-> C!Given(r, conf), uses |-> {d \in C!Uses(r) : C!Live(d)}]]
        /\ todo' = todo \ {r}
  BY DEF C!Create
<1>2. core = "creating" /\ UNCHANGED <<conf, newConf, core>>
  BY DEF C!Create
<1>3. r \in todo /\ \A o \in todo : C!Order[r] <= C!Order[o]
  BY <1>1 DEF C!IsFirst
<1>4. \A o \in C!Resources : o # r => resource'[o] = resource[o]
  BY <1>1
<1>5. resource'[r] = [given |-> C!Given(r, conf), uses |-> {d \in C!Uses(r) : C!Live(d)}]
  BY <1>1
<1>6. /\ C!Live(r)'
      /\ \A o \in C!Resources : o # r => (C!Live(o)' <=> C!Live(o))
  <2>1. C!Live(r)'
    BY <1>5, GivenIsSomething, CreatedIsLive DEF C!Live
  <2> QED
    BY <2>1, <1>4 DEF C!Live
<1>7. \A o \in C!Resources : C!Live(o) => r \notin C!Uses(o)
  BY <1>2, <1>3 DEF CoreCreating
<1>8. r \notin C!Uses(r) /\ C!Uses(r) \cap todo = {}
  BY <1>3, UsesAreBefore
<1>9. \A o \in C!Resources :
        C!Live(o) \/ o = r =>
          {d \in C!Uses(o) : C!Live(d)'} = {d \in C!Uses(o) : C!Live(d)}
  BY <1>6, <1>7, <1>8, UsesAreBefore
<1>10. CoreUses'
  <2> SUFFICES ASSUME NEW o \in C!Resources, C!Live(o)'
               PROVE  /\ resource'[o] = [given |-> resource'[o].given,
                                         uses |-> {d \in C!Uses(o) : C!Live(d)'}]
                      /\ resource'[o].given # <<>>
    BY DEF CoreUses
  <2>1. CASE o = r
    BY <2>1, <1>5, <1>9, GivenIsSomething
  <2>2. CASE o # r
    BY <2>2, <1>4, <1>6, <1>9 DEF CoreUses
  <2> QED
    BY <2>1, <2>2
<1>11. CoreCreating'
  BY <1>1, <1>2, <1>3, <1>4, <1>5, <1>6, <1>8 DEF CoreCreating, Matches
<1>12. CoreTypes'
  BY <1>1, <1>2
<1> QED
  BY <1>2, <1>10, <1>11, <1>12 DEF CoreRunning, CoreClosing, CoreStopping

(* A resource is closed under those that still name it, which are none: they only
   forget it. *)
LEMMA CoreClose ==
  ASSUME CoreInv, C!CloseResource
  PROVE  CoreInv'
<1> USE DEF CoreInv, CoreTypes
<1>1. PICK r \in C!Resources :
        /\ C!IsLast(r, todo)
        /\ resource' = [o \in C!Resources |->
             IF o = r THEN C!None ELSE [resource[o] EXCEPT !.uses = @ \ {r}]]
        /\ todo' = todo \ {r}
  BY DEF C!CloseResource
<1>2. core \in {"closing", "stopping"} /\ UNCHANGED <<conf, newConf, core>>
  BY DEF C!CloseResource
<1>3. r \in todo
  BY <1>1 DEF C!IsLast
<1>4. ~C!Live(r)'
  BY <1>1 DEF C!Live
<1>5. \A o \in C!Resources : o # r /\ ~C!Live(o) => resource'[o] = C!None
  BY <1>1, Forgets DEF C!Live
<1>6. \A o \in C!Resources : o # r /\ C!Live(o) =>
        /\ resource'[o] = [given |-> resource[o].given,
                           uses |-> {d \in C!Uses(o) : C!Live(d)} \ {r}]
        /\ resource'[o].given = resource[o].given /\ resource[o].given # <<>>
  <2> SUFFICES ASSUME NEW o \in C!Resources, o # r, C!Live(o)
               PROVE  /\ resource'[o] = [given |-> resource[o].given,
                                         uses |-> {d \in C!Uses(o) : C!Live(d)} \ {r}]
                      /\ resource'[o].given = resource[o].given /\ resource[o].given # <<>>
    OBVIOUS
  <2> DEFINE g == resource[o].given
             u == {d \in C!Uses(o) : C!Live(d)}
  <2>1. resource[o] = [given |-> g, uses |-> u] /\ g # <<>>
    BY DEF CoreUses
  <2>2. resource'[o] = [resource[o] EXCEPT !.uses = @ \ {r}]
    BY <1>1
  <2> HIDE DEF g, u
  <2>3. resource'[o] = [given |-> g, uses |-> u \ {r}]
    BY <2>1, <2>2, Forgets
  <2>4. resource'[o].given = g
    BY <2>3
  <2> QED
    BY <2>1, <2>3, <2>4 DEF g, u
<1>7. \A o \in C!Resources : o # r => (C!Live(o)' <=> C!Live(o))
  <2> TAKE o \in C!Resources
  <2>1. CASE resource[o] = C!None
    BY <1>5, <1>6, <2>1 DEF C!Live
  <2>2. CASE resource[o] # C!None
    BY <1>5, <1>6, <2>2, CreatedIsLive DEF C!Live
  <2> QED
    BY <2>1, <2>2
<1>8. CoreUses'
  <2> SUFFICES ASSUME NEW o \in C!Resources, C!Live(o)'
               PROVE  /\ resource'[o] = [given |-> resource'[o].given,
                                         uses |-> {d \in C!Uses(o) : C!Live(d)'}]
                      /\ resource'[o].given # <<>>
    BY DEF CoreUses
  <2>1. {d \in C!Uses(o) : C!Live(d)'} = {d \in C!Uses(o) : C!Live(d)} \ {r}
    BY <1>4, <1>7, UsesAreBefore
  <2> QED
    <3>1. o # r /\ C!Live(o)
      BY <1>4, <1>7
    <3>2. resource'[o] = [given |-> resource[o].given, uses |-> {d \in C!Uses(o) : C!Live(d)'}]
      BY <2>1, <3>1, <1>6
    <3> QED
      BY <3>1, <3>2, <1>6
<1>9. CoreClosing'
  <2> SUFFICES ASSUME core = "closing", NEW o \in C!Resources
               PROVE  IF C!Closes(o, newConf) THEN C!Live(o)' <=> o \in todo'
                        ELSE o \notin todo' /\ Matches(o, newConf)'
    BY <1>2 DEF CoreClosing, C!Closes, C!ClosesMetrics, C!ClosesPathManager
  <2>1. C!Closes(r, newConf)
    BY <1>3 DEF CoreClosing
  <2>2. CASE C!Closes(o, newConf)
    BY <2>2, <1>1, <1>4, <1>7 DEF CoreClosing
  <2>3. CASE ~C!Closes(o, newConf)
    <3>1. o # r /\ o \notin todo' /\ Matches(o, newConf)
      BY <2>1, <2>3, <1>1 DEF CoreClosing
    <3>2. C!Live(o) => resource'[o].given = resource[o].given
      BY <3>1, <1>6
    <3>3. Matches(o, newConf)'
      BY <3>1, <3>2, <1>2, <1>7 DEF Matches
    <3> QED
      BY <2>3, <3>1, <3>3
  <2> QED
    BY <2>2, <2>3
<1>10. CoreStopping'
  BY <1>1, <1>2, <1>4, <1>7 DEF CoreStopping
<1>11. CoreTypes'
  BY <1>1, <1>2
<1> QED
  BY <1>2, <1>8, <1>9, <1>10, <1>11 DEF CoreCreating, CoreRunning

(* A reload gives the paths to a path manager that it does not close. *)
LEMMA CoreReload ==
  ASSUME CoreInv, C!ReloadConf
  PROVE  CoreInv'
<1> USE DEF CoreInv, CoreTypes
<1>1. core = "running" /\ core' = "closing" /\ conf' = conf
  BY DEF C!ReloadConf
<1>2. /\ resource' = C!Reloaded(newConf')
      /\ todo' = {r \in C!Resources : C!Closes(r, newConf') /\ C!Live(r)}
  BY DEF C!ReloadConf
<1> DEFINE pm == "pathManager"
<1>3. pm \in C!Resources /\ C!Live(pm)
  BY <1>1, ResourcesAre DEF CoreRunning, Matches, C!Enabled
<1>4. \A r \in C!Resources : r # pm \/ C!Closes(pm, newConf') => resource'[r] = resource[r]
  BY <1>2 DEF C!Reloaded, C!Closes
<1>5. ~C!Closes(pm, newConf') =>
        resource'[pm] = [given |-> C!Given(pm, newConf'), uses |-> {d \in C!Uses(pm) : C!Live(d)}]
  <2> SUFFICES ASSUME ~C!Closes(pm, newConf')
               PROVE  resource'[pm] = [given |-> C!Given(pm, newConf'),
                                       uses |-> {d \in C!Uses(pm) : C!Live(d)}]
    OBVIOUS
  <2> DEFINE u == {d \in C!Uses(pm) : C!Live(d)}
  <2>1. resource[pm] = [given |-> resource[pm].given, uses |-> u]
    BY <1>3 DEF CoreUses
  <2>2. resource' = [resource EXCEPT ![pm].given = C!Given(pm, newConf')]
    BY <1>2 DEF C!Reloaded, C!Closes
  <2>3. resource'[pm] = [resource[pm] EXCEPT !.given = C!Given(pm, newConf')]
    BY <2>2, <1>3
  <2> QED
    BY <2>1, <2>3, Forgets
<1>6. \A r \in C!Resources : C!Live(r)' <=> C!Live(r)
  <2>1. C!Live(pm)'
    <3>1. CASE C!Closes(pm, newConf')
      BY <3>1, <1>3, <1>4 DEF C!Live
    <3>2. CASE ~C!Closes(pm, newConf')
      BY <3>2, <1>5, GivenIsSomething, CreatedIsLive DEF C!Live
    <3> QED
      BY <3>1, <3>2
  <2> QED
    BY <2>1, <1>3, <1>4 DEF C!Live
<1>7. \A r \in C!Resources : {d \in C!Uses(r) : C!Live(d)'} = {d \in C!Uses(r) : C!Live(d)}
  BY <1>6, UsesAreBefore
<1>8. CoreUses'
  <2> SUFFICES ASSUME NEW r \in C!Resources, C!Live(r)
               PROVE  /\ resource'[r] = [given |-> resource'[r].given,
                                         uses |-> {d \in C!Uses(r) : C!Live(d)}]
                      /\ resource'[r].given # <<>>
    BY <1>6, <1>7 DEF CoreUses
  <2>1. CASE r # pm \/ C!Closes(pm, newConf')
    BY <2>1, <1>4 DEF CoreUses
  <2>2. CASE r = pm /\ ~C!Closes(pm, newConf')
    <3>1. resource'[r] = [given |-> C!Given(pm, newConf'), uses |-> {d \in C!Uses(r) : C!Live(d)}]
      BY <2>2, <1>5
    <3> HIDE DEF pm
    <3> QED
      BY <3>1, GivenIsSomething
  <2> QED
    BY <2>1, <2>2
<1>9. CoreClosing'
  <2> SUFFICES ASSUME NEW r \in C!Resources
               PROVE  IF C!Closes(r, newConf') THEN C!Live(r)' <=> r \in todo'
                        ELSE r \notin todo' /\ Matches(r, newConf)'
    BY <1>1 DEF CoreClosing, C!Closes, C!ClosesMetrics, C!ClosesPathManager
  <2>1. CASE C!Closes(r, newConf')
    BY <2>1, <1>2, <1>6
  <2>2. CASE ~C!Closes(r, newConf')
    <3>1. Matches(r, conf)
      BY <1>1 DEF CoreRunning
    <3>2. C!Enabled(r, newConf') <=> C!Enabled(r, conf)
      BY <2>2, KeptIsTheSame
    <3>3. C!Live(r) => resource'[r].given = C!Given(r, newConf')
      <4>1. CASE r = pm
        BY <4>1, <2>2, <1>5
      <4>2. CASE r # pm
        BY <4>2, <2>2, <3>1, <1>4, KeptIsTheSame DEF Matches
      <4> QED
        BY <4>1, <4>2
    <3>4. Matches(r, newConf)'
      BY <3>1, <3>2, <3>3, <1>6 DEF Matches
    <3> QED
      BY <2>2, <3>4, <1>2
  <2> QED
    BY <2>1, <2>2
<1>10. CoreTypes'
  BY <1>1, <1>2, <1>3 DEF C!Reloaded
<1> QED
  BY <1>1, <1>8, <1>9, <1>10 DEF CoreCreating, CoreRunning, CoreStopping

LEMMA CoreStep ==
  ASSUME CoreInv, C!Next
  PROVE  CoreInv'
<1> USE DEF CoreInv, CoreTypes
<1>1. CASE C!Create
  BY <1>1, CoreCreate
<1>2. CASE C!Created
  <2>1. CoreUses'
    BY <1>2 DEF C!Created, CoreUses, C!Live
  <2>2. CoreRunning'
    BY <1>2 DEF C!Created, CoreCreating, CoreRunning, Matches, C!Live
  <2> QED
    BY <1>2, <2>1, <2>2 DEF C!Created, CoreCreating, CoreClosing, CoreStopping
<1>3. CASE C!CloseResource
  BY <1>3, CoreClose
<1>4. CASE C!Closed
  <2>1. CoreUses'
    BY <1>4 DEF C!Closed, CoreUses, C!Live
  <2>2. \A r \in C!Resources : C!Live(r)' <=> C!Live(r)
    BY <1>4 DEF C!Closed, C!Live
  <2>3. CASE core = "closing"
    <3>1. /\ core' = "creating" /\ conf' = newConf /\ todo = {} /\ UNCHANGED resource
          /\ todo' = {r \in C!Resources : C!Enabled(r, newConf) /\ ~C!Live(r)}
      BY <1>4, <2>3 DEF C!Closed
    <3>2. \A r \in C!Resources : IF C!Closes(r, newConf) THEN ~C!Live(r) ELSE Matches(r, newConf)
      BY <2>3, <3>1 DEF CoreClosing
    <3>3. \A r \in C!Resources : C!Live(r) => C!Uses(r) \cap todo' = {}
      BY <3>1, <3>2, KeptIsTheSame, UsesAreBefore DEF Matches
    <3>4. CoreCreating'
      BY <2>2, <3>1, <3>2, <3>3 DEF CoreCreating, Matches
    <3> QED
      BY <2>1, <3>1, <3>4 DEF CoreRunning, CoreClosing, CoreStopping
  <2>4. CASE core = "stopping"
    <3>1. core' = "gone" /\ todo = {} /\ UNCHANGED <<resource, todo>>
      BY <1>4, <2>4 DEF C!Closed
    <3>2. CoreStopping'
      BY <2>2, <2>4, <3>1 DEF CoreStopping
    <3> QED
      BY <2>1, <3>1, <3>2 DEF CoreCreating, CoreRunning, CoreClosing
  <2> QED
    BY <1>4, <2>3, <2>4 DEF C!Closed
<1>5. CASE C!Stop
  <2>1. CoreUses'
    BY <1>5 DEF C!Stop, CoreUses, C!Live
  <2> QED
    BY <1>5, <2>1 DEF C!Stop, CoreCreating, CoreRunning, CoreClosing, CoreStopping, C!Live
<1>6. CASE C!ReloadConf
  BY <1>6, CoreReload
<1> QED
  BY <1>1, <1>2, <1>3, <1>4, <1>5, <1>6 DEF C!Next, C!Step
-----------------------------------------------------------------------------
(* The four parts together. *)
ServersInv ==
  /\ part \in {"rtmp", "rtsp", "webRTC", "core"}
  /\ part = "rtmp" => RTMPInv
  /\ part = "rtsp" => RTSPInv
  /\ part = "webRTC" => WebRTCInv
  /\ part = "core" => CoreInv

LEMMA ServersStart == Init => ServersInv
BY RTMPInit, RTSPInit, WebRTCInit, CoreInit DEF Init, ServersInv

(* A step of a part preserves its invariant, and the others say nothing then. *)
LEMMA ServersStep ==
  ASSUME ServersInv, [Next]_vars
  PROVE  ServersInv'
<1>1. CASE OfRTMP(M!Next)
  BY <1>1, RTMPStep DEF ServersInv, OfRTMP
<1>2. CASE OfRTSP(S!Next)
  BY <1>2, RTSPStep DEF ServersInv, OfRTSP
<1>3. CASE OfWebRTC(W!Next)
  BY <1>3, WebRTCStep DEF ServersInv, OfWebRTC
<1>4. CASE OfCore(C!Next)
  BY <1>4, CoreStep DEF ServersInv, OfCore
<1>5. CASE UNCHANGED vars
  <2>1. UNCHANGED part /\ UNCHANGED serverVars /\ UNCHANGED rtspVars /\ UNCHANGED webRTCVars
        /\ UNCHANGED reader /\ UNCHANGED coreVars
    BY <1>5 DEF vars
  <2>2. RTMPInv => RTMPInv'
    BY <2>1 DEF serverVars, RTMPInv, RTMPTypes, RTMPConns, RTMPEnd, M!Done
  <2>3. RTSPInv => RTSPInv'
    BY <2>1 DEF serverVars, rtspVars, RTSPInv, RTSPTypes, RTSPSessions, RTSPKicks, S!Playing,
                S!Recording
  <2>4. WebRTCInv => WebRTCInv'
    BY <2>1 DEF serverVars, webRTCVars, WebRTCInv, WebRTCTypes, WebRTCSessions, WebRTCStuck,
                WebRTCEnd, W!Done, W!InHandler, W!ReadsBody, W!PostWaits
  <2>5. CoreInv => CoreInv'
    BY <2>1 DEF coreVars, CoreInv, CoreTypes, CoreUses, CoreCreating, CoreRunning, CoreClosing,
                CoreStopping, Matches, C!Live, C!Closes, C!ClosesMetrics, C!ClosesPathManager
  <2> QED
    BY <2>1, <2>2, <2>3, <2>4, <2>5 DEF ServersInv
<1> QED
  BY <1>1, <1>2, <1>3, <1>4, <1>5 DEF Next

LEMMA ServersAlways == Spec => []ServersInv
<1>1. ServersInv /\ [Next]_vars => ServersInv'
  BY ServersStep
<1> QED
  BY ServersStart, <1>1, PTL DEF Spec

(* A session of any of the servers that has ended is in no list and on no path, but
   for what the calls of the API do to those of RTSP, and a closed server has nothing
   running: run and close of core/rtmp_server.go, rtsp_server.go, webrtc_manager.go. *)
THEOREM NothingLeftBehind == Spec => []NothingIsLeft
<1>1. ServersInv => NothingIsLeft
  <2> SUFFICES ASSUME ServersInv PROVE NothingIsLeft
    OBVIOUS
  <2>1. part = "rtmp" => M!NothingIsLeft
    BY DEF ServersInv, RTMPInv, RTMPTypes, RTMPConns, RTMPEnd, M!NothingIsLeft
  <2>2. part = "rtsp" => S!NothingIsLeft
    BY DEF ServersInv, RTSPInv, RTSPTypes, RTSPSessions, RTSPKicks, S!NothingIsLeft, S!Playing,
           S!Recording
  <2>3. part = "webRTC" => W!NothingIsLeft
    BY DEF ServersInv, WebRTCInv, WebRTCTypes, WebRTCSessions, WebRTCStuck, WebRTCEnd,
           W!NothingIsLeft
  <2> QED
    BY <2>1, <2>2, <2>3 DEF NothingIsLeft
<1> QED
  BY <1>1, ServersAlways, PTL

(* Whatever the configurations, no resource of the core works with one that was closed
   under it, and when the core waits for a request, its resources are those that its
   configuration asks for, made of what it says now: closeResources, createResources. *)
THEOREM ResourcesCorrect == Spec => []ResourcesMatchConf
<1>1. ServersInv => ResourcesMatchConf
  <2> SUFFICES ASSUME CoreInv PROVE C!ResourcesMatchConf
    BY DEF ServersInv, ResourcesMatchConf
  <2>1. \A r \in C!Resources : C!Live(r) => resource[r].uses = {d \in C!Uses(r) : C!Live(d)}
    <3> TAKE r \in C!Resources
    <3> DEFINE g == resource[r].given
               u == {d \in C!Uses(r) : C!Live(d)}
    <3>1. C!Live(r) => resource[r] = [given |-> g, uses |-> u]
      BY DEF CoreInv, CoreUses
    <3> HIDE DEF g, u
    <3>2. C!Live(r) => resource[r].uses = u
      BY <3>1
    <3> QED
      BY <3>2 DEF u
  <2> QED
    BY <2>1 DEF CoreInv, CoreRunning, CoreStopping, Matches, C!ResourcesMatchConf
<1> QED
  BY <1>1, ServersAlways, PTL
=============================================================================
