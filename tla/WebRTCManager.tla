---------------------------- MODULE WebRTCManager ----------------------------
(***************************************************************************)
(* The WebRTC manager of core/webrtc_manager.go, its sessions              *)
(* (core/webrtc_session.go) and the handlers of the HTTP server that call  *)
(* it (core/webrtc_http_server.go). A session has the goroutine of run and *)
(* that of readRemoteCandidates; a POST creates a session and waits for    *)
(* its answer, a PATCH hands it candidates. Channels are unbuffered.       *)
(***************************************************************************)
EXTENDS Naturals, FiniteSets

CONSTANTS
  Clients,    \* POST requests, and the sessions they create
  Callers,    \* calls of the API
  Patches,    \* PATCH requests
  MaxBad      \* most candidates of a PATCH that fail

VARIABLES
  server,     \* goroutine of run: "running", "ending" (waiting for the sessions),
              \* "stopping" (closing the HTTP server), "gone"
  ctxDone,    \* the context of the manager is done
  known,      \* m.sessions, and m.sessionsBySecret
  session,    \* of a session, the goroutine of run
  reader,     \* of a session, the goroutine of readRemoteCandidates
  cancelled,  \* the sessions whose own context is done
  onPath,     \* the sessions that a path has as publisher or reader
  post,       \* of a POST, where its handler is
  patch,      \* of a PATCH, its session, how many candidates fail, where its handler is
  call,       \* of a call of the API, where it is
  closing     \* close(): "no", "waiting", "returned"

vars == <<server, ctxDone, known, session, reader, cancelled, onPath, post, patch, call, closing>>

Unsent == [pc |-> "none"]

Init ==
  /\ server = "running" /\ ctxDone = FALSE
  /\ known = {} /\ cancelled = {} /\ onPath = {}
  /\ session = [c \in Clients |-> "none"]
  /\ reader = [c \in Clients |-> "none"]
  /\ post = [c \in Clients |-> "none"]
  /\ patch = [p \in Patches |-> Unsent]
  /\ call = [k \in Callers |-> <<"idle">>]
  /\ closing = "no"

(* The context of a session is a child of the manager's. *)
Done(c) == ctxDone \/ c \in cancelled
-----------------------------------------------------------------------------
(* A POST: the handler reads the body, for which there is no deadline: the peer sends *)
(* all of it, or goes. Then newSession asks the manager, and the session.             *)
Post(c) ==
  /\ server # "gone" /\ post[c] = "none"
  /\ post' = [post EXCEPT ![c] = "reading"]
  /\ UNCHANGED <<server, ctxDone, known, session, reader, cancelled, onPath, patch, call, closing>>

PostRead(c) ==
  /\ post[c] = "reading"
  /\ \E next \in {"asking", "failed"} : post' = [post EXCEPT ![c] = next]
  /\ UNCHANGED <<server, ctxDone, known, session, reader, cancelled, onPath, patch, call, closing>>

NewSession(c) ==
  /\ post[c] = "asking"
  /\ \/ /\ server = "running"
        /\ session' = [session EXCEPT ![c] = "new"]
        /\ known' = known \cup {c}
        /\ post' = [post EXCEPT ![c] = "new"]
     \/ ctxDone /\ post' = [post EXCEPT ![c] = "failed"] /\ UNCHANGED <<session, known>>
  /\ UNCHANGED <<server, ctxDone, reader, cancelled, onPath, patch, call, closing>>

(* webRTCSession.new meets runInner; each may find the context done instead. *)
New(c) ==
  /\ post[c] = "new"
  /\ \/ /\ session[c] = "new"
        /\ session' = [session EXCEPT ![c] = "adding"]
        /\ post' = [post EXCEPT ![c] = "waiting"]
     \/ Done(c) /\ post' = [post EXCEPT ![c] = "failed"] /\ UNCHANGED session
  /\ UNCHANGED <<server, ctxDone, known, reader, cancelled, onPath, patch, call, closing>>

NeverMet(c) ==
  /\ session[c] = "new" /\ Done(c)
  /\ session' = [session EXCEPT ![c] = "ended"]
  /\ cancelled' = cancelled \cup {c}
  /\ UNCHANGED <<server, ctxDone, known, reader, onPath, post, patch, call, closing>>

(* runPublish and runRead: the path manager answers; what it refuses, at once  *)
(* or, for the credentials, after a pause, is told to the POST by runInner.    *)
Answered(c) ==
  /\ session[c] = "adding"
  /\ \/ session' = [session EXCEPT ![c] = "offered"] /\ onPath' = onPath \cup {c}
     \/ session' = [session EXCEPT ![c] = "refused"] /\ UNCHANGED onPath
  /\ UNCHANGED <<server, ctxDone, known, reader, cancelled, post, patch, call, closing>>

(* Until the answer is written, any failure leaves the path and tells the POST. *)
Refuse(c) ==
  /\ session[c] \in {"refused", "offered"} /\ post[c] = "waiting"
  /\ session' = [session EXCEPT ![c] = "ended"]
  /\ post' = [post EXCEPT ![c] = "failed"]
  /\ onPath' = onPath \ {c} /\ cancelled' = cancelled \cup {c}
  /\ UNCHANGED <<server, ctxDone, known, reader, patch, call, closing>>

(* writeAnswer, and readRemoteCandidates is started. *)
WriteAnswer(c) ==
  /\ session[c] = "offered" /\ post[c] = "waiting"
  /\ session' = [session EXCEPT ![c] = "connected"]
  /\ post' = [post EXCEPT ![c] = "answered"]
  /\ reader' = [reader EXCEPT ![c] = "reading"]
  /\ UNCHANGED <<server, ctxDone, known, cancelled, onPath, patch, call, closing>>

(* The peer never connects or leaves, startPublisher fails, the writer fails,  *)
(* or the context ends: whichever it is, deferred calls leave the path.        *)
Leave(c) ==
  /\ session[c] = "connected"
  /\ session' = [session EXCEPT ![c] = "ended"]
  /\ onPath' = onPath \ {c} /\ cancelled' = cancelled \cup {c}
  /\ UNCHANGED <<server, ctxDone, known, reader, post, patch, call, closing>>

CloseSession(c) ==
  /\ session[c] = "ended"
  /\ \/ server = "running" /\ known' = known \ {c}
     \/ ctxDone /\ UNCHANGED known
  /\ session' = [session EXCEPT ![c] = "gone"]
  /\ UNCHANGED <<server, ctxDone, reader, cancelled, onPath, post, patch, call, closing>>

(* The path drops the client and closes it: webRTCSession.close. *)
PathCloses(c) ==
  /\ c \in onPath
  /\ onPath' = onPath \ {c} /\ cancelled' = cancelled \cup {c}
  /\ UNCHANGED <<server, ctxDone, known, session, reader, post, patch, call, closing>>
-----------------------------------------------------------------------------
(* A PATCH, for a session whose secret was answered to the peer: its body is read in *)
(* the same way, and may not be what it should be.                                   *)
Patch(p) ==
  /\ server # "gone" /\ patch[p] = Unsent
  /\ \E c \in Clients, bad \in 0..MaxBad :
       /\ post[c] = "answered"
       /\ patch' = [patch EXCEPT ![p] = [pc |-> "reading", on |-> c, bad |-> bad]]
  /\ UNCHANGED <<server, ctxDone, known, session, reader, cancelled, onPath, post, call, closing>>

PatchRead(p) ==
  /\ patch[p].pc = "reading"
  /\ \E next \in {"asking", "failed"} : patch' = [patch EXCEPT ![p].pc = next]
  /\ UNCHANGED <<server, ctxDone, known, session, reader, cancelled, onPath, post, call, closing>>

AddSessionCandidates(p) ==
  /\ patch[p].pc = "asking"
  /\ \/ /\ server = "running"
        /\ patch' = [patch EXCEPT ![p].pc = IF patch[p].on \in known THEN "adding" ELSE "failed"]
     \/ ctxDone /\ patch' = [patch EXCEPT ![p].pc = "failed"]
  /\ UNCHANGED <<server, ctxDone, known, session, reader, cancelled, onPath, post, call, closing>>

(* addCandidates meets readRemoteCandidates. An answer is sent for every       *)
(* candidate that fails and one more at the end, but the handler takes only    *)
(* the first: the goroutine is then stuck in the second for ever.              *)
AddCandidates(p) ==
  LET c == patch[p].on IN
  /\ patch[p].pc = "adding"
  /\ \/ /\ reader[c] = "reading"
        /\ patch' = [patch EXCEPT ![p].pc = IF patch[p].bad = 0 THEN "answered" ELSE "failed"]
        /\ reader' = [reader EXCEPT ![c] = IF patch[p].bad = 0 THEN @ ELSE "stuck"]
     \/ Done(c) /\ patch' = [patch EXCEPT ![p].pc = "failed"] /\ UNCHANGED reader
  /\ UNCHANGED <<server, ctxDone, known, session, cancelled, onPath, post, call, closing>>

CandidatesEnd(c) ==
  /\ reader[c] = "reading" /\ Done(c)
  /\ reader' = [reader EXCEPT ![c] = "gone"]
  /\ UNCHANGED <<server, ctxDone, known, session, cancelled, onPath, post, patch, call, closing>>
-----------------------------------------------------------------------------
(* The API: ApiSessionsList, ApiSessionsGet, ApiSessionsKick. *)
Ask(k) ==
  /\ call[k] = <<"idle">>
  /\ \E op \in {<<"list">>} \cup {<<name, c>> : name \in {"get", "kick"}, c \in Clients} :
       call' = [call EXCEPT ![k] = op]
  /\ UNCHANGED <<server, ctxDone, known, session, reader, cancelled, onPath, post, patch, closing>>

Waiting(k) == call[k] \notin {<<"idle">>, <<"answered">>, <<"not found">>, <<"terminated">>}

List(k) ==
  /\ call[k] = <<"list">> /\ server = "running"
  /\ call' = [call EXCEPT ![k] = <<"answered">>]
  /\ UNCHANGED <<server, ctxDone, known, session, reader, cancelled, onPath, post, patch, closing>>

Get(k) ==
  /\ server = "running"
  /\ \E c \in Clients :
       /\ call[k] = <<"get", c>>
       /\ call' = [call EXCEPT ![k] = IF c \in known THEN <<"answered">> ELSE <<"not found">>]
  /\ UNCHANGED <<server, ctxDone, known, session, reader, cancelled, onPath, post, patch, closing>>

Kick(k) ==
  /\ server = "running"
  /\ \E c \in Clients :
       /\ call[k] = <<"kick", c>>
       /\ known' = known \ {c}
       /\ cancelled' = cancelled \cup (known \cap {c})
       /\ call' = [call EXCEPT ![k] = IF c \in known THEN <<"answered">> ELSE <<"not found">>]
  /\ UNCHANGED <<server, ctxDone, session, reader, onPath, post, patch, closing>>

Terminated(k) ==
  /\ Waiting(k) /\ ctxDone
  /\ call' = [call EXCEPT ![k] = <<"terminated">>]
  /\ UNCHANGED <<server, ctxDone, known, session, reader, cancelled, onPath, post, patch, closing>>
-----------------------------------------------------------------------------
Close ==
  /\ closing = "no"
  /\ closing' = "waiting" /\ ctxDone' = TRUE
  /\ UNCHANGED <<server, known, session, reader, cancelled, onPath, post, patch, call>>

PostWaits(c) == post[c] \in {"asking", "new", "waiting"}

(* A handler waits for the rest of a body. *)
ReadsBody ==
  \/ \E c \in Clients : post[c] = "reading"
  \/ \E p \in Patches : patch[p].pc = "reading"

InHandler ==
  \/ ReadsBody \/ \E c \in Clients : PostWaits(c)
  \/ \E p \in Patches : patch[p].pc \in {"asking", "adding"}

(* After the loop: the sessions are waited for, then the HTTP server shuts down,     *)
(* which waits for the handlers, those that read a body included, and has no limit.  *)
EndServer ==
  /\ \/ server = "running" /\ ctxDone /\ server' = "ending"
     \/ /\ server = "ending" /\ \A c \in Clients : session[c] \in {"none", "gone"}
        /\ server' = "stopping"
     \/ server = "stopping" /\ ~InHandler /\ server' = "gone"
  /\ UNCHANGED <<ctxDone, known, session, reader, cancelled, onPath, post, patch, call, closing>>

CloseReturns ==
  /\ closing = "waiting" /\ server = "gone"
  /\ closing' = "returned"
  /\ UNCHANGED <<server, ctxDone, known, session, reader, cancelled, onPath, post, patch, call>>

(* What the program does by itself, sooner or later: the rest of a body is for the peer *)
(* to send, and the answer to a session for its path to give.                          *)
Step ==
  \/ \E c \in Clients :
       \/ NewSession(c) \/ New(c) \/ NeverMet(c) \/ Refuse(c) \/ WriteAnswer(c)
       \/ CloseSession(c) \/ CandidatesEnd(c) \/ (Done(c) /\ Leave(c))
  \/ \E p \in Patches : AddSessionCandidates(p) \/ AddCandidates(p)
  \/ \E k \in Callers : List(k) \/ Get(k) \/ Kick(k) \/ Terminated(k)
  \/ EndServer \/ CloseReturns

Next ==
  \/ Step
  \/ \E c \in Clients : Post(c) \/ PostRead(c) \/ Answered(c) \/ Leave(c) \/ PathCloses(c)
  \/ \E p \in Patches : Patch(p) \/ PatchRead(p)
  \/ \E k \in Callers : Ask(k)
  \/ Close
-----------------------------------------------------------------------------
(* A session that has ended is on no path, in no list of a manager that runs,  *)
(* and its POST has been answered; only a PATCH with a candidate that failed   *)
(* leaves a goroutine of it behind.                                            *)
NothingIsLeft ==
  /\ \A c \in Clients :
       /\ session[c] \in {"ended", "gone"} => c \notin onPath /\ post[c] # "waiting"
       /\ session[c] = "gone" /\ ~ctxDone => c \notin known
       /\ session[c] \in {"adding", "offered", "connected"} => c \in known \/ Done(c)
       /\ reader[c] = "stuck" =>
            \E p \in Patches, bad \in 1..MaxBad : patch[p] = [pc |-> "failed", on |-> c, bad |-> bad]
  /\ closing = "returned" =>
       ~InHandler /\ \A c \in Clients : session[c] \in {"none", "gone"}

(* close may have to wait for a peer that owes the rest of a body; when none does, it is *)
(* promised that it ends.                                                              *)
CloseWaits == closing = "waiting" /\ ~ReadsBody

(* A PATCH may wait, to the end of its session, behind one that left the      *)
(* goroutine of the session stuck; of the others it is promised that they end. *)
PatchWaits(p) ==
  \/ patch[p].pc = "asking"
  \/ patch[p].pc = "adding" /\ (Done(patch[p].on) \/ reader[patch[p].on] # "stuck")
=============================================================================
