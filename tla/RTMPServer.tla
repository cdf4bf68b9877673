----------------------------- MODULE RTMPServer ------------------------------
(***************************************************************************)
(* The RTMP server of core/rtmp_server.go: the goroutine of run, that of   *)
(* the listener and two for every connection (core/rtmp_conn.go): run, and *)
(* runReader, that does the protocol and calls the path manager. A channel *)
(* is unbuffered and the other end of every send is select on it or on the *)
(* context of the server, so a send and its receipt are one step.          *)
(***************************************************************************)
EXTENDS FiniteSets

CONSTANTS
  Clients,    \* connections
  Callers     \* calls of the API

VARIABLES
  server,     \* goroutine of run: "running", "ending" (out of its loop), "gone"
  ctxDone,    \* the context of the server is done
  listener,   \* "accepting", the connection it hands over, "failed" or "gone"
  known,      \* s.conns
  session,    \* of a connection, the goroutine of run
  reader,     \* of a connection, the goroutine of runReader
  cancelled,  \* the connections whose own context is done
  onPath,     \* the connections that a path has as publisher or reader
  call,       \* of a call of the API, where it is
  closing     \* close(): "no", "waiting", "returned"

vars == <<server, ctxDone, listener, known, session, reader, cancelled, onPath, call, closing>>

Init ==
  /\ server = "running" /\ ctxDone = FALSE /\ listener = "accepting"
  /\ known = {} /\ cancelled = {} /\ onPath = {}
  /\ session = [c \in Clients |-> "none"]
  /\ reader = [c \in Clients |-> "none"]
  /\ call = [k \in Callers |-> <<"idle">>]
  /\ closing = "no"

(* The context of a connection is a child of the server's. *)
Done(c) == ctxDone \/ c \in cancelled
-----------------------------------------------------------------------------
(* The listener. *)
Accept(c) ==
  /\ listener = "accepting" /\ server # "gone" /\ session[c] = "none"
  /\ listener' = c
  /\ UNCHANGED <<server, ctxDone, known, session, reader, cancelled, onPath, call, closing>>

(* Accept fails once the server has closed the listener, or for a reason of its own. *)
AcceptFails ==
  /\ listener = "accepting"
  /\ listener' = "failed"
  /\ UNCHANGED <<server, ctxDone, known, session, reader, cancelled, onPath, call, closing>>

(* newConn: the server takes the connection or, its context done, it is closed. *)
NewConn(c) ==
  /\ listener = c /\ session[c] = "none"
  /\ \/ /\ server = "running"
        /\ known' = known \cup {c}
        /\ session' = [session EXCEPT ![c] = "running"]
        /\ reader' = [reader EXCEPT ![c] = "handshake"]
     \/ /\ ctxDone
        /\ session' = [session EXCEPT ![c] = "gone"]
        /\ UNCHANGED <<known, reader>>
  /\ listener' = "accepting"
  /\ UNCHANGED <<server, ctxDone, cancelled, onPath, call, closing>>

(* acceptError: it ends the loop of the server, if that has not ended yet. *)
AcceptError ==
  /\ listener = "failed"
  /\ \/ server = "running" /\ server' = "ending"
     \/ ctxDone /\ UNCHANGED server
  /\ listener' = "gone"
  /\ UNCHANGED <<ctxDone, known, session, reader, cancelled, onPath, call, closing>>
-----------------------------------------------------------------------------
(* The end of run: at the end of the context, then what follows the loop. *)
Terminate ==
  /\ server = "running" /\ ctxDone
  /\ server' = "ending"
  /\ UNCHANGED <<ctxDone, listener, known, session, reader, cancelled, onPath, call, closing>>

EndServer ==
  /\ server = "ending"
  /\ ctxDone' = TRUE
  /\ server' = "gone"
  /\ UNCHANGED <<listener, known, session, reader, cancelled, onPath, call, closing>>

Close ==
  /\ closing = "no"
  /\ closing' = "waiting" /\ ctxDone' = TRUE
  /\ UNCHANGED <<server, listener, known, session, reader, cancelled, onPath, call>>

(* The wait group holds run, the listener and every connection. *)
CloseReturns ==
  /\ closing = "waiting" /\ server = "gone" /\ listener = "gone"
  /\ \A c \in Clients : session[c] \in {"none", "gone"}
  /\ closing' = "returned"
  /\ UNCHANGED <<server, ctxDone, listener, known, session, reader, cancelled, onPath, call>>
-----------------------------------------------------------------------------
(* runReader: the handshake and the commands, under a deadline; then addReader *)
(* or addPublisher; an answer that refuses the credentials is followed by a    *)
(* pause that nothing interrupts. "left": it returned, run is to be told.      *)
Identify(c) ==
  /\ reader[c] = "handshake"
  /\ \E next \in {"adding", "left"} : reader' = [reader EXCEPT ![c] = next]
  /\ UNCHANGED <<server, ctxDone, listener, known, session, cancelled, onPath, call, closing>>

Answered(c) ==
  /\ reader[c] = "adding"
  /\ \/ /\ \E does \in {"reading", "publishing"} : reader' = [reader EXCEPT ![c] = does]
        /\ onPath' = onPath \cup {c}
     \/ /\ \E next \in {"pause", "left"} : reader' = [reader EXCEPT ![c] = next]
        /\ UNCHANGED onPath
  /\ UNCHANGED <<server, ctxDone, listener, known, session, cancelled, call, closing>>

PauseEnds(c) ==
  /\ reader[c] = "pause"
  /\ reader' = [reader EXCEPT ![c] = "left"]
  /\ UNCHANGED <<server, ctxDone, listener, known, session, cancelled, onPath, call, closing>>

(* A reader ends with its context or its writer, a publisher only with an error *)
(* of the connection; the deferred calls then take it off the path.             *)
Leave(c) ==
  /\ reader[c] \in {"reading", "publishing"}
  /\ reader' = [reader EXCEPT ![c] = "left"]
  /\ onPath' = onPath \ {c}
  /\ UNCHANGED <<server, ctxDone, listener, known, session, cancelled, call, closing>>

(* What makes it end: the peer's leaving is not to be relied on. *)
MustLeave(c) == session[c] = "closed" \/ (reader[c] = "reading" /\ Done(c))

(* The path drops the client and closes it: conn.close. *)
PathCloses(c) ==
  /\ c \in onPath
  /\ onPath' = onPath \ {c} /\ cancelled' = cancelled \cup {c}
  /\ UNCHANGED <<server, ctxDone, listener, known, session, reader, call, closing>>
-----------------------------------------------------------------------------
(* runInner: the end of the context closes the connection, and the goroutine of *)
(* runReader is waited for. Then run cancels the context, for its own part.      *)
Interrupt(c) ==
  /\ session[c] = "running" /\ Done(c)
  /\ session' = [session EXCEPT ![c] = "closed"]
  /\ UNCHANGED <<server, ctxDone, listener, known, reader, cancelled, onPath, call, closing>>

Joined(c) ==
  /\ session[c] \in {"running", "closed"} /\ reader[c] = "left"
  /\ reader' = [reader EXCEPT ![c] = "none"]
  /\ session' = [session EXCEPT ![c] = "ended"]
  /\ cancelled' = cancelled \cup {c}
  /\ UNCHANGED <<server, ctxDone, listener, known, onPath, call, closing>>

CloseConn(c) ==
  /\ session[c] = "ended"
  /\ \/ server = "running" /\ known' = known \ {c}
     \/ ctxDone /\ UNCHANGED known
  /\ session' = [session EXCEPT ![c] = "gone"]
  /\ UNCHANGED <<server, ctxDone, listener, reader, cancelled, onPath, call, closing>>
-----------------------------------------------------------------------------
(* The API: ApiConnsList, ApiConnsGet and ApiConnsKick wait for the server or *)
(* for the end of its context.                                               *)
Ask(k) ==
  /\ call[k] = <<"idle">>
  /\ \E op \in {<<"list">>} \cup {<<name, c>> : name \in {"get", "kick"}, c \in Clients} :
       call' = [call EXCEPT ![k] = op]
  /\ UNCHANGED <<server, ctxDone, listener, known, session, reader, cancelled, onPath, closing>>

Waiting(k) == call[k] \notin {<<"idle">>, <<"answered">>, <<"not found">>, <<"terminated">>}

List(k) ==
  /\ call[k] = <<"list">> /\ server = "running"
  /\ call' = [call EXCEPT ![k] = <<"answered">>]
  /\ UNCHANGED <<server, ctxDone, listener, known, session, reader, cancelled, onPath, closing>>

Get(k) ==
  /\ server = "running"
  /\ \E c \in Clients :
       /\ call[k] = <<"get", c>>
       /\ call' = [call EXCEPT ![k] = IF c \in known THEN <<"answered">> ELSE <<"not found">>]
  /\ UNCHANGED <<server, ctxDone, listener, known, session, reader, cancelled, onPath, closing>>

(* A plausible bug: the connection is forgotten and runs on. *)
KickForgets(k) ==
  /\ server = "running"
  /\ \E c \in Clients :
       /\ call[k] = <<"kick", c>>
       /\ known' = known \ {c}
       /\ call' = [call EXCEPT ![k] = IF c \in known THEN <<"answered">> ELSE <<"not found">>]
  /\ UNCHANGED <<server, ctxDone, listener, session, reader, cancelled, onPath, closing>>

Kick(k) ==
  /\ server = "running"
  /\ \E c \in Clients :
       /\ call[k] = <<"kick", c>>
       /\ known' = known \ {c}
       /\ cancelled' = cancelled \cup (known \cap {c})
       /\ call' = [call EXCEPT ![k] = IF c \in known THEN <<"answered">> ELSE <<"not found">>]
  /\ UNCHANGED <<server, ctxDone, listener, session, reader, onPath, closing>>

(* A plausible bug: the context is looked at before the wait, not during it. *)
TerminatedAtOnce(k) ==
  /\ call[k] = <<"idle">> /\ ctxDone
  /\ call' = [call EXCEPT ![k] = <<"terminated">>]
  /\ UNCHANGED <<server, ctxDone, listener, known, session, reader, cancelled, onPath, closing>>

Terminated(k) ==
  /\ Waiting(k) /\ ctxDone
  /\ call' = [call EXCEPT ![k] = <<"terminated">>]
  /\ UNCHANGED <<server, ctxDone, listener, known, session, reader, cancelled, onPath, closing>>
-----------------------------------------------------------------------------
(* What the program does by itself, sooner or later; the answer to a connection is for *)
(* its path to give.                                                                  *)
Step ==
  \/ \E c \in Clients :
       \/ NewConn(c) \/ Identify(c) \/ PauseEnds(c)
       \/ Interrupt(c) \/ Joined(c) \/ CloseConn(c) \/ (MustLeave(c) /\ Leave(c))
  \/ \E k \in Callers : List(k) \/ Get(k) \/ Kick(k) \/ Terminated(k)
  \/ AcceptError \/ Terminate \/ EndServer \/ CloseReturns
  \/ server = "gone" /\ AcceptFails

Next ==
  \/ Step
  \/ \E c \in Clients : Accept(c) \/ Answered(c) \/ Leave(c) \/ PathCloses(c)
  \/ \E k \in Callers : Ask(k)
  \/ AcceptFails \/ Close
-----------------------------------------------------------------------------
(* A connection that has ended is on no path and in no list; one that works    *)
(* unknown to the API is on its way out; and nothing runs after close returns. *)
NothingIsLeft ==
  /\ \A c \in Clients :
       /\ session[c] \in {"ended", "gone"} => c \notin onPath
       /\ session[c] = "gone" /\ ~ctxDone => c \notin known
       /\ session[c] = "running" => c \in known \/ Done(c)
  /\ closing = "returned" =>
       \A c \in Clients : session[c] \in {"none", "gone"} /\ reader[c] = "none"
=============================================================================
