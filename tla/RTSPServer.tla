----------------------------- MODULE RTSPServer ------------------------------
(***************************************************************************)
(* The RTSP server of core/rtsp_server.go and its sessions                 *)
(* (core/rtsp_session.go). The library (gortsplib) is external: it runs a  *)
(* session in a goroutine of its own, handles a request at a time, moves   *)
(* the state of the session when a handler says OK, and calls              *)
(* OnSessionClose when a session that was closed is between two requests.  *)
(* The calls of the API run in the goroutines of their callers, under the  *)
(* read lock of the server.                                                *)
(***************************************************************************)
EXTENDS FiniteSets

CONSTANTS
  Clients,    \* sessions
  Callers     \* calls of the API

VARIABLES
  server,     \* goroutine of run: "running", "ending" (in srv.Close), "gone"
  ctxDone,    \* the context of the server is done
  known,      \* s.sessions
  session,    \* of a session, the state the library gives it
  handler,    \* of a session, the request that waits for the path manager
  pathSet,    \* the sessions whose s.path is not nil
  cancelled,  \* the sessions that were closed
  onPath,     \* the sessions that a path has as publisher or reader
  call,       \* of a call of the API, where it is
  closing,    \* close(): "no", "waiting", "returned"
  crashed,    \* the process has died of a panic
  kicked      \* history: the sessions that the API kicked

vars == <<server, ctxDone, known, session, handler, pathSet, cancelled, onPath, call,
          closing, crashed, kicked>>

Init ==
  /\ server = "running" /\ ctxDone = FALSE
  /\ known = {} /\ pathSet = {} /\ cancelled = {} /\ onPath = {}
  /\ session = [c \in Clients |-> "none"]
  /\ handler = [c \in Clients |-> "none"]
  /\ call = [k \in Callers |-> <<"idle">>]
  /\ closing = "no" /\ crashed = FALSE /\ kicked = {}

Playing(c) == session[c] \in {"PrePlay", "Play"}
Recording(c) == session[c] \in {"PreRecord", "Record"}
Serves(c) == session[c] \notin {"none", "gone"} /\ handler[c] = "none"

(* A call of the API is under the read lock from its start to its answer. *)
Locked(k) == call[k] \in {<<"list">>} \cup {<<s, c>> : s \in {"found", "deleted"}, c \in Clients}
-----------------------------------------------------------------------------
OnSessionOpen(c) ==
  /\ session[c] = "none" /\ server = "running" /\ ~\E k \in Callers : Locked(k)
  /\ session' = [session EXCEPT ![c] = "Initial"]
  /\ known' = known \cup {c}
  /\ UNCHANGED <<server, ctxDone, handler, pathSet, cancelled, onPath, call, closing, crashed, kicked>>

(* SETUP and ANNOUNCE ask the path manager; a SETUP of a publisher does not. *)
Request(c) ==
  /\ Serves(c)
  /\ \E request \in {"SETUP", "ANNOUNCE"} :
       /\ session[c] \in (IF request = "SETUP" THEN {"Initial", "PrePlay"} ELSE {"Initial"})
       /\ handler' = [handler EXCEPT ![c] = request]
  /\ UNCHANGED <<server, ctxDone, known, session, pathSet, cancelled, onPath, call, closing, crashed, kicked>>

(* The rest of onSetup and of onAnnounce. A path has a reader once, though it *)
(* is added with every SETUP.                                                 *)
Answered(c) ==
  /\ handler[c] # "none"
  /\ handler' = [handler EXCEPT ![c] = "none"]
  /\ \/ /\ session' = [session EXCEPT ![c] = IF handler[c] = "SETUP" THEN "PrePlay" ELSE "PreRecord"]
        /\ pathSet' = pathSet \cup {c}
        /\ onPath' = onPath \cup {c}
     \/ UNCHANGED <<session, pathSet, onPath>>
  /\ UNCHANGED <<server, ctxDone, known, cancelled, call, closing, crashed, kicked>>

(* onPlay uses the path, unless the session plays already. *)
OnPlay(c) ==
  /\ Serves(c) /\ Playing(c)
  /\ IF session[c] = "PrePlay" /\ c \notin pathSet
       THEN crashed' = TRUE /\ UNCHANGED session
       ELSE session' = [session EXCEPT ![c] = "Play"] /\ UNCHANGED crashed
  /\ UNCHANGED <<server, ctxDone, known, handler, pathSet, cancelled, onPath, call, closing, kicked>>

(* onRecord: a path the session is no longer on refuses startPublisher. *)
OnRecord(c) ==
  /\ Serves(c) /\ session[c] = "PreRecord"
  /\ IF c \notin pathSet
       THEN crashed' = TRUE /\ UNCHANGED session
       ELSE /\ session' = [session EXCEPT ![c] = IF c \in onPath THEN "Record" ELSE @]
            /\ UNCHANGED crashed
  /\ UNCHANGED <<server, ctxDone, known, handler, pathSet, cancelled, onPath, call, closing, kicked>>

OnPause(c) ==
  /\ Serves(c) /\ session[c] \in {"Play", "Record"}
  /\ IF c \notin pathSet
       THEN crashed' = TRUE /\ UNCHANGED session
       ELSE /\ session' = [session EXCEPT ![c] = IF @ = "Play" THEN "PrePlay" ELSE "PreRecord"]
            /\ UNCHANGED crashed
  /\ UNCHANGED <<server, ctxDone, known, handler, pathSet, cancelled, onPath, call, closing, kicked>>
-----------------------------------------------------------------------------
(* The path drops the client and closes it, or the client goes. *)
PathCloses(c) ==
  /\ c \in onPath
  /\ onPath' = onPath \ {c} /\ cancelled' = cancelled \cup {c}
  /\ UNCHANGED <<server, ctxDone, known, session, handler, pathSet, call, closing, crashed, kicked>>

ClientGoes(c) ==
  /\ Serves(c)
  /\ cancelled' = cancelled \cup {c}
  /\ UNCHANGED <<server, ctxDone, known, session, handler, pathSet, onPath, call, closing, crashed, kicked>>

(* onClose, but for what it assigns at its end: it takes the client off the   *)
(* path by the state the library gives, and a path that is not there panics.  *)
LeavesPath(c) ==
  /\ onPath' = IF Playing(c) \/ Recording(c) THEN onPath \ {c} ELSE onPath
  /\ crashed' = (crashed \/ ((Playing(c) \/ Recording(c)) /\ c \notin pathSet))

OnSessionClose(c) ==
  /\ Serves(c) /\ (c \in cancelled \/ server = "ending") /\ ~\E k \in Callers : Locked(k)
  /\ known' = known \ {c}
  /\ IF c \in known
       THEN LeavesPath(c) /\ pathSet' = pathSet \ {c}
       ELSE UNCHANGED <<onPath, crashed, pathSet>>
  /\ session' = [session EXCEPT ![c] = "gone"]
  /\ UNCHANGED <<server, ctxDone, handler, cancelled, call, closing, kicked>>
-----------------------------------------------------------------------------
(* The API. A call that finds the context done, or the session missing, ends. *)
Ask(k) ==
  /\ call[k] = <<"idle">>
  /\ \/ ctxDone /\ call' = [call EXCEPT ![k] = <<"terminated">>] /\ UNCHANGED cancelled
     \/ ~ctxDone /\ call' = [call EXCEPT ![k] = <<"list">>] /\ UNCHANGED cancelled
     \/ /\ ~ctxDone
        /\ \E c \in Clients :
             IF c \in known
               THEN /\ call' = [call EXCEPT ![k] = <<"found", c>>]
                    /\ cancelled' = cancelled \cup {c}
               ELSE call' = [call EXCEPT ![k] = <<"not found">>] /\ UNCHANGED cancelled
  /\ UNCHANGED <<server, ctxDone, known, session, handler, pathSet, onPath, closing, crashed, kicked>>

(* ApiSessionsKick, after it closed the session: it deletes the entry of the   *)
(* map, while others under the read lock may be reading it, and calls onClose. *)
KickDeletes(k) ==
  \E c \in Clients :
    /\ call[k] = <<"found", c>>
    /\ call' = [call EXCEPT ![k] = <<"deleted", c>>]
    /\ known' = known \ {c}
    /\ kicked' = kicked \cup {c}
    /\ \/ LeavesPath(c)
       \/ /\ \E other \in Callers \ {k} : Locked(other)
          /\ crashed' = TRUE /\ UNCHANGED onPath
    /\ UNCHANGED <<server, ctxDone, session, handler, pathSet, cancelled, closing>>

KickReturns(k) ==
  \E c \in Clients :
    /\ call[k] = <<"deleted", c>>
    /\ call' = [call EXCEPT ![k] = <<"answered">>]
    /\ pathSet' = pathSet \ {c}
    /\ UNCHANGED <<server, ctxDone, known, session, handler, cancelled, onPath, closing, crashed, kicked>>

ListReturns(k) ==
  /\ call[k] = <<"list">>
  /\ call' = [call EXCEPT ![k] = <<"answered">>]
  /\ UNCHANGED <<server, ctxDone, known, session, handler, pathSet, cancelled, onPath, closing, crashed, kicked>>
-----------------------------------------------------------------------------
Close ==
  /\ closing = "no"
  /\ closing' = "waiting" /\ ctxDone' = TRUE
  /\ UNCHANGED <<server, known, session, handler, pathSet, cancelled, onPath, call, crashed, kicked>>

(* run: srv.Close when the context ends, or a failure of the library's server; *)
(* either way every session is closed before run goes on.                      *)
ServerFails ==
  /\ server = "running" /\ server' = "ending"
  /\ UNCHANGED <<ctxDone, known, session, handler, pathSet, cancelled, onPath, call, closing, crashed, kicked>>

EndServer ==
  /\ \/ server = "running" /\ ctxDone /\ server' = "ending" /\ UNCHANGED ctxDone
     \/ /\ server = "ending" /\ \A c \in Clients : session[c] \in {"none", "gone"}
        /\ server' = "gone" /\ ctxDone' = TRUE
  /\ UNCHANGED <<known, session, handler, pathSet, cancelled, onPath, call, closing, crashed, kicked>>

CloseReturns ==
  /\ closing = "waiting" /\ server = "gone"
  /\ closing' = "returned"
  /\ UNCHANGED <<server, ctxDone, known, session, handler, pathSet, cancelled, onPath, call, crashed, kicked>>

(* What calls and the server do by themselves, sooner or later. *)
Step ==
  \/ \E k \in Callers : KickDeletes(k) \/ KickReturns(k) \/ ListReturns(k)
  \/ EndServer \/ CloseReturns

Next ==
  /\ ~crashed
  /\ \/ Step
     \/ \E c \in Clients :
          \/ OnSessionOpen(c) \/ Request(c) \/ Answered(c)
          \/ OnPlay(c) \/ OnRecord(c) \/ OnPause(c)
          \/ PathCloses(c) \/ ClientGoes(c) \/ OnSessionClose(c)
     \/ \E k \in Callers : Ask(k)
     \/ ServerFails \/ Close
-----------------------------------------------------------------------------
(* A session that has ended is in no list, and on no path unless it was kicked: *)
(* a request of its that was waiting then, or that came before the library had  *)
(* ended it, is answered after onClose and puts it on the path for good. While   *)
(* none is kicked, s.path follows the state of the library and nothing panics.   *)
NothingIsLeft ==
  /\ \A c \in Clients :
       session[c] = "gone" => c \notin known /\ (c \in onPath => c \in kicked)
  /\ kicked = {} =>
       /\ ~crashed
       /\ \A c \in Clients : session[c] # "gone" => (c \in pathSet <=> Playing(c) \/ Recording(c))
=============================================================================
