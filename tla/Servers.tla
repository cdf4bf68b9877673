------------------------------- MODULE Servers -------------------------------
(***************************************************************************)
(* What the core runs besides the path manager: an RTMP server, an RTSP    *)
(* server or the WebRTC manager, and the core itself, which starts and     *)
(* stops them. They share no state, so a behaviour is that of one of them, *)
(* chosen at the start. Nothing here makes the path answer a client: what  *)
(* is promised of calls is promised if it does, which Path and Shutdown    *)
(* show but for a publisher on demand that has been there before.          *)
(***************************************************************************)
EXTENDS Naturals

CONSTANTS
  Clients, Callers, Sessions, Kickers, Patches, MaxBad,  \* of the servers
  Values, Servings, Paths                                \* of the core

ASSUME BadAssumption == MaxBad \in Nat

VARIABLES
  part,                                                              \* whose behaviour it is
  server, ctxDone, known, session, cancelled, onPath, call, closing, \* of a server
  listener,                                                          \* of RTMP
  handler, pathSet, crashed, kicked,                                 \* of RTSP
  post, patch,                                                       \* of WebRTC
  reader,                                                            \* of RTMP and WebRTC
  conf, newConf, resource, todo, core                                \* of the core

M == INSTANCE RTMPServer
S == INSTANCE RTSPServer WITH Clients <- Sessions, Callers <- Kickers
W == INSTANCE WebRTCManager
C == INSTANCE Core WITH Servers <- Servings

serverVars == <<server, ctxDone, known, session, cancelled, onPath, call, closing>>
rtspVars   == <<handler, pathSet, crashed, kicked>>
webRTCVars == <<post, patch>>
coreVars   == <<conf, newConf, resource, todo, core>>

vars == <<part, serverVars, listener, rtspVars, webRTCVars, reader, coreVars>>

(* A part that is not the one chosen has no state. *)
NoServer == /\ server = "none" /\ ctxDone = FALSE /\ known = {} /\ session = <<>>
            /\ cancelled = {} /\ onPath = {} /\ call = <<>> /\ closing = "no"
NoRTMP   == listener = "none"
NoRTSP   == handler = <<>> /\ pathSet = {} /\ crashed = FALSE /\ kicked = {}
NoWebRTC == post = <<>> /\ patch = <<>>
NoReader == reader = <<>>
NoCore   == conf = <<>> /\ newConf = <<>> /\ resource = <<>> /\ todo = <<>> /\ core = "none"

Init ==
  \/ part = "rtmp" /\ M!Init /\ NoRTSP /\ NoWebRTC /\ NoCore
  \/ part = "rtsp" /\ S!Init /\ NoRTMP /\ NoWebRTC /\ NoReader /\ NoCore
  \/ part = "webRTC" /\ W!Init /\ NoRTMP /\ NoRTSP /\ NoCore
  \/ part = "core" /\ C!Init /\ NoServer /\ NoRTMP /\ NoRTSP /\ NoWebRTC /\ NoReader

OfRTMP(A)   == part = "rtmp" /\ A /\ UNCHANGED <<part, rtspVars, webRTCVars, coreVars>>
OfRTSP(A)   == part = "rtsp" /\ A /\ UNCHANGED <<part, listener, webRTCVars, reader, coreVars>>
OfWebRTC(A) == part = "webRTC" /\ A /\ UNCHANGED <<part, listener, rtspVars, coreVars>>
OfCore(A)   == part = "core" /\ A
               /\ UNCHANGED <<part, serverVars, listener, rtspVars, webRTCVars, reader>>

Next == OfRTMP(M!Next) \/ OfRTSP(S!Next) \/ OfWebRTC(W!Next) \/ OfCore(C!Next)

(* Goroutines run, timers fire and deadlines pass; a peer need not do anything, nor *)
(* need a path answer, nor Accept fail while the listener is open. The steps of a   *)
(* goroutine to its end are few, so that fairness to all of them together is        *)
(* enough; but a session of the library may go on with requests, and its end is in  *)
(* a select beside them.                                                            *)
Fairness ==
  /\ WF_vars(OfRTMP(M!Step))
  /\ WF_vars(OfWebRTC(W!Step))
  /\ WF_vars(OfCore(C!Step))
  /\ WF_vars(OfRTSP(~crashed /\ S!Step))
  /\ \A c \in Sessions : SF_vars(OfRTSP(~crashed /\ S!OnSessionClose(c)))

Spec == Init /\ [][Next]_vars /\ Fairness
-----------------------------------------------------------------------------
(* What each server promises of the sessions that have ended: see the modules. *)
NothingIsLeft ==
  /\ part = "rtmp" => M!NothingIsLeft
  /\ part = "rtsp" => S!NothingIsLeft
  /\ part = "webRTC" => W!NothingIsLeft

(* The resources of the core are those of its configuration. *)
ResourcesMatchConf == part = "core" => C!ResourcesMatchConf

(* Who waits: the calls of the API, of close and of HTTP, but for those of a     *)
(* process that panicked, for a PATCH of a session that another left stuck, and  *)
(* for the close of the WebRTC manager while a peer owes the rest of a body.     *)
Waiting ==
  CASE part = "rtmp"   -> closing = "waiting" \/ \E k \in Callers : M!Waiting(k)
    [] part = "rtsp"   -> ~crashed /\ (closing = "waiting" \/ \E k \in Kickers : S!Locked(k))
    [] part = "webRTC" -> \/ W!CloseWaits \/ \E k \in Callers : W!Waiting(k)
                          \/ \E c \in Clients : W!PostWaits(c)
                          \/ \E p \in Patches : W!PatchWaits(p)
    [] part = "core"   -> core \in {"creating", "closing", "stopping"}

(* No client waits for its path for ever. *)
PathsAnswer ==
  /\ \A c \in Clients : /\ []<>~(part = "rtmp" /\ reader[c] = "adding")
                         /\ []<>~(part = "webRTC" /\ session[c] = "adding")
  /\ \A c \in Sessions : []<>~(part = "rtsp" /\ ~crashed /\ handler[c] # "none")

(* If paths answer, whoever waits is answered: again and again, the calls made being *)
(* few, a time comes when nobody does.                                               *)
CallsReturn == PathsAnswer => []<>~Waiting

(* The close of the HTTP server, and with it that of the WebRTC manager, closes all   *)
(* there is and waits only for what ends: a peer that owes a body shows otherwise.     *)
WebRTCCloses ==
  PathsAnswer => ((part = "webRTC" /\ closing = "waiting") ~> closing = "returned")
=============================================================================
