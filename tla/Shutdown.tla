------------------------------ MODULE Shutdown ------------------------------
(***************************************************************************)
(* A path under Core.Close (core/core.go): closeResources closes the       *)
(* servers one after the other and then the path manager, and each close   *)
(* waits for the goroutines of what it closes.                             *)
(*                                                                         *)
(* A server's close cancels the context of its connections. A connection   *)
(* that waits for an answer of the path keeps waiting for it (rtmpConn.run *)
(* for the result of runReader, the RTSP library for the handler); the     *)
(* others let go of the path. The context of the path is a child of the    *)
(* path manager's, which is cancelled last.                                *)
(***************************************************************************)
EXTENDS Path

CONSTANTS
  Servers,   \* how many servers there are, in the order they are closed
  ServerOf   \* the server a client is connected to

ASSUME ServersAssumption ==
  /\ Servers \in Nat \ {0}
  /\ ServerOf \in [Clients -> 1..Servers]

VARIABLE closing  \* 0: not closing; up to Servers: that server is waited for;
                  \* then the path manager; then Close has returned

allVars == <<vars, closing>>

PathManager == Servers + 1
Closed      == Servers + 2

ShutdownInit == Init /\ closing = 0

(* Closing the path manager cancels its context, the parent of the path's. *)
CloseNext ==
  /\ closing' = closing + 1
  /\ IF closing' = PathManager /\ ~ctxDone THEN Cancel ELSE UNCHANGED vars

CoreClose == closing = 0 /\ CloseNext

Released(c) ==
  IF c \in Readers THEN rpc[c] = "idle" /\ c \notin attached
                   ELSE ppc[c] = "idle"

(* wg.Wait of the server being closed. *)
ServerClosed ==
  /\ closing \in 1..Servers
  /\ \A c \in Clients : ServerOf[c] = closing => Released(c)
  /\ CloseNext

(* wg.Wait of the path manager, which counts its paths too. *)
PathManagerClosed == closing = PathManager /\ pc = "done" /\ CloseNext

Serving(c) == closing < ServerOf[c]

(* Connections of a closed server only let go of what they hold. *)
ClientStep ==
  \/ \E c \in Readers :
       \/ Serving(c) /\ (CallDescribe(c) \/ CallAddReader(c))
       \/ CallRemoveReader(c)
       \/ ReaderTerminated(c)
  \/ \E p \in Publishers :
       \/ Serving(p) /\ (CallAddPublisher(p) \/ CallStartPublisher(p)
                                             \/ CallStopPublisher(p))
       \/ CallRemovePublisher(p)
       \/ PublisherTerminated(p)

PathStep ==
  \/ \E c \in Readers : ReaderHandler(c)
  \/ \E p \in Publishers : PublisherHandler(p)
  \/ SourceHandler
  \/ DoOnDemandReadyTimer
  \/ DoOnDemandCloseTimer
  \/ Exit

ShutdownNext ==
  \/ CoreClose
  \/ ServerClosed
  \/ PathManagerClosed
  \/ (PathStep \/ ClientStep) /\ UNCHANGED closing

ShutdownFairness ==
  /\ Fairness
  /\ WF_allVars(ServerClosed \/ PathManagerClosed)
  /\ \A c \in Readers : WF_vars(~Serving(c) /\ CallRemoveReader(c))
  /\ \A p \in Publishers : WF_vars(~Serving(p) /\ CallRemovePublisher(p))

ShutdownSpec == ShutdownInit /\ [][ShutdownNext]_allVars /\ ShutdownFairness
-----------------------------------------------------------------------------
(* "Close closes Core and waits for all goroutines to return": once it began,
   Close comes to its end, whatever the clients were doing. *)
CloseReturns == (closing = 1) ~> (closing = Closed)
=============================================================================
