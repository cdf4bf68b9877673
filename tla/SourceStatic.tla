---------------------------- MODULE SourceStatic ----------------------------
(***************************************************************************)
(* A static source (core/source_static.go) between the path that starts    *)
(* and stops it and the protocol implementation that it runs and, after a  *)
(* pause, runs again: three goroutines that hand requests to one another   *)
(* over unbuffered channels while any of them may be told to end.          *)
(***************************************************************************)
CONSTANT OnDemand  \* the values of conf.SourceOnDemand considered

ASSUME OnDemandAssumption == OnDemand \subseteq BOOLEAN

VARIABLES
  onDemand,    \* conf.SourceOnDemand
  path,        \* where the path goroutine is
  pathDone,    \* pa.ctx is done
  stream,      \* pa.stream # nil
  wanted,      \* pa.onDemandStaticSourceState # Initial
  running,     \* s.running
  ctxDone,     \* s.ctx is done
  loop,        \* where the goroutine of sourceStatic.run is
  recreating,  \* recreating: the retry pause is running
  innerDone,   \* innerCtx is done
  impl,        \* where the implementation is
  implErr      \* what the implementation returns

pathVars == <<onDemand, path, pathDone, stream, wanted>>
runVars  == <<running, ctxDone, loop, recreating, innerDone>>
implVars == <<impl, implErr>>
vars     == <<pathVars, runVars, implVars>>

(* The values of the fields; the implementation leaves a result, and only then,
   when it returns. *)
TypeOK ==
  /\ onDemand \in BOOLEAN
  /\ path \in {"loop", "mustStop", "stopping", "ending", "lastStop", "ended",
               "panic"}
  /\ pathDone \in BOOLEAN
  /\ stream \in BOOLEAN
  /\ wanted \in BOOLEAN
  /\ running \in BOOLEAN
  /\ ctxDone \in BOOLEAN
  /\ loop \in {"none", "select", "settingReady", "settingNotReady", "draining",
               "panic"}
  /\ recreating \in BOOLEAN
  /\ innerDone \in BOOLEAN
  /\ impl \in {"none", "connecting", "callReady", "awaitReady", "streaming",
               "callNotReady", "awaitNotReady", "returning"}
  /\ implErr \in {"none", "nil", "error"}
  /\ implErr # "none" <=> impl = "returning"

(* path.run starts a source that is not on demand at once. *)
Init ==
  /\ onDemand \in OnDemand
  /\ path = "loop"
  /\ pathDone = FALSE
  /\ stream = FALSE
  /\ wanted = FALSE
  /\ running = ~onDemand
  /\ ctxDone = FALSE
  /\ loop = IF onDemand THEN "none" ELSE "select"
  /\ recreating = FALSE
  /\ innerDone = FALSE
  /\ impl = IF onDemand THEN "none" ELSE "connecting"
  /\ implErr = "none"
-----------------------------------------------------------------------------
(* sourceStatic.start and stop, in the path goroutine. *)

Recreate == impl' = "connecting" /\ implErr' = "none" /\ innerDone' = FALSE

(* A request needs the source: onDemandStaticSourceStart. *)
PathStart ==
  /\ path = "loop" /\ ~pathDone /\ onDemand /\ ~wanted
  /\ wanted' = TRUE
  /\ IF running
       THEN path' = "panic" /\ UNCHANGED <<runVars, implVars>>
       ELSE /\ running' = TRUE
            /\ ctxDone' = FALSE
            /\ loop' = "select"
            /\ recreating' = FALSE
            /\ Recreate
            /\ UNCHANGED path
  /\ UNCHANGED <<onDemand, pathDone, stream>>

(* stop cancels s.ctx and then waits for s.done. *)
Stop(waiting) ==
  IF running
    THEN /\ running' = FALSE
         /\ ctxDone' = TRUE
         /\ path' = waiting
    ELSE path' = "panic" /\ UNCHANGED <<running, ctxDone>>

(* Mutant: the close timer without setNotReady. *)
PathTimerAlone ==
  /\ path = "loop" /\ onDemand /\ wanted
  /\ wanted' = FALSE
  /\ Stop("stopping")
  /\ UNCHANGED <<onDemand, pathDone, stream, loop, recreating, innerDone,
                 implVars>>

(* The start timeout or the close timer of the path. *)
PathTimer ==
  /\ path = "loop" /\ onDemand /\ wanted
  /\ stream' = FALSE
  /\ wanted' = FALSE
  /\ Stop("stopping")
  /\ UNCHANGED <<onDemand, pathDone, loop, recreating, innerDone, implVars>>

PathStopFailed ==
  /\ path = "mustStop"
  /\ wanted' = FALSE
  /\ Stop("stopping")
  /\ UNCHANGED <<onDemand, pathDone, stream, loop, recreating, innerDone,
                 implVars>>

(* Mutant: stop does not wait for s.done. *)
PathStopsAtOnce ==
  /\ \/ path = "stopping" /\ path' = "loop"
     \/ path = "lastStop" /\ path' = "ended"
  /\ UNCHANGED <<onDemand, pathDone, stream, wanted, runVars, implVars>>

PathStopped ==
  /\ loop = "none"
  /\ \/ path = "stopping" /\ path' = "loop"
     \/ path = "lastStop" /\ path' = "ended"
  /\ UNCHANGED <<onDemand, pathDone, stream, wanted, runVars, implVars>>

(* doSourceStaticSetReady: stream.New may fail. *)
PathSetReady ==
  /\ path = "loop" /\ ~pathDone /\ loop = "settingReady"
  /\ loop' = "select"
  /\ \/ stream' = TRUE /\ impl' = "streaming" /\ UNCHANGED implErr
     \/ stream' = FALSE /\ impl' = "returning" /\ implErr' = "error"
  /\ UNCHANGED <<onDemand, path, pathDone, wanted, running, ctxDone, recreating,
                 innerDone>>

(* Mutant: run may return nil at any time. *)
ReturnAnything == impl' = "returning" /\ implErr' \in {"nil", "error"}

(* What run returns: the RTSP and RTMP sources answer a cancelled context with
   a nil error. *)
Return ==
  /\ impl' = "returning"
  /\ implErr' \in IF innerDone THEN {"nil", "error"} ELSE {"error"}

(* Mutant: the source is stopped before the answer goes out. *)
PathStopsFirst ==
  /\ path = "loop" /\ ~pathDone /\ loop = "settingNotReady"
  /\ loop' = "select"
  /\ stream' = FALSE
  /\ IF onDemand /\ wanted THEN path' = "mustStop" /\ UNCHANGED implVars
                           ELSE path' = "loop" /\ Return
  /\ UNCHANGED <<onDemand, pathDone, wanted, running, ctxDone, recreating,
                 innerDone>>

(* doSourceStaticSetNotReady: the answer goes out before the source is stopped. *)
PathSetNotReady ==
  /\ path = "loop" /\ ~pathDone /\ loop = "settingNotReady"
  /\ loop' = "select"
  /\ stream' = FALSE
  /\ Return
  /\ path' = IF onDemand /\ wanted THEN "mustStop" ELSE "loop"
  /\ UNCHANGED <<onDemand, pathDone, wanted, running, ctxDone, recreating,
                 innerDone>>

Cancel ==
  /\ ~pathDone
  /\ pathDone' = TRUE
  /\ UNCHANGED <<onDemand, path, stream, wanted, runVars, implVars>>

(* runInner returns when the context is done; a path with a static source is
   never "not in use". *)
PathLeave ==
  /\ path = "loop" /\ pathDone
  /\ path' = "ending"
  /\ UNCHANGED <<onDemand, pathDone, stream, wanted, runVars, implVars>>

PathEnd ==
  /\ path = "ending"
  /\ stream' = FALSE
  /\ IF ~onDemand \/ wanted
       THEN Stop("lastStop")
       ELSE path' = "ended" /\ UNCHANGED <<running, ctxDone>>
  /\ UNCHANGED <<onDemand, pathDone, wanted, loop, recreating, innerDone,
                 implVars>>
-----------------------------------------------------------------------------
(* The select of sourceStatic.run. *)

RunImplErr ==
  /\ loop = "select" /\ impl = "returning"
  /\ innerDone' = TRUE
  /\ recreating' = TRUE
  /\ loop' = IF implErr = "nil" THEN "panic" ELSE "select"  \* err.Error()
  /\ impl' = "none"
  /\ implErr' = "none"
  /\ UNCHANGED <<pathVars, running, ctxDone>>

RunRecreate ==
  /\ loop = "select" /\ recreating
  /\ Recreate
  /\ recreating' = FALSE
  /\ UNCHANGED <<pathVars, running, ctxDone, loop>>

RunTakeReady ==
  /\ loop = "select" /\ impl = "callReady"
  /\ loop' = "settingReady"
  /\ impl' = "awaitReady"
  /\ UNCHANGED <<pathVars, running, ctxDone, recreating, innerDone, implErr>>

RunTakeNotReady ==
  /\ loop = "select" /\ impl = "callNotReady"
  /\ loop' = "settingNotReady"
  /\ impl' = "awaitNotReady"
  /\ UNCHANGED <<pathVars, running, ctxDone, recreating, innerDone, implErr>>

(* Mutant: setReady is left without an error. *)
RunUnaware ==
  /\ pathDone \/ ctxDone
  /\ \/ loop = "settingReady" /\ impl' = "streaming" /\ UNCHANGED implErr
     \/ loop = "settingNotReady" /\ Return
  /\ loop' = "select"
  /\ UNCHANGED <<pathVars, running, ctxDone, recreating, innerDone>>

(* path.sourceStaticSetReady and NotReady when the path, or the source, ends. *)
RunTerminated ==
  /\ pathDone \/ ctxDone
  /\ \/ /\ loop = "settingReady"
        /\ impl' = "returning"
        /\ implErr' = "error"
     \/ /\ loop = "settingNotReady"
        /\ Return
  /\ loop' = "select"
  /\ UNCHANGED <<pathVars, running, ctxDone, recreating, innerDone>>

RunDone ==
  /\ loop = "select" /\ ctxDone
  /\ IF recreating
       THEN loop' = "none" /\ UNCHANGED innerDone
       ELSE loop' = "draining" /\ innerDone' = TRUE
  /\ UNCHANGED <<pathVars, running, ctxDone, recreating, implVars>>

(* <-implErr, whatever it carries. *)
RunDrained ==
  /\ loop = "draining" /\ impl = "returning"
  /\ loop' = "none"
  /\ impl' = "none"
  /\ implErr' = "none"
  /\ UNCHANGED <<pathVars, running, ctxDone, recreating, innerDone>>
-----------------------------------------------------------------------------
(* The implementation: connects, announces its stream, feeds it, takes it back
   with a deferred setNotReady and returns. *)

ImplConnected ==
  /\ impl = "connecting"
  /\ impl' = "callReady"
  /\ UNCHANGED <<pathVars, runVars, implErr>>

ImplFailed ==
  /\ impl = "connecting"
  /\ Return
  /\ UNCHANGED <<pathVars, runVars>>

ImplDisconnected ==
  /\ impl = "streaming"
  /\ impl' = "callNotReady"
  /\ UNCHANGED <<pathVars, runVars, implErr>>

(* The s.ctx.Done branches of setReady and setNotReady. *)
ImplTerminated ==
  /\ ctxDone
  /\ \/ impl = "callReady" /\ impl' = "returning" /\ implErr' = "error"
     \/ impl = "callNotReady" /\ Return
  /\ UNCHANGED <<pathVars, runVars>>
-----------------------------------------------------------------------------
PathAction ==
  \/ PathStart
  \/ PathTimer
  \/ PathStopFailed
  \/ PathStopped
  \/ PathSetReady
  \/ PathSetNotReady
  \/ PathLeave
  \/ PathEnd

RunAction ==
  \/ RunImplErr
  \/ RunRecreate
  \/ RunTakeReady
  \/ RunTakeNotReady
  \/ RunTerminated
  \/ RunDone
  \/ RunDrained

ImplAction ==
  \/ ImplConnected
  \/ ImplFailed
  \/ ImplDisconnected
  \/ ImplTerminated

Next == PathAction \/ Cancel \/ RunAction \/ ImplAction

(* The goroutines run. The implementation, and nothing else outside, answers a
   cancelled context: its run(ctx) ends. *)
Fairness ==
  /\ WF_vars(PathStopFailed \/ PathStopped \/ PathLeave \/ PathEnd)
  /\ WF_vars(PathSetReady \/ PathSetNotReady)
  /\ WF_vars(RunImplErr \/ RunTakeReady \/ RunTakeNotReady)
  /\ WF_vars(RunTerminated)
  /\ WF_vars(RunRecreate)
  /\ WF_vars(RunDrained)
  /\ SF_vars(RunDone)
  /\ WF_vars(innerDone /\ (ImplFailed \/ ImplDisconnected))
  /\ WF_vars(ImplTerminated)

Spec     == Init /\ [][Next]_vars
FairSpec == Spec /\ Fairness
-----------------------------------------------------------------------------
(* start and stop never meet their "should not happen", and the error that run
   prints is never nil, although the implementations do return nil. *)
NoPanic == path # "panic" /\ loop # "panic"

(* "we must wait since s.ctx is not thread safe": whenever the path could start
   the source again, nothing of its previous life is left. *)
StoppedIsGone ==
  path \in {"loop", "ended"} =>
    /\ running <=> loop # "none"
    /\ ~running => impl = "none"

(* The path has a stream only while the implementation that announced it has
   not given it back, and one that feeds a stream feeds that of the path unless
   one of the two was told to end. *)
StreamIsFed ==
  /\ stream => impl \in {"streaming", "callNotReady", "awaitNotReady"}
                 \/ (pathDone /\ impl \in {"none", "connecting", "callReady",
                                           "awaitReady", "returning"})
  /\ impl = "streaming" => stream \/ ctxDone

Abstract == INSTANCE StaticSource
              WITH static <- CASE ~running -> "stopped"
                               [] running /\ stream -> "ready"
                               [] OTHER -> "running"

(* The source is what Path takes it for: it is started, announces a stream,
   takes it back and is stopped in that order alone. *)
ImplementsStaticSource == Abstract!Spec

(* stop returns: the path, blocked on s.done, and the source, blocked on the
   path or on its implementation, never wait for each other for good; and a path
   whose context is done ends, its source with it. *)
StopReturns ==
  /\ (path \in {"stopping", "lastStop"}) ~> (path \in {"loop", "ended"})
  /\ pathDone ~> (path = "ended" /\ impl = "none")
=============================================================================
