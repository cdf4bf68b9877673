------------------------- MODULE SourceStaticProofs -------------------------
(***************************************************************************)
(* Theorems about SourceStatic: nothing panics, a stopped source is gone,  *)
(* its stream is the one that is fed, and it implements StaticSource. They *)
(* follow from one inductive invariant, which says where each of the three *)
(* goroutines can be while the others are where they are.                  *)
(***************************************************************************)
EXTENDS SourceStatic, TLAPS

(* running is what the path asked for last: the source of a path that wants it,
   until stop is called. Only a source that runs keeps its context. *)
RunningFollowsPath ==
  /\ wanted => onDemand
  /\ path \in {"loop", "mustStop", "ending"} =>
       (running <=> (~onDemand \/ wanted))
  /\ path \in {"stopping", "lastStop", "ended"} => ~running
  /\ path = "mustStop" => wanted
  /\ path \in {"stopping", "lastStop"} => ctxDone
  /\ path = "stopping" => onDemand /\ ~wanted
  /\ running => ~ctxDone /\ loop # "none"

(* The goroutine of the source outlives running only while stop waits for it. *)
LoopFollowsPath ==
  /\ loop # "none" => running \/ path \in {"stopping", "lastStop"}
  /\ loop = "draining" => ctxDone /\ innerDone

(* The implementation is gone while the retry pause runs, waits for the path
   together with the goroutine that hands its report over, and returns nil only
   to a goroutine that is not looking any more. *)
ImplFollowsLoop ==
  /\ loop = "none" => impl = "none"
  /\ loop = "draining" => impl # "none" /\ ~recreating
  /\ loop \notin {"none", "draining"} => (recreating <=> impl = "none")
  /\ loop = "settingReady" <=> impl = "awaitReady"
  /\ loop = "settingNotReady" <=> impl = "awaitNotReady"
  /\ impl # "none" /\ innerDone => loop = "draining"
  /\ implErr = "nil" => innerDone

(* Only a path in its loop, or on its way out of it, has a stream. *)
StreamFollowsPath == stream => path \in {"loop", "ending"}

SourceInv ==
  /\ TypeOK
  /\ NoPanic
  /\ RunningFollowsPath
  /\ LoopFollowsPath
  /\ ImplFollowsLoop
  /\ StreamFollowsPath
  /\ StreamIsFed
-----------------------------------------------------------------------------
LEMMA SourceInit == Init => SourceInv
BY OnDemandAssumption
   DEF Init, SourceInv, TypeOK, NoPanic, RunningFollowsPath, LoopFollowsPath,
       ImplFollowsLoop, StreamFollowsPath, StreamIsFed

(* What the path goroutine does, one step per action. *)
LEMMA PathKeeps == ASSUME SourceInv, PathAction PROVE SourceInv'
<1> USE DEF SourceInv, TypeOK, NoPanic, RunningFollowsPath, LoopFollowsPath,
            ImplFollowsLoop, StreamFollowsPath, StreamIsFed, runVars, implVars
<1>1. CASE PathStart
  BY <1>1 DEF PathStart, Recreate
<1>2. CASE PathTimer
  BY <1>2 DEF PathTimer, Stop
<1>3. CASE PathStopFailed
  BY <1>3 DEF PathStopFailed, Stop
<1>4. CASE PathStopped
  BY <1>4 DEF PathStopped
<1>5. CASE PathSetReady
  BY <1>5 DEF PathSetReady
<1>6. CASE PathSetNotReady
  BY <1>6 DEF PathSetNotReady, Return
<1>7. CASE PathLeave
  BY <1>7 DEF PathLeave
<1>8. CASE PathEnd
  BY <1>8 DEF PathEnd, Stop
<1> QED
  BY <1>1, <1>2, <1>3, <1>4, <1>5, <1>6, <1>7, <1>8 DEF PathAction

(* What the goroutine of sourceStatic.run does. *)
LEMMA RunKeeps == ASSUME SourceInv, RunAction PROVE SourceInv'
<1> USE DEF SourceInv, TypeOK, NoPanic, RunningFollowsPath, LoopFollowsPath,
            ImplFollowsLoop, StreamFollowsPath, StreamIsFed, pathVars, implVars
<1>1. CASE RunImplErr
  BY <1>1 DEF RunImplErr
<1>2. CASE RunRecreate
  BY <1>2 DEF RunRecreate, Recreate
<1>3. CASE RunTakeReady
  BY <1>3 DEF RunTakeReady
<1>4. CASE RunTakeNotReady
  BY <1>4 DEF RunTakeNotReady
<1>5. CASE RunTerminated
  BY <1>5 DEF RunTerminated, Return
<1>6. CASE RunDone
  BY <1>6 DEF RunDone
<1>7. CASE RunDrained
  BY <1>7 DEF RunDrained
<1> QED
  BY <1>1, <1>2, <1>3, <1>4, <1>5, <1>6, <1>7 DEF RunAction

(* What the implementation does, and the end of the path's context. *)
LEMMA ImplKeeps == ASSUME SourceInv, ImplAction \/ Cancel PROVE SourceInv'
<1> USE DEF SourceInv, TypeOK, NoPanic, RunningFollowsPath, LoopFollowsPath,
            ImplFollowsLoop, StreamFollowsPath, StreamIsFed, pathVars, runVars
<1>1. CASE ImplConnected
  BY <1>1 DEF ImplConnected
<1>2. CASE ImplFailed
  BY <1>2 DEF ImplFailed, Return
<1>3. CASE ImplDisconnected
  BY <1>3 DEF ImplDisconnected
<1>4. CASE ImplTerminated
  BY <1>4 DEF ImplTerminated, Return
<1>5. CASE Cancel
  BY <1>5 DEF Cancel, implVars
<1> QED
  BY <1>1, <1>2, <1>3, <1>4, <1>5 DEF ImplAction

LEMMA SourceStep == SourceInv /\ [Next]_vars => SourceInv'
<1> SUFFICES ASSUME SourceInv, [Next]_vars PROVE SourceInv'
  OBVIOUS
<1>1. CASE UNCHANGED vars
  BY <1>1 DEF vars, pathVars, runVars, implVars, SourceInv, TypeOK, NoPanic,
     RunningFollowsPath, LoopFollowsPath, ImplFollowsLoop, StreamFollowsPath, StreamIsFed
<1> QED
  BY <1>1, PathKeeps, RunKeeps, ImplKeeps DEF Next

(* However the path, the timers, its end and the implementation interleave, the
   three goroutines are where SourceInv says. *)
THEOREM SourceInductive == Spec => []SourceInv
BY SourceInit, SourceStep, PTL DEF Spec

(* start never meets a source that runs, stop never one that does not, and the
   error that run prints is never nil. *)
THEOREM NeverPanics == Spec => []NoPanic
<1>1. SourceInv => NoPanic
  BY DEF SourceInv
<1> QED
  BY <1>1, SourceInductive, PTL

(* Once stop has returned nothing of the source is left that could still report
   to the path. *)
THEOREM StoppedAndGone == Spec => []StoppedIsGone
<1>1. SourceInv => StoppedIsGone
  BY DEF SourceInv, TypeOK, RunningFollowsPath, LoopFollowsPath, ImplFollowsLoop,
         StoppedIsGone
<1> QED
  BY <1>1, SourceInductive, PTL

(* The path has a stream only while the implementation that announced it has not
   given it back, and one that feeds a stream feeds that of the path. *)
THEOREM FeedsTheStream == Spec => []StreamIsFed
<1>1. SourceInv => StreamIsFed
  BY DEF SourceInv
<1> QED
  BY <1>1, SourceInductive, PTL
-----------------------------------------------------------------------------
(* Where StaticSource sees the source. *)
Seen == CASE ~running -> "stopped"
          [] running /\ stream -> "ready"
          [] OTHER -> "running"

(* The step a change of running and stream is for StaticSource. *)
LEMMA SeenAs ==
  ASSUME SourceInv, SourceInv'
  PROVE  /\ UNCHANGED <<running, stream>> => UNCHANGED Seen
         /\ ~running /\ running' /\ ~stream' => Abstract!Start
         /\ running /\ running' /\ ~stream /\ stream' => Abstract!Ready
         /\ running /\ running' /\ stream /\ ~stream' => Abstract!NotReady
         /\ running /\ ~running' => Abstract!Stop
BY DEF SourceInv, TypeOK, Seen, Abstract!Start, Abstract!Ready, Abstract!NotReady,
       Abstract!Stop

(* The path starts a source it does not run, and that has no stream; a stream
   comes with a report taken while the source runs. *)
LEMMA SeenStep ==
  ASSUME SourceInv, SourceInv', [Next]_vars
  PROVE  [Abstract!Next]_Seen
<1> USE DEF SourceInv, TypeOK, NoPanic, RunningFollowsPath, LoopFollowsPath,
            ImplFollowsLoop, StreamFollowsPath, StreamIsFed
<1>1. CASE UNCHANGED <<running, stream>>
  BY <1>1, SeenAs
<1>2. CASE PathStart
  <2>1. ~running /\ running' /\ ~stream'
    BY <1>2 DEF PathStart
  <2> QED
    BY <2>1, SeenAs DEF Abstract!Next
<1>3. CASE PathTimer \/ PathStopFailed
  <2>1. running /\ ~running'
    BY <1>3 DEF PathTimer, PathStopFailed, Stop
  <2> QED
    BY <2>1, SeenAs DEF Abstract!Next
<1>4. CASE PathEnd
  <2>1. (running /\ ~running') \/ (~running /\ ~running')
    BY <1>4 DEF PathEnd, Stop
  <2>2. ~running /\ ~running' => UNCHANGED Seen
    BY DEF Seen
  <2> QED
    BY <2>1, <2>2, SeenAs DEF Abstract!Next
<1>5. CASE PathSetReady
  <2>1. running /\ running' /\ ~stream /\ stream' \in BOOLEAN
    BY <1>5 DEF PathSetReady
  <2>2. ~stream' => UNCHANGED Seen
    BY <2>1 DEF Seen
  <2> QED
    BY <2>1, <2>2, SeenAs DEF Abstract!Next
<1>6. CASE PathSetNotReady
  <2>1. running /\ running' /\ ~stream'
    BY <1>6 DEF PathSetNotReady
  <2>2. ~stream => UNCHANGED Seen
    BY <2>1 DEF Seen
  <2> QED
    BY <2>1, <2>2, SeenAs DEF Abstract!Next
<1>7. CASE PathStopped \/ PathLeave \/ Cancel \/ RunAction \/ ImplAction \/ UNCHANGED vars
  <2>1. UNCHANGED <<running, stream>>
    BY <1>7 DEF PathStopped, PathLeave, Cancel, RunAction, RunImplErr, RunRecreate,
       RunTakeReady, RunTakeNotReady, RunTerminated, RunDone, RunDrained, ImplAction,
       ImplConnected, ImplFailed, ImplDisconnected, ImplTerminated, vars, pathVars,
       runVars, implVars
  <2> QED
    BY <1>1, <2>1
<1> QED
  BY <1>2, <1>3, <1>4, <1>5, <1>6, <1>7 DEF Next, PathAction

(* The source is what Path takes it for: started, ready, not ready and stopped in
   that order alone. *)
THEOREM ImplementsSource == Spec => ImplementsStaticSource
<1>1. Init => Abstract!Init
  BY OnDemandAssumption DEF Init, Abstract!Init
<1>2. SourceInv /\ SourceInv' /\ [Next]_vars => [Abstract!Next]_Seen
  BY SeenStep
<1> QED
  BY <1>1, <1>2, SourceInductive, PTL DEF Spec, ImplementsStaticSource, Abstract!Spec, Seen
=============================================================================
