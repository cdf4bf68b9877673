----------------------------- MODULE PathProofs -----------------------------
(***************************************************************************)
(* What holds of Path for every set of clients and of configurations: its  *)
(* types; its safety properties, which follow from its invariant; the      *)
(* bound on its readers; that an unused path leaves; and that it uses its  *)
(* static source and serves its readers as StaticSource and PathService    *)
(* say.                                                                    *)
(***************************************************************************)
EXTENDS Path, FiniteSetTheorems, FunctionTheorems, TLAPS

(* A reader is not a publisher, nor is any of the markers of a source. *)
LEMMA Distinct ==
  /\ Readers \cap Publishers = {}
  /\ None \notin Publishers /\ Redirect \notin Publishers /\ Static \notin Publishers
  /\ None # Redirect /\ None # Static /\ Redirect # Static
BY ClientsAssumption DEF None, Redirect, Static

(* The pieces of the handlers keep the types of what they assign. *)
ReaderTypes ==
  /\ rpc \in [Readers -> ReaderCalls]
  /\ answer \in [Readers -> Answers]
  /\ attached \subseteq Readers

StreamTypes == stream \in BOOLEAN /\ readers \subseteq Readers /\ closed \subseteq Clients

HoldTypes == describeHold \subseteq Readers /\ readerHold \in Seq(Readers)

StaticType == static \in {"stopped", "running", "ready", "panic"}

PcType == pc \in {"loop", "leaving", "cancelled", "done"}

LEMMA AttachedType == TypeOK => Attached \subseteq Clients
BY DEF TypeOK, Attached, Clients

LEMMA AdmittedType == TypeOK => Admitted \subseteq HoldSet /\ HoldSet \subseteq Readers
BY DEF TypeOK, Admitted, HoldSet

LEMMA AnswerType ==
  ASSUME TypeOK, NEW S, NEW a \in Answers, Answer(S, a)
  PROVE  rpc' \in [Readers -> ReaderCalls] /\ answer' \in [Readers -> Answers]
BY DEF TypeOK, Answer, ReaderCalls

LEMMA LeaveType == ASSUME TypeOK, LeaveIfUnused PROVE PcType'
BY DEF TypeOK, LeaveIfUnused, PcType

LEMMA SetNotReadyType == ASSUME TypeOK, NEW S, SetNotReady(S) PROVE StreamTypes'
BY AttachedType DEF TypeOK, SetNotReady, Close, StreamTypes

LEMMA CloseSourceType == ASSUME TypeOK, CloseSource PROVE StreamTypes'
BY SetNotReadyType, AttachedType DEF TypeOK, CloseSource, Close, StreamTypes

LEMMA StaticTypes ==
  /\ StartStatic => StaticType'
  /\ StopStatic => StaticType'
BY DEF StartStatic, StopStatic, StaticType

LEMMA DemandTypes ==
  ASSUME NEW d \in Demand
  PROVE  /\ ScheduleClose(d) \in Demand
         /\ CancelClose(d) \in Demand
         /\ StopDemand(d) \in Demand
         /\ \A b \in BOOLEAN : /\ [d EXCEPT !.readyTimer = b] \in Demand
                               /\ [d EXCEPT !.closeTimer = b] \in Demand
BY DEF Demand, DemandStates, ScheduleClose, CancelClose, StopDemand

LEMMA StartDemandType ==
  ASSUME TypeOK, StartDemand PROVE demand' \in Demand /\ StaticType'
BY StaticTypes DEF TypeOK, StartDemand, Demand, DemandStates, StaticType

LEMMA ServeHoldsType ==
  ASSUME TypeOK, ServeHolds
  PROVE  HoldTypes' /\ ReaderTypes' /\ readers' \subseteq Readers /\ demand' \in Demand
<1>1. HoldTypes'
  BY DEF ServeHolds, HoldTypes
<1>2. ReaderTypes' /\ readers' \subseteq Readers
  BY AdmittedType DEF TypeOK, ServeHolds, ReaderTypes, ReaderCalls, Answers
<1>3. demand' \in Demand
  <2>1. [demand EXCEPT !.readyTimer = FALSE] \in Demand
    BY DemandTypes DEF TypeOK
  <2> QED
    BY <2>1, DemandTypes DEF ServeHolds
<1> QED
  BY <1>1, <1>2, <1>3

LEMMA FailHoldsType ==
  ASSUME TypeOK, NEW a \in Answers, FailHolds(a) PROVE HoldTypes' /\ ReaderTypes'
BY AnswerType DEF TypeOK, FailHolds, HoldTypes, ReaderTypes

LEMMA StopPublisherDemandType ==
  ASSUME TypeOK, NEW d \in Demand, StopPublisherDemand(d)
  PROVE  /\ demand' \in Demand
         /\ source' \in {None, Redirect, Static} \cup Publishers
         /\ StreamTypes'
BY CloseSourceType, DemandTypes DEF TypeOK, StopPublisherDemand, StreamTypes

LEMMA TypeInit == Init => TypeOK
<1> SUFFICES ASSUME Init PROVE TypeOK
  OBVIOUS
<1>1. source \in {None, Redirect, Static} \cup Publishers
  BY DEF Init, HasStaticSource
<1>2. demand \in Demand
  BY DEF Init, Demand, DemandStates
<1>3. /\ rpc \in [Readers -> ReaderCalls]
      /\ answer \in [Readers -> Answers]
      /\ ppc \in [Publishers -> PublisherCalls]
  BY DEF Init, ReaderCalls, Answers, PublisherCalls
<1>4. readerHold \in Seq(Readers)
  BY DEF Init
<1> QED
  BY <1>1, <1>2, <1>3, <1>4 DEF Init, TypeOK

LEMMA BecomesType ==
  ASSUME TypeOK, NEW p \in Publishers, NEW s \in PublisherCalls, Becomes(p, s)
  PROVE  ppc' \in [Publishers -> PublisherCalls]
BY DEF TypeOK, Becomes

LEMMA TypeReaderHandler ==
  ASSUME TypeOK, NEW c \in Readers, ReaderHandler(c) PROVE TypeOK'
<1> USE DEF ReaderTypes, HoldTypes, StaticType, PcType, Answers
<1>1. CASE DoDescribe(c)
  BY <1>1, AnswerType, StartDemandType, LeaveType DEF DoDescribe, TypeOK
<1>2. CASE DoAddReader(c)
  <2>1. ASSUME stream, AddReaderPost(c)
        PROVE  ReaderTypes' /\ readers' \subseteq Readers /\ demand' \in Demand
    BY <2>1, AnswerType, DemandTypes DEF AddReaderPost, TypeOK
  <2>2. readerHold' \in Seq(Readers)
    BY <1>2 DEF DoAddReader, TypeOK
  <2>3. ReaderTypes' /\ readers' \subseteq Readers /\ demand' \in Demand /\ StaticType'
    BY <1>2, <2>1, AnswerType, StartDemandType DEF DoAddReader, TypeOK
  <2> QED
    BY <1>2, <2>2, <2>3, LeaveType DEF DoAddReader, TypeOK
<1>3. CASE DoRemoveReader(c)
  BY <1>3, AnswerType, DemandTypes DEF DoRemoveReader, TypeOK
<1> QED
  BY <1>1, <1>2, <1>3 DEF ReaderHandler

LEMMA TypePublisherHandler ==
  ASSUME TypeOK, NEW p \in Publishers, PublisherHandler(p) PROVE TypeOK'
<1> USE DEF ReaderTypes, HoldTypes, StreamTypes, PcType, PublisherCalls
<1>1. CASE DoAddPublisher(p)
  BY <1>1, BecomesType, CloseSourceType DEF DoAddPublisher, readerVars, TypeOK
<1>2. CASE DoStartPublisher(p)
  BY <1>2, BecomesType, ServeHoldsType DEF DoStartPublisher, readerVars, TypeOK
<1>3. CASE DoStopPublisher(p)
  BY <1>3, BecomesType, SetNotReadyType, LeaveType
     DEF DoStopPublisher, readerVars, TypeOK
<1>4. CASE DoRemovePublisher(p)
  BY <1>4, BecomesType, AttachedType, LeaveType
     DEF DoRemovePublisher, Vacate, readerVars, TypeOK
<1> QED
  BY <1>1, <1>2, <1>3, <1>4 DEF PublisherHandler

LEMMA TypeSourceAndTimers ==
  ASSUME TypeOK, SourceHandler \/ DoOnDemandReadyTimer \/ DoOnDemandCloseTimer
  PROVE  TypeOK'
<1> USE DEF ReaderTypes, HoldTypes, StreamTypes, StaticType, PcType, readerVars
<1>1. CASE DoSourceStaticSetReady
  BY <1>1, ServeHoldsType DEF DoSourceStaticSetReady, TypeOK
<1>2. CASE DoSourceStaticSetNotReady
  BY <1>2, SetNotReadyType, DemandTypes, StaticTypes, LeaveType
     DEF DoSourceStaticSetNotReady, TypeOK
<1>3. CASE DoOnDemandReadyTimer
  <2> DEFINE d == [demand EXCEPT !.readyTimer = FALSE]
  <2>1. d \in Demand /\ StopDemand(d) \in Demand
    BY DemandTypes DEF TypeOK
  <2>2. HoldTypes' /\ ReaderTypes' /\ PcType'
    BY <1>3, FailHoldsType, LeaveType DEF DoOnDemandReadyTimer, Answers
  <2>3. CASE HasOnDemandStaticSource
    BY <1>3, <2>1, <2>2, <2>3, StaticTypes DEF DoOnDemandReadyTimer, TypeOK
  <2>4. CASE ~HasOnDemandStaticSource
    <3>1. StopPublisherDemand(d)
      BY <1>3, <2>4 DEF DoOnDemandReadyTimer
    <3> QED
      BY <1>3, <2>1, <2>2, <3>1, StopPublisherDemandType
         DEF DoOnDemandReadyTimer, StopPublisherDemand, TypeOK
  <2> QED
    BY <2>3, <2>4
<1>4. CASE DoOnDemandCloseTimer
  <2> DEFINE d == [demand EXCEPT !.closeTimer = FALSE]
  <2>1. d \in Demand /\ StopDemand(d) \in Demand
    BY DemandTypes DEF TypeOK
  <2>2. CASE HasOnDemandStaticSource
    BY <1>4, <2>1, <2>2, StaticTypes, SetNotReadyType, LeaveType
       DEF DoOnDemandCloseTimer, TypeOK
  <2>3. CASE ~HasOnDemandStaticSource
    <3>1. StopPublisherDemand(d)
      BY <1>4, <2>3 DEF DoOnDemandCloseTimer
    <3> QED
      BY <1>4, <2>1, <3>1, StopPublisherDemandType, LeaveType
         DEF DoOnDemandCloseTimer, StopPublisherDemand, TypeOK
  <2> QED
    BY <2>2, <2>3
<1> QED
  BY <1>1, <1>2, <1>3, <1>4 DEF SourceHandler

LEMMA TypeEnd == ASSUME TypeOK, Exit \/ Cancel PROVE TypeOK'
<1> USE DEF ReaderTypes, HoldTypes, StreamTypes, StaticType, readerVars
<1>1. CASE Leave
  BY <1>1 DEF Leave, TypeOK
<1>2. CASE ClosePath
  <2>1. demand' \in Demand
    BY <1>2 DEF ClosePath, TypeOK, Demand
  <2> QED
    BY <1>2, <2>1 DEF ClosePath, TypeOK
<1>3. CASE CloseDown
  BY <1>3, FailHoldsType, CloseSourceType, StaticTypes DEF CloseDown, TypeOK, Answers
<1>4. CASE Cancel
  BY <1>4 DEF Cancel, TypeOK
<1> QED
  BY <1>1, <1>2, <1>3, <1>4 DEF Exit

LEMMA TypeClientStep ==
  ASSUME TypeOK,
         \/ \E c \in Readers : ReaderStep(c)
         \/ \E p \in Publishers : PublisherStep(p)
  PROVE  TypeOK'
<1> USE DEF pathVars, readerVars
<1>1. ASSUME NEW c \in Readers, CallDescribe(c) \/ CallAddReader(c) PROVE TypeOK'
  BY <1>1 DEF CallDescribe, CallAddReader, TypeOK, ReaderCalls, Answers
<1>2. ASSUME NEW c \in Readers, CallRemoveReader(c) PROVE TypeOK'
  BY <1>2 DEF CallRemoveReader, TypeOK, ReaderCalls
<1>3. ASSUME NEW c \in Readers, ReaderTerminated(c) PROVE TypeOK'
  BY <1>3, AnswerType DEF ReaderTerminated, TypeOK, Answers
<1>4. ASSUME NEW p \in Publishers, NEW from, NEW call \in PublisherCalls,
             CallPublisher(p, from, call)
      PROVE  TypeOK'
  BY <1>4, BecomesType DEF CallPublisher, TypeOK
<1>5. ASSUME NEW p \in Publishers, PublisherTerminated(p) PROVE TypeOK'
  BY <1>5, BecomesType DEF PublisherTerminated, TypeOK, PublisherCalls
<1> QED
  BY <1>1, <1>2, <1>3, <1>4, <1>5
     DEF ReaderStep, PublisherStep, CallAddPublisher, CallStartPublisher,
         CallStopPublisher, CallRemovePublisher, PublisherCalls

LEMMA TypeStep == TypeOK /\ [Next]_vars => TypeOK'
<1> SUFFICES ASSUME TypeOK, [Next]_vars PROVE TypeOK'
  OBVIOUS
<1>1. CASE UNCHANGED vars
  BY <1>1 DEF vars, pathVars, readerVars, TypeOK
<1>2. CASE Next
  BY <1>2, TypeReaderHandler, TypePublisherHandler, TypeSourceAndTimers,
     TypeEnd, TypeClientStep DEF Next, Step
<1> QED
  BY <1>1, <1>2

(* Every reachable state of a path is well typed. *)
THEOREM TypeCorrect == Spec => []TypeOK
BY TypeInit, TypeStep, PTL DEF Spec

-----------------------------------------------------------------------------
(* The invariant. No safety property of Path is inductive by itself: whether a request
   on hold has a timer, say, depends on what the static source is doing, which depends on
   the on-demand state and on who owns the stream. PathInv is their conjunction with two
   facts that tie these together. *)

(* Only a configuration that says so makes a static source, a redirect or an
   on-demand state. *)
SourceFitsConf ==
  /\ source = Static <=> HasStaticSource
  /\ source = Redirect <=> conf.source = "redirect"
  /\ demand.state # "Initial" => HasOnDemand

(* A static source that is on demand runs exactly when it is demanded, has been
   ready since the demand stopped waiting, and has the stream while it is. *)
StaticFollowsDemand ==
  /\ static # "panic"
  /\ static # "stopped" => HasStaticSource
  /\ static = "ready" => stream
  /\ pc # "done" /\ HasStaticSource =>
       IF conf.sourceOnDemand
         THEN /\ static = "stopped" <=> demand.state = "Initial"
              /\ static = "running" <=> demand.state = "WaitingReady"
         ELSE static # "stopped"

PathInv ==
  /\ TypeOK
  /\ SourceFitsConf
  /\ StaticFollowsDemand
  /\ HoldsAreOpenCalls
  /\ ReadersStreamSource
  /\ DroppedClientsAreTold
  /\ NoGhostClients
  /\ DemandFollowsUse
  /\ StaticHoldsAreTimed
-----------------------------------------------------------------------------
(* What a configuration may combine. *)
LEMMA ConfFacts ==
  ASSUME TypeOK
  PROVE  /\ HasOnDemandPublisher => conf.source = "publisher"
         /\ conf.source \in {"publisher", "static", "redirect"}
         /\ HasOnDemand => (HasOnDemandStaticSource <=> HasStaticSource)
BY ConfsAssumption
   DEF TypeOK, ValidConf, Conf, HasOnDemandPublisher, HasOnDemand,
       HasOnDemandStaticSource, HasStaticSource

LEMMA ConfSame ==
  ASSUME UNCHANGED conf
  PROVE  /\ UNCHANGED <<HasStaticSource, HasOnDemandStaticSource>>
         /\ UNCHANGED <<HasOnDemandPublisher, HasOnDemand>>
BY DEF HasStaticSource, HasOnDemandStaticSource, HasOnDemandPublisher, HasOnDemand

(* The requests on hold. *)
LEMMA HoldsSame ==
  ASSUME UNCHANGED <<describeHold, readerHold>>
  PROVE  OnHold' = OnHold /\ HoldSet' = HoldSet
BY DEF OnHold, HoldSet

LEMMA HoldsGone ==
  ASSUME describeHold' = {}, readerHold' = <<>>
  PROVE  OnHold' = {}
BY DEF OnHold, HoldSet

(* The on-demand state: its two timers run in one of its states each. *)
TimersFit(d) ==
  /\ d.readyTimer <=> d.state = "WaitingReady"
  /\ d.closeTimer <=> d.state = "Closing"

LEMMA ScheduleCloseFits ==
  ASSUME NEW d \in Demand, ~d.readyTimer
  PROVE  TimersFit(ScheduleClose(d)) /\ ScheduleClose(d).state = "Closing"
BY DEF Demand, TimersFit, ScheduleClose

LEMMA CancelCloseFits ==
  ASSUME NEW d \in Demand, TimersFit(d), HasOnDemand
  PROVE  /\ TimersFit(CancelClose(d))
         /\ CancelClose(d).state = IF d.state = "Closing" THEN "Ready" ELSE d.state
BY DEF Demand, DemandStates, TimersFit, CancelClose

LEMMA StopDemandFits ==
  ASSUME NEW d \in Demand, ~d.readyTimer, d.closeTimer => d.state = "Closing"
  PROVE  TimersFit(StopDemand(d)) /\ StopDemand(d).state = "Initial"
BY DEF Demand, DemandStates, TimersFit, StopDemand

LEMMA StartDemandFits ==
  ASSUME TypeOK, StartDemand, TimersFit(demand)
  PROVE  /\ TimersFit(demand')
         /\ demand.state = "Initial" => demand'.state = "WaitingReady"
         /\ demand.state # "Initial" => UNCHANGED <<demand, static>>
BY DEF TypeOK, Demand, DemandStates, TimersFit, StartDemand

(* The stream goes, and whoever used it is told. *)
LEMMA CloseSourceTells ==
  ASSUME PathInv, CloseSource
  PROVE  /\ ~stream' /\ readers' = {}
         /\ closed \subseteq closed'
         /\ readers \cap Attached \subseteq closed'
         /\ source \in Attached => source \in closed'
BY DEF PathInv, ReadersStreamSource, CloseSource, SetNotReady, Close

(* The requests on hold become readers, and the timers follow. *)
LEMMA ServeHoldsServes ==
  ASSUME TypeOK, ServeHolds, HasOnDemand, readers = {}
  PROVE  /\ OnHold' = {}
         /\ readers' \subseteq attached'
         /\ attached' = attached \cup readers'
         /\ TimersFit(demand')
         /\ demand'.state = IF readers' = {} THEN "Closing" ELSE "Ready"
<1> DEFINE d == [demand EXCEPT !.readyTimer = FALSE]
<1>1. d \in Demand /\ ~d.readyTimer
  BY DEF TypeOK, Demand
<1>2. ScheduleClose(d) \in Demand
  BY <1>1, DemandTypes
<1>3. readers' = Admitted /\ attached' = attached \cup Admitted /\ OnHold' = {}
  BY HoldsGone DEF ServeHolds
<1>4. demand' = IF Admitted = {} THEN ScheduleClose(d) ELSE CancelClose(ScheduleClose(d))
  BY DEF ServeHolds
<1> HIDE DEF d
<1> QED
  BY <1>1, <1>3, <1>4, <1>2, ScheduleCloseFits, CancelCloseFits
-----------------------------------------------------------------------------
(* The pieces of the handlers and the invariant. *)

(* What a step says of the source, its demand and the holds it does not touch
   stays true, whatever it does to the clients. *)
LEMMA PathFrame ==
  ASSUME PathInv,
         UNCHANGED <<conf, source, stream, readers, describeHold, readerHold,
                     demand, static>>,
         pc' = "loop" => pc = "loop",
         pc' = "leaving" => pc \in {"loop", "leaving"},
         pc = "done" => pc' = "done"
  PROVE  /\ SourceFitsConf'
         /\ StaticFollowsDemand'
         /\ DemandFollowsUse'
         /\ StaticHoldsAreTimed'
<1>1. UNCHANGED <<HasStaticSource, HasOnDemandStaticSource, HasOnDemand, OnHold>>
  BY ConfSame, HoldsSame
<1>2. SourceFitsConf'
  BY <1>1 DEF PathInv, SourceFitsConf
<1>3. StaticFollowsDemand'
  BY <1>1 DEF PathInv, StaticFollowsDemand
<1>4. DemandFollowsUse'
  BY <1>1 DEF PathInv, DemandFollowsUse
<1>5. StaticHoldsAreTimed'
  BY <1>1 DEF PathInv, StaticHoldsAreTimed
<1> QED
  BY <1>2, <1>3, <1>4, <1>5

(* A request that finds no stream asks for the source, once. *)
LEMMA StartDemandKeeps ==
  ASSUME PathInv, pc = "loop", ~stream, HasOnDemand, StartDemand,
         UNCHANGED <<conf, source, stream, readers>>
  PROVE  /\ SourceFitsConf'
         /\ StaticFollowsDemand'
         /\ DemandFollowsUse'
         /\ HasOnDemandStaticSource => demand'.readyTimer
<1> USE DEF PathInv
<1>0. TypeOK /\ TimersFit(demand)
  BY DEF DemandFollowsUse, TimersFit
<1>1. /\ TimersFit(demand')
      /\ demand.state = "Initial" => demand'.state = "WaitingReady"
      /\ demand.state # "Initial" => UNCHANGED <<demand, static>>
  BY <1>0, StartDemandFits
<1>2. HasOnDemandStaticSource <=> HasStaticSource
  BY <1>0, ConfFacts
<1>3. demand.state = "Initial" /\ HasStaticSource => static = "stopped" /\ static' = "running"
  BY <1>2 DEF StaticFollowsDemand, StartDemand, StartStatic, HasOnDemandStaticSource
<1>4. ~HasStaticSource => UNCHANGED static
  BY <1>2 DEF StartDemand
<1>5. UNCHANGED <<HasStaticSource, HasOnDemandStaticSource, HasOnDemand>>
  BY ConfSame
<1>6. SourceFitsConf'
  BY <1>5 DEF SourceFitsConf
<1>7. StaticFollowsDemand'
  BY <1>1, <1>2, <1>3, <1>4, <1>5 DEF StaticFollowsDemand
<1>8. DemandFollowsUse'
  BY <1>1 DEF DemandFollowsUse, TimersFit
<1>9. HasOnDemandStaticSource => demand'.readyTimer
  <2>1. HasOnDemandStaticSource => static # "ready"
    BY DEF StaticFollowsDemand
  <2>2. HasOnDemandStaticSource => demand.state \in {"Initial", "WaitingReady"}
    BY <1>2, <2>1, <1>0 DEF StaticFollowsDemand, TypeOK, Demand, HasOnDemandStaticSource
  <2> QED
    BY <1>0, <1>1, <2>2 DEF TimersFit
<1> QED
  BY <1>6, <1>7, <1>8, <1>9

(* A reader that is let in keeps the source from being closed. *)
LEMMA AddReaderPostKeeps ==
  ASSUME PathInv, NEW c \in Readers, pc = "loop", stream, AddReaderPost(c),
         UNCHANGED <<conf, source, stream, static>>
  PROVE  /\ SourceFitsConf'
         /\ StaticFollowsDemand'
         /\ DemandFollowsUse'
<1> USE DEF PathInv
<1>0. TypeOK /\ TimersFit(demand) /\ demand \in Demand
  BY DEF DemandFollowsUse, TimersFit, TypeOK
<1>1. UNCHANGED <<HasStaticSource, HasOnDemandStaticSource, HasOnDemand>>
  BY ConfSame
<1>2. CASE UNCHANGED <<readers, demand>>
  BY <1>1, <1>2 DEF SourceFitsConf, StaticFollowsDemand, DemandFollowsUse
<1>3. CASE ~UNCHANGED <<readers, demand>>
  <2>1. readers' = readers \cup {c} /\ demand' = CancelClose(demand)
    BY <1>3 DEF AddReaderPost
  <2>2. CASE ~HasOnDemand
    <3>1. demand' = demand
      BY <2>1, <2>2 DEF CancelClose
    <3> QED
      BY <1>1, <2>2, <3>1 DEF SourceFitsConf, StaticFollowsDemand, DemandFollowsUse
  <2>3. CASE HasOnDemand
    <3>1. demand.state \in {"Closing", "Ready"}
      BY <2>3 DEF DemandFollowsUse
    <3>2. TimersFit(demand') /\ demand'.state = "Ready"
      BY <1>0, <2>1, <2>3, <3>1, CancelCloseFits
    <3> QED
      BY <1>1, <2>1, <2>3, <3>1, <3>2
         DEF SourceFitsConf, StaticFollowsDemand, DemandFollowsUse, TimersFit
  <2> QED
    BY <2>2, <2>3
<1> QED
  BY <1>2, <1>3

(* The stream comes and the requests on hold are served. *)
LEMMA ServeHoldsKeeps ==
  ASSUME PathInv, pc = "loop", HasOnDemand, ~stream, ServeHolds,
         UNCHANGED <<conf, source>>
  PROVE  /\ SourceFitsConf'
         /\ DemandFollowsUse'
         /\ OnHold' = {}
         /\ readers' \subseteq attached'
         /\ attached' = attached \cup readers'
         /\ demand'.state \in {"Closing", "Ready"}
<1>1. /\ OnHold' = {}
      /\ readers' \subseteq attached'
      /\ attached' = attached \cup readers'
      /\ TimersFit(demand')
      /\ demand'.state = IF readers' = {} THEN "Closing" ELSE "Ready"
  <2>1. TypeOK /\ readers = {}
    BY DEF PathInv, ReadersStreamSource
  <2> QED
    BY <2>1, ServeHoldsServes
<1>2. UNCHANGED <<HasStaticSource, HasOnDemandStaticSource, HasOnDemand>>
  BY ConfSame
<1> QED
  BY <1>1, <1>2 DEF PathInv, SourceFitsConf, DemandFollowsUse, TimersFit
-----------------------------------------------------------------------------
(* The requests of readers. *)

LEMMA InvDoDescribe ==
  ASSUME PathInv, TypeOK', NEW c \in Readers, DoDescribe(c)
  PROVE  PathInv'
<1> USE DEF PathInv
<1>0. /\ UNCHANGED conf
      /\ pc = "loop" /\ pc' \in {"loop", "leaving"}
      /\ UNCHANGED <<source, stream, readers, readerHold>>
      /\ \/ UNCHANGED <<demand, static, describeHold>>
         \/ ~stream /\ HasOnDemand /\ StartDemand
  BY DEF DoDescribe, Received, Taking, LeaveIfUnused
<1>1. SourceFitsConf'
  BY <1>0, ConfSame, StartDemandKeeps DEF SourceFitsConf
<1>2. StaticFollowsDemand'
  BY <1>0, ConfSame, StartDemandKeeps DEF StaticFollowsDemand
<1>3. HoldsAreOpenCalls'
  BY DEF DoDescribe, Received, Answer, HoldsAreOpenCalls, OnHold, HoldSet, TypeOK
<1>4. ReadersStreamSource'
  BY <1>0, ConfSame, HoldsSame DEF DoDescribe, ReadersStreamSource
<1>5. DroppedClientsAreTold'
  BY DEF DoDescribe, DroppedClientsAreTold, Attached
<1>6. NoGhostClients'
  BY DEF DoDescribe, NoGhostClients, Attached
<1>7. DemandFollowsUse'
  BY <1>0, ConfSame, StartDemandKeeps DEF DemandFollowsUse
<1>8. StaticHoldsAreTimed'
  BY <1>0, ConfSame, HoldsSame, StartDemandKeeps DEF StaticHoldsAreTimed
<1> QED
  BY <1>1, <1>2, <1>3, <1>4, <1>5, <1>6, <1>7, <1>8

LEMMA InvDoAddReader ==
  ASSUME PathInv, TypeOK', NEW c \in Readers, DoAddReader(c)
  PROVE  PathInv'
<1> USE DEF PathInv
<1>0. /\ UNCHANGED conf
      /\ pc = "loop" /\ pc' \in {"loop", "leaving"}
      /\ UNCHANGED <<source, stream, describeHold, ctxDone, ppc>>
      /\ \/ stream /\ AddReaderPost(c) /\ UNCHANGED <<readerHold, static>>
         \/ /\ ~stream /\ HasOnDemand /\ StartDemand
            /\ readerHold' = Append(readerHold, c)
            /\ rpc[c] = "adding"
            /\ UNCHANGED <<rpc, readers, attached>>
         \/ /\ ~stream
            /\ UNCHANGED <<readers, attached, demand, readerHold, static>>
  BY DEF DoAddReader, Received, Taking, LeaveIfUnused
<1>1. SourceFitsConf'
  BY <1>0, ConfSame, StartDemandKeeps, AddReaderPostKeeps DEF SourceFitsConf
<1>2. StaticFollowsDemand'
  BY <1>0, ConfSame, StartDemandKeeps, AddReaderPostKeeps DEF StaticFollowsDemand
<1>3. HoldsAreOpenCalls'
  <2>1. c \notin HoldSet /\ c \notin describeHold
    BY DEF DoAddReader, Received, OnHold
  <2>2. \A i \in DOMAIN readerHold : readerHold[i] \in Readers \ {c}
    BY <2>1 DEF HoldSet, TypeOK
  <2>3. CASE UNCHANGED readerHold
    <3>1. \A x \in Readers : x # c => rpc'[x] = rpc[x]
      BY DEF DoAddReader, AddReaderPost, Answer, TypeOK
    <3> QED
      BY <1>0, <2>1, <2>2, <2>3, <3>1 DEF HoldsAreOpenCalls, TypeOK
  <2>4. CASE /\ readerHold' = Append(readerHold, c)
             /\ rpc[c] = "adding"
             /\ UNCHANGED rpc
    <3> DEFINE n == Len(readerHold)
    <3>1. n \in Nat /\ DOMAIN readerHold = 1..n /\ DOMAIN readerHold' = 1..(n + 1)
      BY <2>4 DEF TypeOK
    <3>2. /\ \A i \in 1..n : readerHold'[i] = readerHold[i]
          /\ readerHold'[n + 1] = c
      BY <2>4 DEF TypeOK
    <3> HIDE DEF n
    <3>3. \A i \in DOMAIN readerHold' : rpc'[readerHold'[i]] = "adding"
      BY <2>4, <3>1, <3>2 DEF HoldsAreOpenCalls
    <3>4. \A i, j \in DOMAIN readerHold' : readerHold'[i] = readerHold'[j] => i = j
      BY <2>2, <3>1, <3>2 DEF HoldsAreOpenCalls
    <3> QED
      BY <1>0, <2>4, <3>3, <3>4 DEF HoldsAreOpenCalls
  <2> QED
    BY <1>0, <2>3, <2>4
<1>4. ReadersStreamSource'
  BY <1>0, ConfSame, HoldsSame DEF AddReaderPost, ReadersStreamSource
<1>5. DroppedClientsAreTold'
  BY Distinct DEF DoAddReader, AddReaderPost, DroppedClientsAreTold, Attached
<1>6. NoGhostClients'
  BY <1>0 DEF DoAddReader, AddReaderPost, NoGhostClients, Attached
<1>7. DemandFollowsUse'
  BY <1>0, ConfSame, StartDemandKeeps, AddReaderPostKeeps DEF DemandFollowsUse
<1>8. StaticHoldsAreTimed'
  BY <1>0, ConfSame, HoldsSame, StartDemandKeeps
     DEF StaticHoldsAreTimed, ReadersStreamSource
<1> QED
  BY <1>1, <1>2, <1>3, <1>4, <1>5, <1>6, <1>7, <1>8

LEMMA InvDoRemoveReader ==
  ASSUME PathInv, TypeOK', NEW c \in Readers, DoRemoveReader(c)
  PROVE  PathInv'
<1> USE DEF PathInv
<1>0. /\ UNCHANGED <<conf, pc, source, stream, describeHold, readerHold, static>>
      /\ readers' = readers \ {c}
      /\ pc = "loop"
      /\ demand' = IF readers' = {} /\ HasOnDemand /\ demand.state = "Ready"
                     THEN ScheduleClose(demand) ELSE demand
  BY DEF DoRemoveReader, Received, Taking
<1>a. UNCHANGED <<HasStaticSource, HasOnDemandStaticSource, HasOnDemand, OnHold>>
  BY <1>0, ConfSame, HoldsSame
<1>b. /\ TimersFit(demand')
      /\ demand'.readyTimer = demand.readyTimer
      /\ \/ demand' = demand
         \/ demand.state = "Ready" /\ demand'.state = "Closing"
      /\ readers' = {} => demand'.state # "Ready" \/ ~HasOnDemand
      /\ readers' # {} => demand' = demand
  <2>1. demand \in Demand /\ TimersFit(demand)
    BY <1>0 DEF TypeOK, DemandFollowsUse, TimersFit
  <2>2. demand.state = "Ready" => ~demand.readyTimer
    BY <2>1 DEF TimersFit
  <2>3. ScheduleClose(demand).readyTimer = demand.readyTimer
    BY <2>1 DEF Demand, ScheduleClose
  <2>4. demand.state = "Ready" =>
          TimersFit(ScheduleClose(demand)) /\ ScheduleClose(demand).state = "Closing"
    BY <2>1, <2>2, ScheduleCloseFits
  <2>5. CASE readers' = {} /\ HasOnDemand /\ demand.state = "Ready"
    BY <1>0, <2>3, <2>4, <2>5
  <2>6. CASE ~(readers' = {} /\ HasOnDemand /\ demand.state = "Ready")
    BY <1>0, <2>1, <2>6
  <2> QED
    BY <2>5, <2>6
<1>1. SourceFitsConf'
  BY <1>0, <1>a, <1>b DEF SourceFitsConf
<1>2. StaticFollowsDemand'
  BY <1>0, <1>a, <1>b DEF StaticFollowsDemand
<1>3. HoldsAreOpenCalls'
  BY <1>0 DEF DoRemoveReader, Received, Answer, HoldsAreOpenCalls, OnHold, HoldSet, TypeOK
<1>4. ReadersStreamSource'
  BY <1>0, <1>a DEF DoRemoveReader, ReadersStreamSource
<1>5. DroppedClientsAreTold'
  BY Distinct DEF DoRemoveReader, DroppedClientsAreTold, Attached
<1>6. NoGhostClients'
  BY Distinct DEF DoRemoveReader, NoGhostClients, Attached
<1>7. DemandFollowsUse'
  BY <1>0, <1>a, <1>b DEF DemandFollowsUse, TimersFit
<1>8. StaticHoldsAreTimed'
  BY <1>0, <1>a, <1>b DEF StaticHoldsAreTimed
<1> QED
  BY <1>1, <1>2, <1>3, <1>4, <1>5, <1>6, <1>7, <1>8
-----------------------------------------------------------------------------
(* The requests of publishers: they never touch a static source, and a stream
   they have, or take from one another, has no request on hold. *)

LEMMA InvDoAddPublisher ==
  ASSUME PathInv, TypeOK', NEW p \in Publishers, DoAddPublisher(p)
  PROVE  PathInv'
<1> USE DEF PathInv
<1>0. /\ UNCHANGED <<conf, pc, ctxDone, describeHold, readerHold, demand, static>>
      /\ UNCHANGED <<rpc, attached>>
      /\ pc = "loop" /\ ~ctxDone /\ ppc[p] = "adding"
  BY DEF DoAddPublisher, Requests, Taking, readerVars
<1>a. UNCHANGED <<HasStaticSource, HasOnDemandStaticSource, HasOnDemand, OnHold>>
  BY <1>0, ConfSame, HoldsSame
<1>b. CASE UNCHANGED <<source, stream, readers, closed>> /\ Becomes(p, "idle")
  <2>1. SourceFitsConf' /\ StaticFollowsDemand' /\ DemandFollowsUse' /\ StaticHoldsAreTimed'
    BY <1>0, <1>b, PathFrame
  <2>2. HoldsAreOpenCalls'
    BY <1>0 DEF HoldsAreOpenCalls
  <2>3. ReadersStreamSource'
    BY <1>0, <1>a, <1>b DEF ReadersStreamSource, Becomes, TypeOK
  <2>4. DroppedClientsAreTold'
    BY <1>0, <1>b DEF DroppedClientsAreTold, Attached, Becomes, TypeOK
  <2>5. NoGhostClients'
    BY <1>0, <1>b, Distinct DEF NoGhostClients, Attached, Becomes, TypeOK
  <2> QED
    BY <2>1, <2>2, <2>3, <2>4, <2>5
<1>c. CASE /\ conf.source = "publisher"
           /\ source' = p /\ ~stream' /\ readers' = {}
           /\ Becomes(p, "added")
           /\ closed \subseteq closed'
           /\ readers \cap Attached \subseteq closed'
           /\ source \in Publishers \cap Attached => source \in closed'
  <2>1. ~HasStaticSource /\ conf.source # "redirect" /\ static # "ready"
    BY <1>c DEF HasStaticSource, StaticFollowsDemand
  <2>2. SourceFitsConf'
    BY <1>0, <1>a, <1>c, <2>1, Distinct DEF SourceFitsConf
  <2>3. StaticFollowsDemand'
    BY <1>0, <1>a, <2>1 DEF StaticFollowsDemand
  <2>4. HoldsAreOpenCalls'
    BY <1>0 DEF HoldsAreOpenCalls
  <2>5. ReadersStreamSource'
    BY <1>0, <1>a, <1>c DEF ReadersStreamSource
  <2>6. DroppedClientsAreTold'
    BY <1>0, <1>c, Distinct DEF DroppedClientsAreTold, Attached, Becomes, TypeOK
  <2>7. NoGhostClients'
    BY <1>0, <1>c DEF NoGhostClients, Attached, Becomes, TypeOK
  <2>8. DemandFollowsUse'
    BY <1>0, <1>a, <1>c DEF DemandFollowsUse
  <2>9. StaticHoldsAreTimed'
    BY <1>0, <1>a DEF StaticHoldsAreTimed
  <2> QED
    BY <2>2, <2>3, <2>4, <2>5, <2>6, <2>7, <2>8, <2>9
<1>d. source = None => stream = FALSE /\ readers = {} /\ source \notin Publishers
  BY Distinct DEF ReadersStreamSource, TypeOK
<1> QED
  BY <1>b, <1>c, <1>d, CloseSourceTells DEF DoAddPublisher

LEMMA InvDoStartPublisher ==
  ASSUME PathInv, TypeOK', NEW p \in Publishers, DoStartPublisher(p)
  PROVE  PathInv'
<1> USE DEF PathInv
<1>0. /\ UNCHANGED <<conf, pc, ctxDone, source, static, closed>>
      /\ pc = "loop" /\ ~ctxDone /\ ppc[p] = "starting"
  BY DEF DoStartPublisher, Requests, Taking
<1>a. source = p => ~stream /\ ~HasStaticSource /\ readers = {}
  BY <1>0, Distinct DEF ReadersStreamSource, SourceFitsConf
<1>b. UNCHANGED <<HasStaticSource, HasOnDemandStaticSource, HasOnDemand>>
  BY <1>0, ConfSame
<1>c. CASE /\ Becomes(p, "added")
           /\ UNCHANGED <<stream, readers, describeHold, readerHold, demand,
                          readerVars>>
  <2>1. SourceFitsConf' /\ StaticFollowsDemand' /\ DemandFollowsUse' /\ StaticHoldsAreTimed'
    BY <1>0, <1>c, PathFrame
  <2>2. HoldsAreOpenCalls'
    BY <1>c DEF HoldsAreOpenCalls, readerVars
  <2>3. ReadersStreamSource'
    BY <1>0, <1>a, <1>b, <1>c, HoldsSame DEF ReadersStreamSource, Becomes, TypeOK
  <2>4. DroppedClientsAreTold' /\ NoGhostClients'
    BY <1>0, <1>c DEF DroppedClientsAreTold, NoGhostClients, Attached, Becomes, TypeOK, readerVars
  <2> QED
    BY <2>1, <2>2, <2>3, <2>4
<1>d. CASE /\ source = p /\ stream' = TRUE /\ Becomes(p, "publishing")
           /\ HasOnDemandPublisher /\ ServeHolds
  <2>1. /\ SourceFitsConf'
        /\ DemandFollowsUse'
        /\ OnHold' = {}
        /\ readers' \subseteq attached'
        /\ attached' = attached \cup readers'
        /\ demand'.state \in {"Closing", "Ready"}
    BY <1>0, <1>a, <1>d, ServeHoldsKeeps DEF HasOnDemand
  <2>2. StaticFollowsDemand'
    BY <1>0, <1>a, <1>b, <1>d DEF StaticFollowsDemand
  <2>3. HoldsAreOpenCalls'
    BY <1>d DEF ServeHolds, HoldsAreOpenCalls
  <2>4. ReadersStreamSource'
    BY <1>0, <1>d, <2>1 DEF ReadersStreamSource, Becomes, TypeOK
  <2>5. /\ \A q \in Publishers : q \in Attached' <=> q \in Attached
        /\ p \in Attached'
        /\ \A q \in Publishers : q # p => ppc'[q] = ppc[q]
    BY <1>0, <1>d, Distinct DEF Attached, Becomes, TypeOK
  <2>6. DroppedClientsAreTold' /\ NoGhostClients'
    BY <1>0, <1>a, <1>d, <2>1, <2>5 DEF DroppedClientsAreTold, NoGhostClients
  <2>7. StaticHoldsAreTimed'
    BY <2>1 DEF StaticHoldsAreTimed
  <2> QED
    BY <2>1, <2>2, <2>3, <2>4, <2>6, <2>7
<1>e. CASE /\ source = p /\ stream' = TRUE /\ Becomes(p, "publishing")
           /\ ~HasOnDemandPublisher
           /\ UNCHANGED <<readers, describeHold, readerHold, demand, readerVars>>
  <2>1. ~HasOnDemand /\ OnHold = {} /\ OnHold' = {}
    BY <1>0, <1>a, <1>e, HoldsSame DEF HasOnDemand, HasOnDemandStaticSource, ReadersStreamSource
  <2>2. SourceFitsConf'
    BY <1>0, <1>b, <1>e DEF SourceFitsConf
  <2>3. StaticFollowsDemand'
    BY <1>0, <1>a, <1>b, <1>e DEF StaticFollowsDemand
  <2>4. HoldsAreOpenCalls'
    BY <1>e DEF HoldsAreOpenCalls, readerVars
  <2>5. ReadersStreamSource'
    BY <1>0, <1>e, <2>1 DEF ReadersStreamSource, Becomes, TypeOK
  <2>6. DroppedClientsAreTold' /\ NoGhostClients'
    BY <1>0, <1>e DEF DroppedClientsAreTold, NoGhostClients, Attached, Becomes, TypeOK, readerVars
  <2>7. DemandFollowsUse' /\ StaticHoldsAreTimed'
    BY <1>0, <1>b, <1>e, <2>1 DEF DemandFollowsUse, StaticHoldsAreTimed
  <2> QED
    BY <2>2, <2>3, <2>4, <2>5, <2>6, <2>7
<1> QED
  BY <1>a, <1>c, <1>d, <1>e DEF DoStartPublisher, TypeOK

LEMMA InvDoStopPublisher ==
  ASSUME PathInv, TypeOK', NEW p \in Publishers, DoStopPublisher(p)
  PROVE  PathInv'
<1> USE DEF PathInv
<1>0. /\ UNCHANGED <<conf, ctxDone, source, describeHold, readerHold, demand,
                     static, rpc, attached>>
      /\ pc = "loop" /\ pc' \in {"loop", "leaving"} /\ ppc[p] = "stopping"
      /\ Becomes(p, "added")
  BY DEF DoStopPublisher, Requests, Taking, LeaveIfUnused, readerVars
<1>a. UNCHANGED <<HasStaticSource, HasOnDemandStaticSource, HasOnDemand, OnHold>>
  BY <1>0, ConfSame, HoldsSame
<1>b. HoldsAreOpenCalls'
  BY <1>0 DEF HoldsAreOpenCalls
<1>c. CASE UNCHANGED <<stream, readers, closed>> /\ ~(source = p /\ stream)
  <2>1. SourceFitsConf' /\ StaticFollowsDemand' /\ DemandFollowsUse' /\ StaticHoldsAreTimed'
    BY <1>0, <1>c, PathFrame
  <2>2. ReadersStreamSource'
    BY <1>0, <1>a, <1>c DEF ReadersStreamSource, Becomes, TypeOK
  <2>3. DroppedClientsAreTold' /\ NoGhostClients'
    BY <1>0, <1>c DEF DroppedClientsAreTold, NoGhostClients, Attached, Becomes, TypeOK
  <2> QED
    BY <1>b, <2>1, <2>2, <2>3
<1>d. CASE source = p /\ stream /\ SetNotReady({})
  <2>1. ~stream' /\ readers' = {} /\ closed' = closed \cup (readers \cap Attached)
    BY <1>d DEF SetNotReady, Close
  <2>2. ~HasStaticSource /\ static # "ready"
    BY <1>d, Distinct DEF SourceFitsConf, StaticFollowsDemand
  <2>3. SourceFitsConf' /\ StaticFollowsDemand'
    BY <1>0, <1>a, <2>2 DEF SourceFitsConf, StaticFollowsDemand
  <2>4. ReadersStreamSource'
    BY <1>0, <1>a, <2>1 DEF ReadersStreamSource
  <2>5. DroppedClientsAreTold'
    BY <1>0, <1>d, <2>1 DEF DroppedClientsAreTold, Attached, Becomes, TypeOK
  <2>6. NoGhostClients'
    BY <1>0, <1>d, <2>1 DEF NoGhostClients, Attached, Becomes, TypeOK
  <2>7. DemandFollowsUse' /\ StaticHoldsAreTimed'
    BY <1>0, <1>a, <2>1 DEF DemandFollowsUse, StaticHoldsAreTimed
  <2> QED
    BY <1>b, <2>3, <2>4, <2>5, <2>6, <2>7
<1> QED
  BY <1>c, <1>d DEF DoStopPublisher

LEMMA InvDoRemovePublisher ==
  ASSUME PathInv, TypeOK', NEW p \in Publishers, DoRemovePublisher(p)
  PROVE  PathInv'
<1> USE DEF PathInv
<1>0. /\ UNCHANGED <<conf, ctxDone, describeHold, readerHold, demand, static,
                     rpc, attached>>
      /\ pc = "loop" /\ pc' \in {"loop", "leaving"} /\ ppc[p] = "removing"
      /\ Becomes(p, "idle")
      /\ source' = IF source = p THEN None ELSE source
  BY DEF DoRemovePublisher, Requests, Taking, LeaveIfUnused, readerVars, Vacate
<1>a. UNCHANGED <<HasStaticSource, HasOnDemandStaticSource, HasOnDemand, OnHold>>
  BY <1>0, ConfSame, HoldsSame
<1>b. HoldsAreOpenCalls'
  BY <1>0 DEF HoldsAreOpenCalls
<1>c. SourceFitsConf'
  BY <1>0, <1>a, Distinct DEF SourceFitsConf
<1>d. /\ p \notin attached
      /\ p \notin readers
      /\ p \notin Attached'
      /\ \A q \in Publishers \ {p} : ppc'[q] = ppc[q] /\ (q \in Attached' <=> q \in Attached)
  BY <1>0, Distinct DEF Attached, Becomes, TypeOK
<1>e. CASE ~(source = p /\ stream) /\ closed' = closed \ {p} /\ UNCHANGED <<stream, readers>>
  <2>1. StaticFollowsDemand' /\ DemandFollowsUse' /\ StaticHoldsAreTimed'
    BY <1>0, <1>a, <1>e DEF StaticFollowsDemand, DemandFollowsUse, StaticHoldsAreTimed
  <2>2. ReadersStreamSource'
    BY <1>0, <1>a, <1>d, <1>e DEF ReadersStreamSource
  <2>3. DroppedClientsAreTold'
    BY <1>0, <1>d, <1>e DEF DroppedClientsAreTold, Becomes, TypeOK
  <2>4. NoGhostClients'
    BY <1>0, <1>d, <1>e, Distinct DEF NoGhostClients
  <2> QED
    BY <1>b, <1>c, <2>1, <2>2, <2>3, <2>4
<1>f. CASE /\ source = p /\ stream
           /\ closed' = (closed \cup (readers \cap Attached)) \ {p}
           /\ readers' = {}
           /\ stream' = FALSE
  <2>1. ~HasStaticSource /\ static # "ready"
    BY <1>f, Distinct DEF SourceFitsConf, StaticFollowsDemand
  <2>2. StaticFollowsDemand' /\ DemandFollowsUse' /\ StaticHoldsAreTimed'
    BY <1>0, <1>a, <1>f, <2>1
       DEF StaticFollowsDemand, DemandFollowsUse, StaticHoldsAreTimed
  <2>3. ReadersStreamSource'
    BY <1>0, <1>a, <1>f DEF ReadersStreamSource
  <2>4. \A c \in attached : c \in closed'
    BY <1>d, <1>f DEF DroppedClientsAreTold, Attached
  <2>5. \A q \in Publishers : /\ q \in Attached' => source' = q \/ q \in closed'
                              /\ ppc'[q] = "publishing" => stream' \/ q \in closed'
    BY <1>0, <1>d, <1>f DEF DroppedClientsAreTold, Becomes, TypeOK, Attached
  <2>6. DroppedClientsAreTold'
    BY <1>0, <2>4, <2>5 DEF DroppedClientsAreTold
  <2>7. NoGhostClients'
    BY <1>0, <1>f, Distinct DEF NoGhostClients
  <2> QED
    BY <1>b, <1>c, <2>2, <2>3, <2>6, <2>7
<1> QED
  BY <1>e, <1>f DEF DoRemovePublisher
-----------------------------------------------------------------------------
(* The static source. *)

LEMMA InvDoSourceStaticSetReady ==
  ASSUME PathInv, TypeOK', DoSourceStaticSetReady
  PROVE  PathInv'
<1> USE DEF PathInv
<1>0. /\ UNCHANGED <<conf, pc, ctxDone, source, ppc, closed>>
      /\ pc = "loop" /\ ~ctxDone /\ static = "running"
  BY DEF DoSourceStaticSetReady, Taking
<1>a. source = Static /\ HasStaticSource /\ stream = FALSE /\ readers = {}
  BY <1>0, Distinct DEF SourceFitsConf, StaticFollowsDemand, ReadersStreamSource, TypeOK
<1>b. UNCHANGED <<HasStaticSource, HasOnDemandStaticSource, HasOnDemand>>
  BY <1>0, ConfSame
<1>c. CASE UNCHANGED <<stream, readers, describeHold, readerHold, demand, static,
                       readerVars>>
  <2>1. SourceFitsConf' /\ StaticFollowsDemand' /\ DemandFollowsUse' /\ StaticHoldsAreTimed'
    BY <1>0, <1>c, PathFrame
  <2>2. HoldsAreOpenCalls'
    BY <1>c DEF HoldsAreOpenCalls, readerVars
  <2>3. ReadersStreamSource'
    BY <1>0, <1>b, <1>c, HoldsSame DEF ReadersStreamSource
  <2>4. DroppedClientsAreTold' /\ NoGhostClients'
    BY <1>0, <1>c DEF DroppedClientsAreTold, NoGhostClients, Attached, readerVars
  <2> QED
    BY <2>1, <2>2, <2>3, <2>4
<1>d. CASE stream' = TRUE /\ static' = "ready" /\ HasOnDemandStaticSource /\ ServeHolds
  <2>1. /\ SourceFitsConf'
        /\ DemandFollowsUse'
        /\ OnHold' = {}
        /\ readers' \subseteq attached'
        /\ attached' = attached \cup readers'
        /\ demand'.state \in {"Closing", "Ready"}
    BY <1>0, <1>a, <1>d, ServeHoldsKeeps DEF HasOnDemand
  <2>2. StaticFollowsDemand'
    BY <1>a, <1>b, <1>d, <2>1 DEF StaticFollowsDemand
  <2>3. HoldsAreOpenCalls'
    BY <1>d DEF ServeHolds, HoldsAreOpenCalls
  <2>4. ReadersStreamSource'
    BY <1>0, <1>a, <1>d, <2>1 DEF ReadersStreamSource
  <2>5. \A q \in Publishers : q \in Attached' <=> q \in Attached
    BY <1>0, Distinct DEF Attached, TypeOK
  <2>6. DroppedClientsAreTold' /\ NoGhostClients'
    BY <1>0, <1>a, <1>d, <2>1, <2>5, Distinct DEF DroppedClientsAreTold, NoGhostClients
  <2>7. StaticHoldsAreTimed'
    BY <2>1 DEF StaticHoldsAreTimed
  <2> QED
    BY <2>1, <2>2, <2>3, <2>4, <2>6, <2>7
<1>e. CASE /\ stream' = TRUE /\ static' = "ready" /\ ~HasOnDemandStaticSource
           /\ UNCHANGED <<readers, describeHold, readerHold, demand, readerVars>>
  <2>1. ~HasOnDemand /\ OnHold = {} /\ OnHold' = {} /\ ~conf.sourceOnDemand
    BY <1>0, <1>a, <1>e, ConfFacts, HoldsSame
       DEF ReadersStreamSource, HasOnDemandStaticSource
  <2>2. SourceFitsConf' /\ StaticFollowsDemand'
    BY <1>0, <1>a, <1>b, <1>e, <2>1 DEF SourceFitsConf, StaticFollowsDemand
  <2>3. HoldsAreOpenCalls'
    BY <1>e DEF HoldsAreOpenCalls, readerVars
  <2>4. ReadersStreamSource'
    BY <1>0, <1>a, <1>e, <2>1 DEF ReadersStreamSource
  <2>5. DroppedClientsAreTold' /\ NoGhostClients'
    BY <1>0, <1>e DEF DroppedClientsAreTold, NoGhostClients, Attached, readerVars
  <2>6. DemandFollowsUse' /\ StaticHoldsAreTimed'
    BY <1>0, <1>b, <1>e, <2>1 DEF DemandFollowsUse, StaticHoldsAreTimed
  <2> QED
    BY <2>2, <2>3, <2>4, <2>5, <2>6
<1> QED
  BY <1>a, <1>c, <1>d, <1>e DEF DoSourceStaticSetReady

LEMMA InvDoSourceStaticSetNotReady ==
  ASSUME PathInv, TypeOK', DoSourceStaticSetNotReady
  PROVE  PathInv'
<1> USE DEF PathInv
<1>0. /\ UNCHANGED <<conf, ctxDone, source, describeHold, readerHold, rpc,
                     attached, ppc>>
      /\ pc = "loop" /\ pc' \in {"loop", "leaving"} /\ ~ctxDone /\ static = "ready"
      /\ ~stream' /\ readers' = {} /\ closed' = closed \cup (readers \cap Attached)
  BY DEF DoSourceStaticSetNotReady, Taking, LeaveIfUnused, SetNotReady, Close, readerVars
<1>a. UNCHANGED <<HasStaticSource, HasOnDemandStaticSource, HasOnDemand, OnHold, Attached>>
  BY <1>0, ConfSame, HoldsSame DEF Attached
<1>b. stream /\ source = Static /\ HasStaticSource /\ OnHold = {}
  BY <1>0 DEF SourceFitsConf, StaticFollowsDemand, ReadersStreamSource
<1>c. \/ /\ HasOnDemandStaticSource /\ demand' = StopDemand(demand) /\ StopStatic
      \/ ~HasOnDemandStaticSource /\ static' = "running" /\ UNCHANGED demand
  <2>1. HasOnDemandStaticSource => demand.state # "Initial"
    BY <1>0, <1>b DEF StaticFollowsDemand, HasOnDemandStaticSource
  <2> QED
    BY <2>1 DEF DoSourceStaticSetNotReady
<1>1. HoldsAreOpenCalls'
  BY <1>0 DEF HoldsAreOpenCalls
<1>2. ReadersStreamSource' /\ StaticHoldsAreTimed'
  BY <1>0, <1>a, <1>b DEF ReadersStreamSource, StaticHoldsAreTimed
<1>3. DroppedClientsAreTold' /\ NoGhostClients'
  BY <1>0, <1>a, <1>b, Distinct DEF DroppedClientsAreTold, NoGhostClients, Attached
<1>4. CASE HasOnDemandStaticSource /\ demand' = StopDemand(demand) /\ StopStatic
  <2>1. demand \in Demand /\ TimersFit(demand) /\ demand.state \in {"Closing", "Ready"}
    BY <1>0, <1>b, <1>4 DEF TypeOK, DemandFollowsUse, TimersFit, HasOnDemand
  <2>2. TimersFit(demand') /\ demand'.state = "Initial"
    BY <1>4, <2>1, StopDemandFits DEF TimersFit
  <2>3. static' = "stopped"
    BY <1>0, <1>4 DEF StopStatic
  <2>4. SourceFitsConf' /\ StaticFollowsDemand'
    BY <1>0, <1>a, <2>2, <2>3, <1>4
       DEF SourceFitsConf, StaticFollowsDemand, HasOnDemandStaticSource
  <2>5. DemandFollowsUse'
    BY <1>0, <2>2 DEF DemandFollowsUse, TimersFit
  <2> QED
    BY <1>1, <1>2, <1>3, <2>4, <2>5
<1>5. CASE ~HasOnDemandStaticSource /\ static' = "running" /\ UNCHANGED demand
  <2>1. ~conf.sourceOnDemand /\ ~HasOnDemand
    BY <1>b, <1>5, ConfFacts DEF HasOnDemandStaticSource
  <2>2. SourceFitsConf' /\ StaticFollowsDemand' /\ DemandFollowsUse'
    BY <1>0, <1>a, <1>b, <1>5, <2>1
       DEF SourceFitsConf, StaticFollowsDemand, DemandFollowsUse
  <2> QED
    BY <1>1, <1>2, <1>3, <2>2
<1> QED
  BY <1>c, <1>4, <1>5
-----------------------------------------------------------------------------
(* The timers. *)

(* A publisher that was waited for, or is not needed any more, is sent away. *)
LEMMA StopPublisherDemandKeeps ==
  ASSUME PathInv, pc = "loop", conf.source = "publisher",
         NEW d \in Demand, ~d.readyTimer, d.closeTimer => d.state = "Closing",
         StopPublisherDemand(d), UNCHANGED <<conf, attached, ppc, ctxDone>>
  PROVE  /\ SourceFitsConf'
         /\ StaticFollowsDemand'
         /\ DemandFollowsUse'
         /\ DroppedClientsAreTold'
         /\ NoGhostClients'
         /\ ~stream' /\ readers' = {}
<1> USE DEF PathInv
<1>1. UNCHANGED <<HasStaticSource, HasOnDemandStaticSource, HasOnDemand, Attached>>
  BY ConfSame DEF Attached
<1>2. ~HasStaticSource /\ static = "stopped" /\ source # Static
  BY DEF HasStaticSource, StaticFollowsDemand, SourceFitsConf, TypeOK
<1>3. TimersFit(demand') /\ demand'.state = "Initial"
  BY StopDemandFits DEF StopPublisherDemand
<1>4. /\ ~stream' /\ readers' = {} /\ source' = None
      /\ closed \subseteq closed'
      /\ readers \cap Attached \subseteq closed'
      /\ source \in Publishers \cap Attached => source \in closed'
  <2>1. source = None => ~stream /\ readers = {} /\ source \notin Publishers
    BY Distinct DEF ReadersStreamSource
  <2> QED
    BY <2>1, CloseSourceTells DEF StopPublisherDemand
<1>5. SourceFitsConf' /\ StaticFollowsDemand'
  BY <1>1, <1>2, <1>3, <1>4, Distinct
     DEF SourceFitsConf, StaticFollowsDemand, StopPublisherDemand
<1>6. DemandFollowsUse'
  BY <1>3, <1>4 DEF DemandFollowsUse, TimersFit
<1>7. DroppedClientsAreTold'
  BY <1>1, <1>4 DEF DroppedClientsAreTold, Attached
<1>8. NoGhostClients'
  BY <1>4, Distinct DEF NoGhostClients
<1> QED
  BY <1>4, <1>5, <1>6, <1>7, <1>8

LEMMA InvDoOnDemandReadyTimer ==
  ASSUME PathInv, TypeOK', DoOnDemandReadyTimer
  PROVE  PathInv'
<1> USE DEF PathInv
<1> DEFINE d == [demand EXCEPT !.readyTimer = FALSE]
<1>0. /\ UNCHANGED <<conf, ctxDone, ppc, attached>>
      /\ pc = "loop" /\ pc' \in {"loop", "leaving"}
      /\ describeHold' = {} /\ readerHold' = <<>>
  BY DEF DoOnDemandReadyTimer, LeaveIfUnused, FailHolds
<1>a. OnHold' = {} /\ HoldsAreOpenCalls' /\ StaticHoldsAreTimed'
  BY <1>0, HoldsGone DEF HoldsAreOpenCalls, StaticHoldsAreTimed
<1>b. /\ demand \in Demand /\ demand.state = "WaitingReady" /\ ~demand.closeTimer
      /\ HasOnDemand /\ ~stream
  BY <1>0 DEF DoOnDemandReadyTimer, DemandFollowsUse, SourceFitsConf, TypeOK
<1>c. d \in Demand /\ ~d.readyTimer /\ ~d.closeTimer
  BY <1>b, DemandTypes DEF Demand
<1>1. CASE HasOnDemandStaticSource
  <2>1. UNCHANGED <<source, stream, readers, closed>> /\ demand' = StopDemand(d) /\ StopStatic
    BY <1>1 DEF DoOnDemandReadyTimer
  <2>2. TimersFit(demand') /\ demand'.state = "Initial"
    BY <1>c, <2>1, StopDemandFits
  <2>3. UNCHANGED <<HasStaticSource, HasOnDemandStaticSource, HasOnDemand, Attached>>
    BY <1>0, ConfSame DEF Attached
  <2>4. static = "running" /\ static' = "stopped"
    BY <1>0, <1>1, <1>b, <2>1 DEF StaticFollowsDemand, StopStatic, HasOnDemandStaticSource
  <2>5. SourceFitsConf' /\ StaticFollowsDemand' /\ DemandFollowsUse'
    BY <1>0, <1>1, <1>b, <2>1, <2>2, <2>3, <2>4
       DEF SourceFitsConf, StaticFollowsDemand, DemandFollowsUse, TimersFit,
           HasOnDemandStaticSource
  <2>6. ReadersStreamSource' /\ DroppedClientsAreTold' /\ NoGhostClients'
    BY <1>0, <1>a, <1>b, <2>1, <2>3
       DEF ReadersStreamSource, DroppedClientsAreTold, NoGhostClients
  <2> QED
    BY <1>a, <2>5, <2>6
<1>2. CASE ~HasOnDemandStaticSource
  <2>1. StopPublisherDemand(d)
    BY <1>2 DEF DoOnDemandReadyTimer
  <2>2. conf.source = "publisher"
    BY <1>2, <1>b, ConfFacts DEF HasOnDemand
  <2> HIDE DEF d
  <2>3. /\ SourceFitsConf' /\ StaticFollowsDemand' /\ DemandFollowsUse'
        /\ DroppedClientsAreTold' /\ NoGhostClients'
        /\ ~stream' /\ readers' = {}
    BY <1>0, <1>c, <2>1, <2>2, StopPublisherDemandKeeps
  <2>4. ReadersStreamSource'
    BY <1>a, <2>3 DEF ReadersStreamSource
  <2> QED
    BY <1>a, <2>3, <2>4
<1> QED
  BY <1>1, <1>2

LEMMA InvDoOnDemandCloseTimer ==
  ASSUME PathInv, TypeOK', DoOnDemandCloseTimer
  PROVE  PathInv'
<1> USE DEF PathInv
<1> DEFINE d == [demand EXCEPT !.closeTimer = FALSE]
<1>0. /\ UNCHANGED <<conf, ctxDone, ppc, rpc, attached, describeHold, readerHold>>
      /\ pc = "loop" /\ pc' \in {"loop", "leaving"}
  BY DEF DoOnDemandCloseTimer, LeaveIfUnused, readerVars
<1>a. UNCHANGED <<HasStaticSource, HasOnDemandStaticSource, HasOnDemand, OnHold, Attached>>
  BY <1>0, ConfSame, HoldsSame DEF Attached
<1>b. demand \in Demand /\ demand.state = "Closing" /\ ~demand.readyTimer /\ HasOnDemand
  BY <1>0 DEF DoOnDemandCloseTimer, DemandFollowsUse, SourceFitsConf, TypeOK
<1>c. d \in Demand /\ ~d.readyTimer /\ ~d.closeTimer
  BY <1>b, DemandTypes DEF Demand
<1>d. HoldsAreOpenCalls'
  BY <1>0 DEF HoldsAreOpenCalls
<1>1. CASE HasOnDemandStaticSource
  <2>1. /\ UNCHANGED source /\ demand' = StopDemand(d) /\ StopStatic
        /\ ~stream' /\ readers' = {} /\ closed' = closed \cup (readers \cap Attached)
    BY <1>1 DEF DoOnDemandCloseTimer, SetNotReady, Close
  <2>2. TimersFit(demand') /\ demand'.state = "Initial"
    BY <1>c, <2>1, StopDemandFits
  <2>3. /\ static = "ready" /\ static' = "stopped"
        /\ stream /\ source = Static /\ HasStaticSource /\ OnHold = {}
    BY <1>0, <1>1, <1>b, <2>1
       DEF StaticFollowsDemand, StopStatic, HasOnDemandStaticSource, TypeOK,
           SourceFitsConf, ReadersStreamSource
  <2>4. SourceFitsConf' /\ StaticFollowsDemand' /\ DemandFollowsUse'
    BY <1>0, <1>1, <1>a, <2>1, <2>2, <2>3
       DEF SourceFitsConf, StaticFollowsDemand, DemandFollowsUse, TimersFit,
           HasOnDemandStaticSource
  <2>5. ReadersStreamSource' /\ StaticHoldsAreTimed'
    BY <1>a, <2>1, <2>3 DEF ReadersStreamSource, StaticHoldsAreTimed
  <2>6. DroppedClientsAreTold' /\ NoGhostClients'
    BY <1>0, <1>a, <2>1, <2>3, Distinct DEF DroppedClientsAreTold, NoGhostClients, Attached
  <2> QED
    BY <1>d, <2>4, <2>5, <2>6
<1>2. CASE ~HasOnDemandStaticSource
  <2>1. StopPublisherDemand(d)
    BY <1>2 DEF DoOnDemandCloseTimer
  <2>2. conf.source = "publisher"
    BY <1>2, <1>b, ConfFacts DEF HasOnDemand
  <2> HIDE DEF d
  <2>3. /\ SourceFitsConf' /\ StaticFollowsDemand' /\ DemandFollowsUse'
        /\ DroppedClientsAreTold' /\ NoGhostClients'
        /\ ~stream' /\ readers' = {}
    BY <1>0, <1>c, <2>1, <2>2, StopPublisherDemandKeeps
  <2>4. ReadersStreamSource' /\ StaticHoldsAreTimed'
    BY <1>2, <1>a, <1>b, <2>3 DEF ReadersStreamSource, StaticHoldsAreTimed
  <2> QED
    BY <1>d, <2>3, <2>4
<1> QED
  BY <1>1, <1>2
-----------------------------------------------------------------------------
(* The end of the path, and the clients by themselves. *)

LEMMA InvExit ==
  ASSUME PathInv, TypeOK', Exit \/ Cancel
  PROVE  PathInv'
<1> USE DEF PathInv
<1>1. CASE Leave \/ Cancel
  <2>1. /\ UNCHANGED <<conf, source, stream, readers, describeHold, readerHold,
                       demand, static, readerVars, ppc, closed>>
        /\ \/ pc' = pc
           \/ pc = "loop" /\ pc' = "leaving"
        /\ ctxDone => ctxDone'
    BY <1>1 DEF Leave, Cancel
  <2>2. SourceFitsConf' /\ StaticFollowsDemand' /\ DemandFollowsUse' /\ StaticHoldsAreTimed'
    BY <2>1, PathFrame
  <2>3. HoldsAreOpenCalls'
    BY <2>1 DEF HoldsAreOpenCalls, readerVars
  <2>4. ReadersStreamSource'
    BY <2>1, ConfSame, HoldsSame DEF ReadersStreamSource
  <2>5. DroppedClientsAreTold' /\ NoGhostClients'
    BY <2>1 DEF DroppedClientsAreTold, NoGhostClients, Attached, readerVars
  <2> QED
    BY <2>2, <2>3, <2>4, <2>5
<1>2. CASE ClosePath
  <2>1. /\ UNCHANGED <<conf, source, stream, readers, describeHold, readerHold,
                       static, readerVars, ppc, closed>>
        /\ pc = "leaving" /\ pc' = "cancelled" /\ ctxDone'
        /\ demand'.state = demand.state
    BY <1>2 DEF ClosePath, TypeOK, Demand
  <2>2. SourceFitsConf' /\ StaticFollowsDemand'
    BY <2>1, ConfSame DEF SourceFitsConf, StaticFollowsDemand
  <2>3. HoldsAreOpenCalls'
    BY <2>1 DEF HoldsAreOpenCalls, readerVars
  <2>4. ReadersStreamSource' /\ StaticHoldsAreTimed' /\ DemandFollowsUse'
    BY <2>1 DEF ReadersStreamSource, StaticHoldsAreTimed, DemandFollowsUse
  <2>5. DroppedClientsAreTold' /\ NoGhostClients'
    BY <2>1 DEF DroppedClientsAreTold, NoGhostClients, Attached, readerVars
  <2> QED
    BY <2>2, <2>3, <2>4, <2>5
<1>3. CASE CloseDown
  <2>1. /\ UNCHANGED <<conf, ctxDone, source, demand, ppc, attached>>
        /\ pc = "cancelled" /\ pc' = "done"
        /\ describeHold' = {} /\ readerHold' = <<>>
        /\ CloseSource
    BY <1>3 DEF CloseDown, FailHolds
  <2>2. UNCHANGED <<HasStaticSource, HasOnDemandStaticSource, HasOnDemand, Attached>>
    BY <2>1, ConfSame DEF Attached
  <2>3. static' = "stopped"
    <3>1. CASE source = Static /\ (~conf.sourceOnDemand \/ demand.state # "Initial")
      BY <1>3, <2>1, <3>1 DEF CloseDown, StopStatic, SourceFitsConf, StaticFollowsDemand, TypeOK
    <3>2. CASE ~(source = Static /\ (~conf.sourceOnDemand \/ demand.state # "Initial"))
      BY <1>3, <2>1, <3>2 DEF CloseDown, SourceFitsConf, StaticFollowsDemand, TypeOK
    <3> QED
      BY <3>1, <3>2
  <2>4. SourceFitsConf' /\ StaticFollowsDemand'
    BY <2>1, <2>2, <2>3 DEF SourceFitsConf, StaticFollowsDemand
  <2>5. HoldsAreOpenCalls' /\ DemandFollowsUse' /\ StaticHoldsAreTimed'
    BY <2>1 DEF HoldsAreOpenCalls, DemandFollowsUse, StaticHoldsAreTimed
  <2>6. /\ ~stream' /\ readers' = {}
        /\ closed \subseteq closed'
        /\ readers \cap Attached \subseteq closed'
        /\ source \in Attached => source \in closed'
    BY <2>1, CloseSourceTells
  <2>7. ReadersStreamSource'
    BY <2>1, <2>6 DEF ReadersStreamSource
  <2>8. DroppedClientsAreTold'
    BY <2>1, <2>2, <2>6 DEF DroppedClientsAreTold, Attached
  <2>9. NoGhostClients'
    BY <2>1, <2>2, <2>6 DEF NoGhostClients
  <2> QED
    BY <2>4, <2>5, <2>7, <2>8, <2>9
<1> QED
  BY <1>1, <1>2, <1>3 DEF Exit

LEMMA InvReaderStep ==
  ASSUME PathInv, TypeOK', NEW c \in Readers, ReaderStep(c)
  PROVE  PathInv'
<1> USE DEF PathInv
<1>0. UNCHANGED <<pathVars, ppc>>
  BY DEF ReaderStep, CallDescribe, CallAddReader, CallRemoveReader, ReaderTerminated
<1>1. SourceFitsConf' /\ StaticFollowsDemand' /\ DemandFollowsUse' /\ StaticHoldsAreTimed'
  BY <1>0, PathFrame DEF pathVars
<1>2. ReadersStreamSource'
  BY <1>0, ConfSame, HoldsSame DEF ReadersStreamSource, pathVars
<1>3. CASE CallDescribe(c) \/ CallAddReader(c) \/ CallRemoveReader(c)
  <2>1. /\ rpc[c] = "idle" /\ \A x \in Readers \ {c} : rpc'[x] = rpc[x]
        /\ UNCHANGED <<attached, closed>>
    BY <1>3 DEF CallDescribe, CallAddReader, CallRemoveReader, TypeOK
  <2>2. HoldsAreOpenCalls'
    <3>1. /\ c \notin describeHold /\ describeHold \subseteq Readers
          /\ \A i \in DOMAIN readerHold : readerHold[i] \in Readers \ {c}
      BY <2>1 DEF HoldsAreOpenCalls, TypeOK
    <3> QED
      BY <1>0, <2>1, <3>1 DEF HoldsAreOpenCalls, pathVars
  <2>3. DroppedClientsAreTold' /\ NoGhostClients'
    BY <1>0, <2>1 DEF DroppedClientsAreTold, NoGhostClients, Attached, pathVars
  <2> QED
    BY <1>1, <1>2, <2>2, <2>3
<1>4. CASE ReaderTerminated(c)
  <2>1. /\ ctxDone /\ c \notin OnHold
        /\ \A x \in Readers \ {c} : rpc'[x] = rpc[x]
        /\ \/ UNCHANGED <<attached, closed>>
           \/ attached' = attached \ {c} /\ closed' = closed \ {c}
    BY <1>4 DEF ReaderTerminated, Answer, TypeOK
  <2>2. HoldsAreOpenCalls'
    <3>1. /\ c \notin describeHold /\ describeHold \subseteq Readers
          /\ \A i \in DOMAIN readerHold : readerHold[i] \in Readers \ {c}
      BY <2>1 DEF OnHold, HoldSet, TypeOK
    <3> QED
      BY <1>0, <2>1, <3>1 DEF HoldsAreOpenCalls, pathVars
  <2>3. DroppedClientsAreTold' /\ NoGhostClients'
    BY <1>0, <2>1, Distinct DEF DroppedClientsAreTold, NoGhostClients, Attached, pathVars
  <2> QED
    BY <1>1, <1>2, <2>2, <2>3
<1> QED
  BY <1>3, <1>4 DEF ReaderStep

LEMMA InvPublisherStep ==
  ASSUME PathInv, TypeOK', NEW p \in Publishers, PublisherStep(p)
  PROVE  PathInv'
<1> USE DEF PathInv
<1>0. /\ UNCHANGED <<pathVars, readerVars>>
      /\ \A q \in Publishers \ {p} : ppc'[q] = ppc[q]
  BY DEF PublisherStep, CallAddPublisher, CallStartPublisher, CallStopPublisher,
         CallRemovePublisher, CallPublisher, PublisherTerminated, Becomes, TypeOK
<1>1. SourceFitsConf' /\ StaticFollowsDemand' /\ DemandFollowsUse' /\ StaticHoldsAreTimed'
  BY <1>0, PathFrame DEF pathVars
<1>2. HoldsAreOpenCalls'
  BY <1>0 DEF HoldsAreOpenCalls, pathVars, readerVars
<1>a. UNCHANGED <<HasOnDemand, OnHold>>
  BY <1>0, ConfSame, HoldsSame DEF pathVars
<1>3. CASE /\ closed' = closed
           /\ \/ ppc[p] = "idle" /\ ppc'[p] = "adding"
              \/ ppc[p] = "added" /\ ppc'[p] = "starting"
              \/ ppc[p] = "publishing" /\ ppc'[p] = "stopping"
              \/ ppc[p] \in {"added", "publishing"} /\ ppc'[p] = "removing"
  <2>1. ReadersStreamSource'
    BY <1>0, <1>3, <1>a DEF ReadersStreamSource, pathVars
  <2>2. \A q \in Publishers : /\ q \in Attached' <=> q \in Attached
                              /\ ppc'[q] = "publishing" => ppc[q] = "publishing"
    BY <1>0, <1>3 DEF Attached, readerVars
  <2>3. DroppedClientsAreTold' /\ NoGhostClients'
    BY <1>0, <1>3, <2>2 DEF DroppedClientsAreTold, NoGhostClients, pathVars, readerVars
  <2> QED
    BY <1>1, <1>2, <2>1, <2>3
<1>4. CASE /\ ctxDone
           /\ \/ ppc[p] = "adding" /\ ppc'[p] = "idle" /\ closed' = closed
              \/ ppc[p] \in {"starting", "stopping"} /\ ppc'[p] = "added" /\ closed' = closed
              \/ ppc[p] = "removing" /\ ppc'[p] = "idle" /\ closed' = closed \ {p}
  <2>1. ReadersStreamSource'
    BY <1>0, <1>4, <1>a DEF ReadersStreamSource, pathVars
  <2>2. /\ \A q \in Publishers \ {p} : q \in Attached' <=> q \in Attached
        /\ p \in Attached' => p \in Attached /\ closed' = closed
        /\ p \notin attached
    BY <1>0, <1>4, Distinct DEF Attached, readerVars, TypeOK
  <2>3. DroppedClientsAreTold' /\ NoGhostClients'
    BY <1>0, <1>4, <2>2 DEF DroppedClientsAreTold, NoGhostClients, pathVars, readerVars
  <2> QED
    BY <1>1, <1>2, <2>1, <2>3
<1>5. \/ /\ closed' = closed
         /\ \/ ppc[p] = "idle" /\ ppc'[p] = "adding"
            \/ ppc[p] = "added" /\ ppc'[p] = "starting"
            \/ ppc[p] = "publishing" /\ ppc'[p] = "stopping"
            \/ ppc[p] \in {"added", "publishing"} /\ ppc'[p] = "removing"
      \/ PublisherTerminated(p)
  BY DEF PublisherStep, CallAddPublisher, CallStartPublisher, CallStopPublisher,
         CallRemovePublisher, CallPublisher, Becomes, TypeOK
<1> QED
  BY <1>3, <1>4, <1>5 DEF PublisherTerminated, Becomes, TypeOK
-----------------------------------------------------------------------------
LEMMA InvInit == Init => PathInv
<1> SUFFICES ASSUME Init PROVE PathInv
  OBVIOUS
<1>1. TypeOK /\ OnHold = {} /\ Attached = {}
  BY TypeInit DEF Init, OnHold, HoldSet, Attached
<1>2. SourceFitsConf /\ StaticFollowsDemand
  BY <1>1, ConfFacts, Distinct
     DEF Init, SourceFitsConf, StaticFollowsDemand, HasStaticSource
<1>3. ReadersStreamSource /\ HoldsAreOpenCalls /\ DemandFollowsUse /\ StaticHoldsAreTimed
  BY <1>1 DEF Init, ReadersStreamSource, HoldsAreOpenCalls, DemandFollowsUse,
              StaticHoldsAreTimed
<1>4. DroppedClientsAreTold /\ NoGhostClients
  BY <1>1, Distinct DEF Init, DroppedClientsAreTold, NoGhostClients, HasStaticSource
<1> QED
  BY <1>1, <1>2, <1>3, <1>4 DEF PathInv

LEMMA InvStep == PathInv /\ [Next]_vars => PathInv'
<1> SUFFICES ASSUME PathInv, [Next]_vars PROVE PathInv'
  OBVIOUS
<1>1. TypeOK'
  BY TypeStep DEF PathInv
<1>2. CASE UNCHANGED vars
  <2>1. SourceFitsConf' /\ StaticFollowsDemand' /\ DemandFollowsUse' /\ StaticHoldsAreTimed'
    BY <1>2, PathFrame DEF vars, pathVars
  <2>2. HoldsAreOpenCalls' /\ ReadersStreamSource'
    BY <1>2, ConfSame, HoldsSame
       DEF PathInv, HoldsAreOpenCalls, ReadersStreamSource, vars, pathVars, readerVars
  <2>3. DroppedClientsAreTold' /\ NoGhostClients'
    BY <1>2 DEF PathInv, DroppedClientsAreTold, NoGhostClients, Attached, vars,
                pathVars, readerVars
  <2> QED
    BY <1>1, <2>1, <2>2, <2>3 DEF PathInv
<1>3. CASE Next
  <2>1. ASSUME NEW c \in Readers, ReaderHandler(c) PROVE PathInv'
    BY <1>1, <2>1, InvDoDescribe, InvDoAddReader, InvDoRemoveReader DEF ReaderHandler
  <2>2. ASSUME NEW p \in Publishers, PublisherHandler(p) PROVE PathInv'
    BY <1>1, <2>2, InvDoAddPublisher, InvDoStartPublisher, InvDoStopPublisher,
       InvDoRemovePublisher DEF PublisherHandler
  <2>3. CASE SourceHandler \/ DoOnDemandReadyTimer \/ DoOnDemandCloseTimer
    BY <1>1, <2>3, InvDoSourceStaticSetReady, InvDoSourceStaticSetNotReady,
       InvDoOnDemandReadyTimer, InvDoOnDemandCloseTimer DEF SourceHandler
  <2> QED
    BY <1>1, <1>3, <2>1, <2>2, <2>3, InvExit, InvReaderStep, InvPublisherStep
       DEF Next, Step
<1> QED
  BY <1>2, <1>3

(* Every state of a path satisfies the safety properties and the two facts that
   make them inductive, whatever the clients, the source and the timers do. *)
THEOREM Inductive == Spec => []PathInv
BY InvInit, InvStep, PTL DEF Spec

-----------------------------------------------------------------------------
(* What follows from it. *)

(* A request that runInner put on hold is still waited for by its caller, and
   on hold once: the answer on its channel never blocks the path. *)
THEOREM HoldsCorrect == Spec => []HoldsAreOpenCalls
BY Inductive, PTL DEF PathInv

(* Readers, stream and source belong together whatever order setReady,
   setNotReady, the overriding publisher and the timers run in. *)
THEOREM StreamsCorrect == Spec => []ReadersStreamSource
BY Inductive, PTL DEF PathInv

(* Whoever the path drops, as a reader or as a publisher, was told to close. *)
THEOREM DroppedCorrect == Spec => []DroppedClientsAreTold
BY Inductive, PTL DEF PathInv

(* The path forgets a client no later than the client lets go of the path. *)
THEOREM GhostsCorrect == Spec => []NoGhostClients
BY Inductive, PTL DEF PathInv

(* The on-demand timers run in their states, and the close timer of a source
   that streams runs exactly while nobody reads from it. *)
THEOREM DemandCorrect == Spec => []DemandFollowsUse
BY Inductive, PTL DEF PathInv

(* Nobody waits for an on-demand static source without the start timeout. *)
THEOREM HoldsTimed == Spec => []StaticHoldsAreTimed
BY Inductive, PTL DEF PathInv
-----------------------------------------------------------------------------
(* The number of readers. *)

LEMMA FewAdmitted ==
  ASSUME TypeOK, readers = {}, conf.maxReaders # 0, Admitted # {}
  PROVE  Cardinality(Admitted) <= conf.maxReaders
<1> DEFINE max == conf.maxReaders
           J   == {j \in DOMAIN readerHold : Fits(j)}
           f   == [j \in J |-> readerHold[j]]
<1>1. max \in Int
  BY ConfsAssumption DEF TypeOK, ValidConf, Conf
<1>2. J \subseteq 1..max
  <2>1. DOMAIN readerHold \subseteq Nat \ {0}
    BY DEF TypeOK
  <2>2. \A j \in J : j <= max
    BY <1>1, <2>1, FS_EmptySet DEF Fits
  <2> QED
    BY <1>1, <2>1, <2>2
<1>3. f \in Surjection(J, Admitted)
  <2>1. f \in [J -> Admitted] /\ \A a \in Admitted : \E j \in J : f[j] = a
    BY DEF Admitted
  <2> QED
    BY <2>1, Fun_IsSurj
<1>4. J # {}
  BY DEF Admitted
<1> HIDE DEF max, f, J
<1>5. 1 \in Int /\ 1 <= max
  <2>1. PICK j \in J : TRUE
    BY <1>4
  <2>2. j \in 1..max
    BY <1>2, <2>1
  <2> QED
    BY <1>1, <2>2
<1>6. IsFiniteSet(1..max) /\ Cardinality(1..max) = max
  BY <1>1, <1>5, FS_Interval
<1>7. IsFiniteSet(J) /\ Cardinality(J) <= max
  BY <1>2, <1>6, FS_Subset
<1>8. Cardinality(Admitted) <= Cardinality(J) /\ IsFiniteSet(Admitted)
  BY <1>3, <1>7, FS_Surjection
<1>9. Cardinality(Admitted) \in Nat /\ Cardinality(J) \in Nat
  BY <1>7, <1>8, FS_CardinalityType
<1> QED
  BY <1>1, <1>7, <1>8, <1>9 DEF max

(* Handlers other than those that add readers leave some of them at most. *)
LEMMA LimitStep ==
  ASSUME PathInv, TypeOK', ReaderLimit, [Next]_vars
  PROVE  ReaderLimit'
<1> USE DEF PathInv
<1>1. /\ IsFiniteSet(readers) /\ Cardinality(readers) \in Nat
      /\ conf.maxReaders \in Int
  BY ClientsAssumption, ConfsAssumption, FS_Subset, FS_CardinalityType
     DEF TypeOK, ValidConf, Conf
<1>2. ASSUME UNCHANGED conf, readers' \subseteq readers PROVE ReaderLimit'
  <2>1. Cardinality(readers') <= Cardinality(readers) /\ Cardinality(readers') \in Nat
    BY <1>1, <1>2, FS_Subset, FS_CardinalityType
  <2> QED
    BY <1>1, <1>2, <2>1 DEF ReaderLimit
<1>3. ASSUME NEW c \in Readers, UNCHANGED conf, AddReaderPost(c) PROVE ReaderLimit'
  <2>1. CASE readers' = readers
    BY <1>2, <1>3, <2>1
  <2>2. CASE c \notin readers /\ Fits(1) /\ readers' = readers \cup {c}
    <3>1. Cardinality(readers') = Cardinality(readers) + 1
      BY <1>1, <2>2, FS_AddElement
    <3> QED
      BY <1>1, <1>3, <2>2, <3>1 DEF ReaderLimit, Fits
  <2> QED
    BY <1>3, <2>1, <2>2 DEF AddReaderPost
<1>4. ASSUME UNCHANGED conf, ServeHolds, ~stream PROVE ReaderLimit'
  <2>1. readers = {} /\ readers' = Admitted
    BY <1>4 DEF ServeHolds, ReadersStreamSource
  <2> QED
    BY <1>4, <2>1, FewAdmitted DEF ReaderLimit
<1>5. CASE UNCHANGED vars
  BY <1>2, <1>5 DEF vars, pathVars
<1>6. ASSUME NEW c \in Readers, ReaderHandler(c) \/ ReaderStep(c) PROVE ReaderLimit'
  <2>1. CASE DoAddReader(c)
    BY <1>2, <1>3, <2>1 DEF DoAddReader
  <2>2. CASE DoDescribe(c) \/ DoRemoveReader(c) \/ ReaderStep(c)
    BY <1>2, <2>2 DEF DoDescribe, DoRemoveReader, ReaderStep, CallDescribe,
       CallAddReader, CallRemoveReader, ReaderTerminated, pathVars
  <2> QED
    BY <1>6, <2>1, <2>2 DEF ReaderHandler
<1>7. ASSUME NEW p \in Publishers, PublisherHandler(p) \/ PublisherStep(p) PROVE ReaderLimit'
  <2>1. CASE DoStartPublisher(p)
    <3>1. source = p => ~stream
      BY <2>1, Distinct DEF DoStartPublisher, Requests, Taking, ReadersStreamSource
    <3> QED
      BY <1>2, <1>4, <2>1, <3>1 DEF DoStartPublisher
  <2>2. CASE DoAddPublisher(p) \/ DoStopPublisher(p) \/ DoRemovePublisher(p)
    BY <1>2, <2>2 DEF DoAddPublisher, DoStopPublisher, DoRemovePublisher, CloseSource,
       SetNotReady
  <2>3. CASE PublisherStep(p)
    BY <1>2, <2>3 DEF PublisherStep, CallAddPublisher, CallStartPublisher,
       CallStopPublisher, CallRemovePublisher, CallPublisher, PublisherTerminated, pathVars
  <2> QED
    BY <1>7, <2>1, <2>2, <2>3 DEF PublisherHandler
<1>8. CASE SourceHandler \/ DoOnDemandReadyTimer \/ DoOnDemandCloseTimer
  <2>1. CASE DoSourceStaticSetReady
    <3>1. HasOnDemandStaticSource => ~stream
      BY <2>1, Distinct DEF DoSourceStaticSetReady, SourceFitsConf, ReadersStreamSource,
         HasOnDemandStaticSource
    <3> QED
      BY <1>2, <1>4, <2>1, <3>1 DEF DoSourceStaticSetReady
  <2> QED
    BY <1>2, <1>8, <2>1 DEF SourceHandler, DoSourceStaticSetNotReady,
       DoOnDemandReadyTimer, DoOnDemandCloseTimer, StopPublisherDemand, CloseSource,
       SetNotReady
<1>9. CASE Exit \/ Cancel
  BY <1>2, <1>9 DEF Exit, Leave, ClosePath, CloseDown, Cancel, CloseSource, SetNotReady
<1> QED
  BY <1>5, <1>6, <1>7, <1>8, <1>9 DEF Next, Step

(* A path never has more readers than maxReaders allows, those that it lets in
   at once when the stream comes included. *)
THEOREM LimitCorrect == Spec => []ReaderLimit
<1>1. Init => ReaderLimit
  BY DEF Init, ReaderLimit
<1>2. PathInv /\ PathInv' /\ ReaderLimit /\ [Next]_vars => ReaderLimit'
  BY LimitStep DEF PathInv
<1> QED
  BY <1>1, <1>2, Inductive, PTL DEF Spec
-----------------------------------------------------------------------------
(* No handler without the shouldClose check makes the path unused: to lose the
   last reader there must be a source, and only a source adds or starts. *)
LEMMA UnusedStep ==
  ASSUME PathInv, [Next]_vars, pc = "loop", ~ShouldClose, ShouldClose'
  PROVE  pc' # "loop"
<1> USE DEF PathInv
<1>1. UNCHANGED <<conf, source, readers, describeHold, readerHold>> => FALSE
  BY DEF ShouldClose
<1>2. source' = None
  BY DEF ShouldClose
<1>3. LeaveIfUnused => pc' # "loop"
  BY DEF LeaveIfUnused
<1>4. CASE UNCHANGED vars
  BY <1>1, <1>4 DEF vars, pathVars
<1>5. ASSUME NEW c \in Readers, ReaderHandler(c) \/ ReaderStep(c) PROVE pc' # "loop"
  <2>1. CASE DoRemoveReader(c)
    <3>1. readers = {}
      BY <1>2, <2>1, Distinct DEF DoRemoveReader, ReadersStreamSource
    <3> QED
      BY <1>1, <2>1, <3>1 DEF DoRemoveReader
  <2>2. CASE DoDescribe(c) \/ DoAddReader(c)
    BY <1>3, <2>2 DEF DoDescribe, DoAddReader
  <2>3. CASE ReaderStep(c)
    BY <1>1, <2>3 DEF ReaderStep, CallDescribe, CallAddReader, CallRemoveReader,
       ReaderTerminated, pathVars
  <2> QED
    BY <1>5, <2>1, <2>2, <2>3 DEF ReaderHandler
<1>6. ASSUME NEW p \in Publishers, PublisherHandler(p) \/ PublisherStep(p) PROVE pc' # "loop"
  <2>1. CASE DoAddPublisher(p) \/ DoStartPublisher(p)
    BY <1>1, <1>2, <2>1, Distinct DEF DoAddPublisher, DoStartPublisher, readerVars
  <2>2. CASE DoStopPublisher(p) \/ DoRemovePublisher(p)
    BY <1>3, <2>2 DEF DoStopPublisher, DoRemovePublisher
  <2>3. CASE PublisherStep(p)
    BY <1>1, <2>3 DEF PublisherStep, CallAddPublisher, CallStartPublisher,
       CallStopPublisher, CallRemovePublisher, CallPublisher, PublisherTerminated, pathVars
  <2> QED
    BY <1>6, <2>1, <2>2, <2>3 DEF PublisherHandler
<1>7. CASE SourceHandler \/ DoOnDemandReadyTimer \/ DoOnDemandCloseTimer
  <2>1. CASE DoSourceStaticSetReady
    BY <1>2, <2>1, Distinct DEF DoSourceStaticSetReady, StaticFollowsDemand, SourceFitsConf
  <2> QED
    BY <1>3, <1>7, <2>1 DEF SourceHandler, DoSourceStaticSetNotReady,
       DoOnDemandReadyTimer, DoOnDemandCloseTimer
<1>8. CASE Exit \/ Cancel
  BY <1>1, <1>8 DEF Exit, Leave, ClosePath, CloseDown, Cancel
<1> QED
  BY <1>4, <1>5, <1>6, <1>7, <1>8 DEF Next, Step

(* A path made from a regular expression leaves in the step that makes it
   unused, though not every handler of runInner checks shouldClose. *)
THEOREM UnusedLeaves == Spec => UnusedPathLeaves
<1>1. PathInv /\ [Next]_vars
        => [pc = "loop" /\ ~ShouldClose /\ ShouldClose' => pc' # "loop"]_vars
  BY UnusedStep
<1> QED
  BY <1>1, Inductive, PTL DEF Spec, UnusedPathLeaves
-----------------------------------------------------------------------------
(* The static source. *)
LEMMA StaticStep ==
  ASSUME PathInv', [Next]_vars
  PROVE  [Source!Next]_static
<1> USE DEF PathInv, StaticFollowsDemand, Source!Next, Source!Start, Source!Ready,
            Source!NotReady, Source!Stop
<1>1. StartStatic \/ StopStatic => [Source!Next]_static
  BY DEF StartStatic, StopStatic
<1>2. StartDemand => [Source!Next]_static
  BY <1>1 DEF StartDemand
<1>3. ASSUME NEW c \in Readers, ReaderHandler(c) \/ ReaderStep(c)
      PROVE  [Source!Next]_static
  BY <1>2, <1>3 DEF ReaderHandler, DoDescribe, DoAddReader, DoRemoveReader, ReaderStep,
     CallDescribe, CallAddReader, CallRemoveReader, ReaderTerminated, pathVars
<1>4. ASSUME NEW p \in Publishers, PublisherHandler(p) \/ PublisherStep(p)
      PROVE  UNCHANGED static
  BY <1>4 DEF PublisherHandler, DoAddPublisher, DoStartPublisher, DoStopPublisher,
     DoRemovePublisher, PublisherStep, CallAddPublisher, CallStartPublisher,
     CallStopPublisher, CallRemovePublisher, CallPublisher, PublisherTerminated, pathVars
<1>5. CASE SourceHandler
  BY <1>1, <1>5 DEF SourceHandler, DoSourceStaticSetReady, DoSourceStaticSetNotReady
<1>6. CASE DoOnDemandReadyTimer \/ DoOnDemandCloseTimer
  BY <1>1, <1>6 DEF DoOnDemandReadyTimer, DoOnDemandCloseTimer, StopPublisherDemand
<1>7. CASE Exit \/ Cancel \/ UNCHANGED vars
  BY <1>1, <1>7 DEF Exit, Leave, ClosePath, CloseDown, Cancel, vars, pathVars
<1> QED
  BY <1>3, <1>4, <1>5, <1>6, <1>7 DEF Next, Step

(* The path starts, stops and hears its static source in no other order than
   sourceStatic allows: start and stop never panic. *)
THEOREM UsesStatic == Spec => UsesStaticSource
<1>1. Init => Source!Init
  BY DEF Init, Source!Init
<1>2. PathInv' /\ [Next]_vars => [Source!Next]_static
  BY StaticStep
<1> QED
  BY <1>1, <1>2, Inductive, PTL DEF Spec, UsesStaticSource, Source!Spec
-----------------------------------------------------------------------------
(* The service to readers. *)
Asking == {c \in Readers : rpc[c] \in {"describing", "adding"}}

(* A reader that was told to close still holds the path. *)
ClosedHoldPath == closed \cap Readers \subseteq attached

LEMMA ClosedInit == Init => ClosedHoldPath
BY DEF Init, ClosedHoldPath

(* What closes clients closes those that hold the path. *)
LEMMA CloseKeeps ==
  ASSUME ClosedHoldPath, UNCHANGED attached
  PROVE  /\ \A S : Close(S) \/ SetNotReady(S) => ClosedHoldPath'
         /\ CloseSource => ClosedHoldPath'
BY Distinct DEF ClosedHoldPath, Close, SetNotReady, CloseSource, Attached

LEMMA ClosedStep ==
  ASSUME PathInv, ClosedHoldPath, [Next]_vars
  PROVE  ClosedHoldPath'
<1> USE DEF PathInv
<1>1. ASSUME attached \subseteq attached', closed' \subseteq closed PROVE ClosedHoldPath'
  BY <1>1 DEF ClosedHoldPath
<1>2. ASSUME NEW c \in Readers, attached' = attached \ {c}, closed' = closed \ {c}
      PROVE  ClosedHoldPath'
  BY <1>2 DEF ClosedHoldPath
<1>3. ASSUME NEW c \in Readers, ReaderHandler(c) \/ ReaderStep(c) PROVE ClosedHoldPath'
  BY <1>1, <1>2, <1>3 DEF ReaderHandler, DoDescribe, DoAddReader, AddReaderPost,
     DoRemoveReader, ReaderStep, CallDescribe, CallAddReader, CallRemoveReader,
     ReaderTerminated, pathVars
<1>4. ASSUME NEW p \in Publishers, PublisherHandler(p) \/ PublisherStep(p)
      PROVE  ClosedHoldPath'
  <2>1. CASE DoAddPublisher(p)
    BY <1>1, <2>1, CloseKeeps DEF DoAddPublisher, readerVars
  <2>2. CASE DoStartPublisher(p)
    BY <1>1, <2>2 DEF DoStartPublisher, ServeHolds, readerVars
  <2>3. CASE DoStopPublisher(p)
    BY <1>1, <2>3, CloseKeeps DEF DoStopPublisher, readerVars
  <2>4. CASE DoRemovePublisher(p)
    BY <2>4, Distinct DEF DoRemovePublisher, ClosedHoldPath, Attached, readerVars
  <2>5. CASE PublisherStep(p)
    BY <1>1, <2>5 DEF PublisherStep, CallAddPublisher, CallStartPublisher,
       CallStopPublisher, CallRemovePublisher, CallPublisher, PublisherTerminated, readerVars
  <2> QED
    BY <1>4, <2>1, <2>2, <2>3, <2>4, <2>5 DEF PublisherHandler
<1>5. CASE SourceHandler
  BY <1>1, <1>5, CloseKeeps DEF SourceHandler, DoSourceStaticSetReady,
     DoSourceStaticSetNotReady, ServeHolds, readerVars
<1>6. CASE DoOnDemandReadyTimer \/ DoOnDemandCloseTimer
  BY <1>1, <1>6, CloseKeeps DEF DoOnDemandReadyTimer, DoOnDemandCloseTimer, FailHolds,
     StopPublisherDemand, readerVars
<1>7. CASE Exit \/ Cancel \/ UNCHANGED vars
  BY <1>1, <1>7, CloseKeeps DEF Exit, Leave, ClosePath, CloseDown, FailHolds, Cancel,
     vars, readerVars
<1> QED
  BY <1>3, <1>4, <1>5, <1>6, <1>7 DEF Next, Step

(* The steps of PathService in terms of the path. *)
Subscribers == readers \cap attached
Notified    == closed \cap attached

LEMMA Stutters ==
  ASSUME UNCHANGED <<stream, Asking, Subscribers, Notified>>
  PROVE  [Service!Next]_(Service!vars)
BY DEF Service!vars, Asking, Subscribers, Notified

LEMMA Serves ==
  ASSUME NEW A \in SUBSET Asking, NEW B \in SUBSET A,
         Asking' = Asking \ A,
         Subscribers' = Subscribers \cup B,
         stream' \in {stream, TRUE},
         B # {} => stream',
         UNCHANGED Notified
  PROVE  [Service!Next]_(Service!vars)
<1>1. Service!Serve
  BY DEF Service!Serve, Asking, Subscribers, Notified
<1> QED
  BY <1>1 DEF Service!Next

LEMMA GoesOffline ==
  ASSUME NEW A \in SUBSET Asking,
         Asking' = Asking \ A,
         ~stream', stream' \in BOOLEAN,
         Subscribers' = {},
         Notified' = Notified \cup Subscribers
  PROVE  [Service!Next]_(Service!vars)
<1>1. Service!GoOffline
  BY DEF Service!GoOffline, Asking, Subscribers, Notified
<1> QED
  BY <1>1 DEF Service!Next

LEMMA Leaves ==
  ASSUME NEW c \in Readers,
         c \in Subscribers \cup Notified,
         Subscribers' = Subscribers \ {c},
         Notified' = Notified \ {c},
         UNCHANGED <<stream, Asking>>
  PROVE  [Service!Next]_(Service!vars)
<1>1. Service!Leave(c)
  BY DEF Service!Leave, Asking, Subscribers, Notified
<1> QED
  BY <1>1 DEF Service!Next

LEMMA Asks ==
  ASSUME NEW c \in Readers, c \notin Asking,
         Asking' = Asking \cup {c},
         UNCHANGED <<stream, Subscribers, Notified>>
  PROVE  [Service!Next]_(Service!vars)
<1>1. Service!Ask(c)
  BY DEF Service!Ask, Asking, Subscribers, Notified
<1> QED
  BY <1>1 DEF Service!Next
-----------------------------------------------------------------------------
(* An answer ends the calls it goes to. *)
LEMMA AnswerEnds ==
  ASSUME TypeOK, NEW S, NEW a, Answer(S, a)
  PROVE  Asking' = Asking \ S
BY DEF TypeOK, Answer, Asking, ReaderCalls

LEMMA HoldsAsk == PathInv => OnHold \subseteq Asking
BY DEF PathInv, TypeOK, HoldsAreOpenCalls, OnHold, HoldSet, Asking

(* Closing the source takes its stream to all its readers; with no stream there
   are none, and whoever else holds the path was told before. *)
LEMMA CloseSourceNotifies ==
  ASSUME PathInv, UNCHANGED attached, CloseSource
  PROVE  /\ ~stream' /\ stream' \in BOOLEAN
         /\ Subscribers' = {}
         /\ Notified' = Notified \cup Subscribers
<1> USE DEF PathInv
<1>1. stream' = FALSE /\ readers' = {}
  BY DEF CloseSource, SetNotReady, ReadersStreamSource, TypeOK
<1>2. closed' = closed \cup (readers \cap Attached) \cup ({source} \cap Attached)
  BY DEF CloseSource, SetNotReady, ReadersStreamSource, Close
<1>3. attached \subseteq readers \cup closed /\ attached \subseteq Attached
  BY DEF DroppedClientsAreTold, Attached, TypeOK
<1> QED
  BY <1>1, <1>2, <1>3 DEF Subscribers, Notified

LEMMA SetNotReadyNotifies ==
  ASSUME PathInv, UNCHANGED attached, SetNotReady({})
  PROVE  /\ ~stream' /\ stream' \in BOOLEAN
         /\ Subscribers' = {}
         /\ Notified' = Notified \cup Subscribers
BY DEF SetNotReady, Close, Attached, Subscribers, Notified

LEMMA ServeHoldsServed ==
  ASSUME PathInv, ClosedHoldPath, ServeHolds, ~stream, stream' = TRUE, UNCHANGED closed
  PROVE  [Service!Next]_(Service!vars)
<1>1. Asking' = Asking \ OnHold
  BY DEF PathInv, TypeOK, ServeHolds, Asking, ReaderCalls
<1>2. OnHold \subseteq Asking /\ Admitted \subseteq OnHold /\ Admitted \subseteq Readers
  BY HoldsAsk, AdmittedType DEF PathInv, OnHold
<1>3. Subscribers' = Subscribers \cup Admitted
  BY DEF ServeHolds, Subscribers, PathInv, ReadersStreamSource
<1>4. UNCHANGED Notified
  BY <1>2 DEF ServeHolds, Notified, ClosedHoldPath
<1> QED
  BY <1>1, <1>2, <1>3, <1>4, Serves

LEMMA ServiceReader ==
  ASSUME PathInv, ClosedHoldPath, NEW c \in Readers, ReaderHandler(c) \/ ReaderStep(c)
  PROVE  [Service!Next]_(Service!vars)
<1> USE DEF PathInv
<1>1. ASSUME NEW a, Answer({c}, a), rpc[c] \in {"describing", "adding"},
             UNCHANGED <<stream, Subscribers, Notified>>
      PROVE  [Service!Next]_(Service!vars)
  <2>1. {c} \subseteq Asking /\ Asking' = Asking \ {c}
    BY <1>1, AnswerEnds DEF Asking
  <2>2. Subscribers' = Subscribers \cup {} /\ UNCHANGED <<stream, Notified>>
    BY <1>1
  <2> QED
    BY <2>1, <2>2, Serves
<1>2. ASSUME Answer({c}, "none"), rpc[c] = "removing", UNCHANGED stream,
             attached' = attached \ {c}, closed' = closed \ {c},
             readers' \in {readers, readers \ {c}}
      PROVE  [Service!Next]_(Service!vars)
  <2>1. UNCHANGED Asking
    BY <1>2, AnswerEnds DEF Asking
  <2>2. Subscribers' = Subscribers \ {c} /\ Notified' = Notified \ {c}
    BY <1>2 DEF Subscribers, Notified
  <2>3. c \in attached => c \in Subscribers \cup Notified
    BY DEF DroppedClientsAreTold, Subscribers, Notified
  <2>4. c \notin attached => UNCHANGED <<Subscribers, Notified>>
    BY <2>2 DEF Subscribers, Notified
  <2> QED
    BY <1>2, <2>1, <2>2, <2>3, <2>4, Leaves, Stutters
<1>3. CASE DoDescribe(c)
  <2>1. /\ rpc[c] = "describing" /\ UNCHANGED <<stream, readers, attached, closed>>
        /\ UNCHANGED rpc \/ \E a : Answer({c}, a)
    BY <1>3 DEF DoDescribe, Received
  <2>2. UNCHANGED <<stream, Subscribers, Notified>>
    BY <2>1 DEF Subscribers, Notified
  <2> QED
    BY <1>1, <2>1, <2>2, Stutters DEF Asking
<1>4. CASE DoAddReader(c)
  <2>1. rpc[c] = "adding" /\ UNCHANGED <<stream, closed>>
    BY <1>4 DEF DoAddReader, Received
  <2>2. CASE UNCHANGED <<readers, attached>>
    <3>1. UNCHANGED rpc \/ \E a : Answer({c}, a)
      BY <1>4 DEF DoAddReader, AddReaderPost
    <3>2. UNCHANGED <<stream, Subscribers, Notified>>
      BY <2>1, <2>2 DEF Subscribers, Notified
    <3> QED
      BY <1>1, <2>1, <3>1, <3>2, Stutters DEF Asking
  <2>3. CASE ~UNCHANGED <<readers, attached>>
    <3>1. /\ stream /\ Answer({c}, "stream")
          /\ readers' = readers \cup {c} /\ attached' = attached \cup {c}
      BY <1>4, <2>3 DEF DoAddReader, AddReaderPost
    <3>2. {c} \subseteq Asking /\ Asking' = Asking \ {c}
      BY <2>1, <3>1, AnswerEnds DEF Asking
    <3>3. Subscribers' = Subscribers \cup {c} /\ UNCHANGED Notified
      BY <2>1, <3>1 DEF Subscribers, Notified, ClosedHoldPath
    <3> QED
      BY <2>1, <3>1, <3>2, <3>3, Serves
  <2> QED
    BY <2>2, <2>3
<1>5. CASE DoRemoveReader(c)
  BY <1>2, <1>5 DEF DoRemoveReader, Received
<1>6. CASE ReaderTerminated(c)
  <2>1. CASE rpc[c] = "removing"
    BY <1>2, <1>6, <2>1 DEF ReaderTerminated, pathVars
  <2>2. CASE rpc[c] # "removing"
    BY <1>1, <1>6, <2>2 DEF ReaderTerminated, pathVars, Subscribers, Notified
  <2> QED
    BY <2>1, <2>2
<1>7. CASE CallDescribe(c) \/ CallAddReader(c)
  <2>1. c \notin Asking /\ Asking' = Asking \cup {c}
    BY <1>7 DEF CallDescribe, CallAddReader, Asking, TypeOK
  <2>2. UNCHANGED <<stream, Subscribers, Notified>>
    BY <1>7 DEF CallDescribe, CallAddReader, pathVars, Subscribers, Notified
  <2> QED
    BY <2>1, <2>2, Asks
<1>8. CASE CallRemoveReader(c)
  BY <1>8, Stutters DEF CallRemoveReader, pathVars, Subscribers, Notified, Asking, TypeOK
<1> QED
  BY <1>3, <1>4, <1>5, <1>6, <1>7, <1>8 DEF ReaderHandler, ReaderStep

LEMMA ServicePublisher ==
  ASSUME PathInv, ClosedHoldPath, NEW p \in Publishers,
         PublisherHandler(p) \/ PublisherStep(p)
  PROVE  [Service!Next]_(Service!vars)
<1> USE DEF PathInv
<1>1. ASSUME UNCHANGED <<stream, rpc, readers, attached>>, UNCHANGED Notified
      PROVE  [Service!Next]_(Service!vars)
  BY <1>1, Stutters DEF Asking, Subscribers
<1>2. ASSUME UNCHANGED <<rpc, attached>>, CloseSource \/ SetNotReady({})
      PROVE  [Service!Next]_(Service!vars)
  <2>1. Asking' = Asking \ {}
    BY <1>2 DEF Asking
  <2> QED
    BY <1>2, <2>1, CloseSourceNotifies, SetNotReadyNotifies, GoesOffline
<1>3. CASE DoAddPublisher(p)
  BY <1>1, <1>2, <1>3 DEF DoAddPublisher, readerVars, Notified
<1>4. CASE DoStartPublisher(p)
  <2>1. source = p => ~stream /\ stream = FALSE
    BY <1>4, Distinct DEF DoStartPublisher, Requests, Taking, ReadersStreamSource, TypeOK
  <2>2. CASE UNCHANGED stream
    BY <1>1, <1>4, <2>1, <2>2 DEF DoStartPublisher, readerVars, Notified
  <2>3. CASE ~UNCHANGED stream
    <3>1. stream' = TRUE /\ ~stream /\ UNCHANGED closed
      BY <1>4, <2>1, <2>3 DEF DoStartPublisher
    <3>2. CASE HasOnDemandPublisher
      BY <1>4, <2>3, <3>1, <3>2, <2>1, ServeHoldsServed DEF DoStartPublisher
    <3>3. CASE ~HasOnDemandPublisher
      <4>1. UNCHANGED <<readers, attached, rpc, closed>>
        BY <1>4, <2>1, <2>3, <3>3 DEF DoStartPublisher, readerVars
      <4>2. Asking' = Asking \ {} /\ Subscribers' = Subscribers \cup {} /\ UNCHANGED Notified
        BY <4>1 DEF Asking, Subscribers, Notified
      <4> QED
        BY <3>1, <4>2, Serves
    <3> QED
      BY <3>2, <3>3
  <2> QED
    BY <2>2, <2>3
<1>5. CASE DoStopPublisher(p)
  BY <1>1, <1>2, <1>5 DEF DoStopPublisher, readerVars, Notified
<1>6. CASE DoRemovePublisher(p)
  <2>1. p \notin attached /\ UNCHANGED <<rpc, attached>>
    BY <1>6, Distinct DEF DoRemovePublisher, readerVars, TypeOK
  <2>2. CASE UNCHANGED stream /\ closed' = closed \ {p} /\ UNCHANGED readers
    BY <1>1, <2>1, <2>2 DEF Notified
  <2>3. CASE /\ stream' = FALSE /\ readers' = {}
             /\ closed' = (closed \cup (readers \cap Attached)) \ {p}
    <3>1. Asking' = Asking \ {} /\ Subscribers' = {}
      BY <2>1, <2>3 DEF Asking, Subscribers
    <3>2. Notified' = Notified \cup Subscribers
      BY <2>1, <2>3 DEF Notified, Subscribers, Attached
    <3> QED
      BY <2>3, <3>1, <3>2, GoesOffline
  <2> QED
    BY <1>6, <2>2, <2>3 DEF DoRemovePublisher
<1>7. CASE PublisherStep(p)
  <2>1. UNCHANGED <<stream, rpc, readers, attached>> /\ closed' \in {closed, closed \ {p}}
    BY <1>7 DEF PublisherStep, CallAddPublisher, CallStartPublisher, CallStopPublisher,
       CallRemovePublisher, CallPublisher, PublisherTerminated, pathVars, readerVars
  <2>2. p \notin attached
    BY Distinct DEF TypeOK
  <2> QED
    BY <1>1, <2>1, <2>2 DEF Notified
<1> QED
  BY <1>3, <1>4, <1>5, <1>6, <1>7 DEF PublisherHandler

LEMMA ServiceRest ==
  ASSUME PathInv, ClosedHoldPath,
         SourceHandler \/ DoOnDemandReadyTimer \/ DoOnDemandCloseTimer \/ Exit \/ Cancel
  PROVE  [Service!Next]_(Service!vars)
<1> USE DEF PathInv
<1>1. ASSUME NEW A \in SUBSET Asking, Asking' = Asking \ A, UNCHANGED attached,
             CloseSource \/ SetNotReady({}) \/ UNCHANGED <<stream, readers, closed>>,
             ~stream \/ CloseSource \/ SetNotReady({})
      PROVE  [Service!Next]_(Service!vars)
  <2>1. CASE CloseSource \/ SetNotReady({})
    BY <1>1, <2>1, CloseSourceNotifies, SetNotReadyNotifies, GoesOffline
  <2>2. CASE ~stream /\ UNCHANGED <<stream, readers, closed>>
    <3>1. readers = {} /\ ~stream' /\ stream' \in BOOLEAN
      BY <2>2 DEF ReadersStreamSource, TypeOK
    <3>2. Subscribers' = {} /\ Notified' = Notified \cup Subscribers
      BY <1>1, <2>2, <3>1 DEF Subscribers, Notified
    <3> QED
      BY <1>1, <3>1, <3>2, GoesOffline
  <2> QED
    BY <1>1, <2>1, <2>2
<1>2. ASSUME UNCHANGED rpc PROVE Asking' = Asking \ {}
  BY <1>2 DEF Asking
<1>3. ASSUME NEW a, FailHolds(a) PROVE /\ Asking' = Asking \ OnHold /\ UNCHANGED attached
                                      /\ OnHold \in SUBSET Asking
  BY <1>3, AnswerEnds, HoldsAsk DEF FailHolds
<1>4. CASE DoSourceStaticSetReady
  <2>1. ~stream /\ stream = FALSE /\ UNCHANGED closed
    BY <1>4, Distinct DEF DoSourceStaticSetReady, StaticFollowsDemand, SourceFitsConf,
       ReadersStreamSource, TypeOK
  <2>2. CASE ServeHolds /\ stream' = TRUE
    BY <2>1, <2>2, ServeHoldsServed
  <2>3. CASE UNCHANGED <<readers, attached, rpc>> /\ stream' \in {stream, TRUE}
    <3>1. Asking' = Asking \ {} /\ Subscribers' = Subscribers \cup {} /\ UNCHANGED Notified
      BY <2>1, <2>3 DEF Asking, Subscribers, Notified
    <3> QED
      BY <2>3, <3>1, Serves
  <2> QED
    BY <1>4, <2>1, <2>2, <2>3 DEF DoSourceStaticSetReady, readerVars
<1>5. CASE DoSourceStaticSetNotReady
  BY <1>1, <1>2, <1>5 DEF DoSourceStaticSetNotReady, readerVars
<1>6. CASE DoOnDemandReadyTimer
  <2>1. ~stream
    <3>1. demand.state = "WaitingReady"
      BY <1>6 DEF DoOnDemandReadyTimer, DemandFollowsUse
    <3> QED
      BY <1>6, <3>1 DEF DoOnDemandReadyTimer, DemandFollowsUse, SourceFitsConf
  <2>2. FailHolds("timedOut")
    BY <1>6 DEF DoOnDemandReadyTimer
  <2>3. CloseSource \/ UNCHANGED <<stream, readers, closed>>
    BY <1>6 DEF DoOnDemandReadyTimer, StopPublisherDemand
  <2> QED
    BY <1>1, <1>3, <2>1, <2>2, <2>3
<1>7. CASE DoOnDemandCloseTimer
  <2>1. UNCHANGED <<rpc, attached>>
    BY <1>7 DEF DoOnDemandCloseTimer, readerVars
  <2>2. CloseSource \/ SetNotReady({}) \/ UNCHANGED <<stream, readers, closed>>
    BY <1>7 DEF DoOnDemandCloseTimer, StopPublisherDemand
  <2>3. CASE CloseSource \/ SetNotReady({})
    BY <1>1, <1>2, <2>1, <2>3
  <2>4. CASE UNCHANGED <<stream, readers, closed>>
    BY <2>1, <2>4, Stutters DEF Asking, Subscribers, Notified
  <2> QED
    BY <2>2, <2>3, <2>4
<1>8. CASE CloseDown
  BY <1>1, <1>3, <1>8 DEF CloseDown
<1>9. CASE Leave \/ ClosePath \/ Cancel
  BY <1>9, Stutters DEF Leave, ClosePath, Cancel, Asking, Subscribers, Notified, readerVars
<1> QED
  BY <1>4, <1>5, <1>6, <1>7, <1>8, <1>9 DEF SourceHandler, Exit

LEMMA ServiceInit == Init => Service!Init
BY DEF Init, Service!Init

LEMMA ServiceStep ==
  ASSUME PathInv, ClosedHoldPath, [Next]_vars
  PROVE  [Service!Next]_(Service!vars)
<1>1. CASE UNCHANGED vars
  BY <1>1, Stutters DEF vars, pathVars, readerVars, Asking, Subscribers, Notified
<1>2. CASE Next
  BY <1>2, ServiceReader, ServicePublisher, ServiceRest DEF Next, Step
<1> QED
  BY <1>1, <1>2

(* Whatever its source and its configuration, a path serves its readers as
   PathService says: each of them until it leaves, or is told that the stream
   is gone. *)
THEOREM ServesReaders == Spec => ImplementsPathService
<1>1. Spec => []ClosedHoldPath
  BY ClosedInit, ClosedStep, Inductive, PTL DEF Spec
<1> QED
  BY <1>1, ServiceInit, ServiceStep, Inductive, PTL
     DEF Spec, ImplementsPathService, Service!Spec
=============================================================================
