-------------------------------- MODULE Path --------------------------------
(***************************************************************************)
(* One path of the media server (core/path.go): a goroutine that owns the  *)
(* source, the stream and the readers of one stream name and serialises    *)
(* what its clients, its static source and its timers ask of it.           *)
(*                                                                         *)
(* Every channel of the path is unbuffered, so a request and its handler   *)
(* are one rendezvous: a client that is "describing" is blocked in the     *)
(* select of path.describe until the path takes the request or its context *)
(* is done; one the path took and put on hold waits for its answer alone.  *)
(* Both sides select on that context as well, and an unbuffered channel    *)
(* needs one of them parked: once it is done nobody parks, so the path     *)
(* takes no request any more, while a timer that fired may still win.      *)
(***************************************************************************)
EXTENDS Integers, FiniteSets, Sequences

CONSTANTS
  Readers,     \* connections and sessions that describe and read
  Publishers,  \* connections and sessions that publish
  Confs        \* the path configurations considered

Clients == Readers \cup Publishers

None     == "none"      \* pa.source == nil
Redirect == "redirect"  \* *sourceRedirect
Static   == "static"    \* *sourceStatic

(* The part of conf.Path that the path goroutine reads. *)
Conf == [source            : {"publisher", "static", "redirect"},
         sourceOnDemand    : BOOLEAN,
         runOnDemand       : BOOLEAN,   \* RunOnDemand # ""
         regexp            : BOOLEAN,   \* Regexp # nil
         overridePublisher : BOOLEAN,
         fallback          : BOOLEAN,   \* Fallback # ""
         maxReaders        : Int]

(* What Path.check lets through. *)
ValidConf(c) ==
  /\ c \in Conf
  /\ c.regexp => c.source # "static"
  /\ c.sourceOnDemand => c.source # "publisher"
  /\ c.runOnDemand => c.source = "publisher"
  /\ c.fallback => c.source = "publisher"

ASSUME ClientsAssumption ==
  /\ IsFiniteSet(Readers)
  /\ Readers \cap Publishers = {}
  /\ {None, Redirect, Static} \cap Publishers = {}

ASSUME ConfsAssumption == \A c \in Confs : ValidConf(c)

VARIABLES
  conf,          \* pa.conf: fixed for the life of the path
  pc,            \* where the path goroutine is
  ctxDone,       \* pa.ctx is done
  source,        \* pa.source
  stream,        \* pa.stream # nil
  readers,       \* pa.readers
  describeHold,  \* pa.describeRequestsOnHold
  readerHold,    \* pa.readerAddRequestsOnHold
  demand,        \* on-demand state and its two timers
  static,        \* the static source: sourceStatic.running, and what it reported
  rpc,           \* the call a reader is in
  answer,        \* the answer to a reader's last call
  attached,      \* readers that were given the path (session.path # nil)
  ppc,           \* the call a publisher is in, or what it holds
  closed         \* clients whose close() the path called

pathVars   == <<conf, pc, ctxDone, source, stream, readers, describeHold,
                readerHold, demand, static>>
readerVars == <<rpc, answer, attached>>
vars       == <<pathVars, readerVars, ppc, closed>>

DemandStates == {"Initial", "WaitingReady", "Ready", "Closing"}
Demand == [state : DemandStates, readyTimer : BOOLEAN, closeTimer : BOOLEAN]

ReaderCalls == {"idle", "describing", "adding", "removing"}
PublisherCalls == {"idle", "adding", "added", "starting", "publishing",
                   "stopping", "removing"}
Answers == {"none", "stream", "redirect", "noOne", "full", "timedOut",
            "terminated"}

HoldSet  == {readerHold[i] : i \in DOMAIN readerHold}
OnHold   == describeHold \cup HoldSet
Attached == attached \cup
            {p \in Publishers : ppc[p] \in
               {"added", "starting", "publishing", "stopping", "removing"}}

HasStaticSource         == conf.source = "static"
HasOnDemandStaticSource == HasStaticSource /\ conf.sourceOnDemand
HasOnDemandPublisher    == conf.runOnDemand
HasOnDemand             == HasOnDemandStaticSource \/ HasOnDemandPublisher

(* The values that the fields of the path and its clients can take. *)
TypeOK ==
  /\ conf \in Confs
  /\ pc \in {"loop", "leaving", "cancelled", "done"}
  /\ ctxDone \in BOOLEAN
  /\ source \in {None, Redirect, Static} \cup Publishers
  /\ stream \in BOOLEAN
  /\ readers \subseteq Readers
  /\ describeHold \subseteq Readers
  /\ readerHold \in Seq(Readers)
  /\ demand \in Demand
  /\ static \in {"stopped", "running", "ready", "panic"}
  /\ rpc \in [Readers -> ReaderCalls]
  /\ answer \in [Readers -> Answers]
  /\ attached \subseteq Readers
  /\ ppc \in [Publishers -> PublisherCalls]
  /\ closed \subseteq Clients

(* A path as newPath and the head of run leave it. *)
Init ==
  /\ conf \in Confs
  /\ pc = "loop"
  /\ ctxDone = FALSE
  /\ source = CASE conf.source = "redirect" -> Redirect
                [] HasStaticSource          -> Static
                [] OTHER                    -> None
  /\ stream = FALSE
  /\ readers = {}
  /\ describeHold = {}
  /\ readerHold = <<>>
  /\ demand = [state |-> "Initial", readyTimer |-> FALSE, closeTimer |-> FALSE]
  /\ static = IF HasStaticSource /\ ~conf.sourceOnDemand
                THEN "running" ELSE "stopped"
  /\ rpc = [c \in Readers |-> "idle"]
  /\ answer = [c \in Readers |-> "none"]
  /\ attached = {}
  /\ ppc = [p \in Publishers |-> "idle"]
  /\ closed = {}
-----------------------------------------------------------------------------
(* Pieces of the handlers. *)

(* path.shouldClose, checked after most of the handlers. *)
ShouldClose ==
  /\ conf.regexp
  /\ source = None
  /\ readers = {}
  /\ describeHold = {}
  /\ readerHold = <<>>

(* Mutant: the path looks at what it was before the handler. *)
LeaveIfWasUnused == pc' = IF ShouldClose THEN "leaving" ELSE pc

LeaveIfUnused == pc' = IF ShouldClose' THEN "leaving" ELSE pc

(* The requests of the readers in S are answered with a. *)
Answer(S, a) ==
  /\ rpc' = [c \in Readers |-> IF c \in S THEN "idle" ELSE rpc[c]]
  /\ answer' = [c \in Readers |-> IF c \in S THEN a ELSE answer[c]]

(* close() cancels the context of a client; it means nothing to one that
   has already let go of the path. *)
Close(S) == closed' = closed \cup (S \cap Attached)

(* Mutant: the readers are forgotten before they are closed. *)
ForgetReaders(alsoClosed) ==
  Close(alsoClosed) /\ readers' = {} /\ stream' = FALSE

(* path.setNotReady; the record agent lives and dies with the stream. *)
SetNotReady(alsoClosed) ==
  /\ Close(readers \cup alsoClosed)
  /\ readers' = {}
  /\ stream' = FALSE

(* Mutant: the source is overridden without setNotReady. *)
CloseSourceAlone == Close({source}) /\ UNCHANGED <<readers, stream>>

(* The source is told to close (a static one is stopped instead), and the
   stream, if there is one, goes with it. *)
CloseSource ==
  IF stream
    THEN SetNotReady({source})
    ELSE Close({source}) /\ UNCHANGED <<readers, stream>>

(* Mutants: a timer that is never armed, one that is never stopped. *)
CloseSomeDay(d) == [d EXCEPT !.state = "Closing"]
KeepCloseTimer(d) ==
  IF HasOnDemand /\ d.state = "Closing" THEN [d EXCEPT !.state = "Ready"] ELSE d

(* onDemand...ScheduleClose, and the two places that take it back. *)
ScheduleClose(d) == [d EXCEPT !.state = "Closing", !.closeTimer = TRUE]
CancelClose(d) ==
  IF HasOnDemand /\ d.state = "Closing"
    THEN [d EXCEPT !.state = "Ready", !.closeTimer = FALSE]
    ELSE d
StopDemand(d) ==
  [d EXCEPT !.state = "Initial",
            !.closeTimer = IF d.state = "Closing" THEN FALSE ELSE @]

(* sourceStatic.start and stop panic on a source that is, or is not, running. *)
StartStatic == static' = IF static = "stopped" THEN "running" ELSE "panic"
StopStatic  == static' = IF static \in {"running", "ready"}
                           THEN "stopped" ELSE "panic"

(* Mutants: no start timeout; no look at the state. *)
StartUntimed ==
  IF demand.state = "Initial"
    THEN /\ demand' = [demand EXCEPT !.state = "WaitingReady"]
         /\ IF HasOnDemandStaticSource THEN StartStatic ELSE UNCHANGED static
    ELSE UNCHANGED <<demand, static>>
StartAgain ==
  /\ demand' = [demand EXCEPT !.state = "WaitingReady", !.readyTimer = TRUE]
  /\ IF HasOnDemandStaticSource THEN StartStatic ELSE UNCHANGED static

(* onDemandStaticSourceStart or onDemandPublisherStart, when still Initial. *)
StartDemand ==
  IF demand.state = "Initial"
    THEN /\ demand' = [demand EXCEPT !.state = "WaitingReady",
                                     !.readyTimer = TRUE]
         /\ IF HasOnDemandStaticSource THEN StartStatic ELSE UNCHANGED static
    ELSE UNCHANGED <<demand, static>>

(* Mutant: > for >=. *)
FitsOneMore(n) ==
  conf.maxReaders = 0 \/ Cardinality(readers) + n <= conf.maxReaders + 1

(* The reader count check of path.addReaderPost, for the nth of a series. *)
Fits(n) ==
  conf.maxReaders = 0 \/ Cardinality(readers) + n <= conf.maxReaders

(* The requests on hold that addReaderPost accepts when it serves them in
   order: while one is on hold there are no readers yet. *)
Admitted == {readerHold[i] : i \in {j \in DOMAIN readerHold : Fits(j)}}

(* The answers to the requests on hold once the stream is there. *)
ServeHolds ==
  /\ describeHold' = {}
  /\ readerHold' = <<>>
  /\ readers' = readers \cup Admitted
  /\ attached' = attached \cup Admitted
  /\ rpc' = [c \in Readers |-> IF c \in OnHold THEN "idle" ELSE rpc[c]]
  /\ answer' = [c \in Readers |->
                  CASE c \in describeHold \cup Admitted -> "stream"
                    [] c \in HoldSet \ (describeHold \cup Admitted) -> "full"
                    [] OTHER -> answer[c]]
  /\ demand' = LET d == ScheduleClose([demand EXCEPT !.readyTimer = FALSE])
               IN IF Admitted = {} THEN d ELSE CancelClose(d)

(* Mutants: the holds are not cleared; those to read are not answered. *)
KeepHolds(a) ==
  Answer(OnHold, a) /\ UNCHANGED <<describeHold, readerHold, attached>>
FailDescribes(a) ==
  /\ Answer(describeHold, a)
  /\ describeHold' = {}
  /\ UNCHANGED <<readerHold, attached>>

(* The answers to the requests on hold when they cannot be served. *)
FailHolds(a) ==
  /\ Answer(OnHold, a)
  /\ describeHold' = {}
  /\ readerHold' = <<>>
  /\ UNCHANGED attached
-----------------------------------------------------------------------------
(* The requests of readers. *)

Taking == pc = "loop" /\ ~ctxDone

Received(c, call) == Taking /\ rpc[c] = call /\ c \notin OnHold

DoDescribe(c) ==
  /\ Received(c, "describing")
  /\ \/ /\ source = Redirect
        /\ Answer({c}, "redirect")
        /\ UNCHANGED <<describeHold, demand, static>>
     \/ /\ source # Redirect /\ stream
        /\ Answer({c}, "stream")
        /\ UNCHANGED <<describeHold, demand, static>>
     \/ /\ source # Redirect /\ ~stream /\ HasOnDemand
        /\ StartDemand
        /\ describeHold' = describeHold \cup {c}
        /\ UNCHANGED <<rpc, answer>>
     \/ /\ source # Redirect /\ ~stream /\ ~HasOnDemand
        /\ Answer({c}, IF conf.fallback THEN "redirect" ELSE "noOne")
        /\ UNCHANGED <<describeHold, demand, static>>
  /\ UNCHANGED <<conf, ctxDone, source, stream, readers, readerHold, attached,
                 ppc, closed>>
  /\ LeaveIfUnused

(* path.addReaderPost for a request that was not put on hold. *)
AddReaderPost(c) ==
  \/ /\ c \in readers
     /\ Answer({c}, "stream")
     /\ UNCHANGED <<readers, attached, demand>>
  \/ /\ c \notin readers /\ ~Fits(1)
     /\ Answer({c}, "full")
     /\ UNCHANGED <<readers, attached, demand>>
  \/ /\ c \notin readers /\ Fits(1)
     /\ readers' = readers \cup {c}
     /\ attached' = attached \cup {c}
     /\ demand' = CancelClose(demand)
     /\ Answer({c}, "stream")

DoAddReader(c) ==
  /\ Received(c, "adding")
  /\ \/ /\ stream
        /\ AddReaderPost(c)
        /\ UNCHANGED <<readerHold, static>>
     \/ /\ ~stream /\ HasOnDemand
        /\ StartDemand
        /\ readerHold' = Append(readerHold, c)
        /\ UNCHANGED <<rpc, answer, readers, attached>>
     \/ /\ ~stream /\ ~HasOnDemand
        /\ Answer({c}, "noOne")
        /\ UNCHANGED <<readers, attached, demand, readerHold, static>>
  /\ UNCHANGED <<conf, ctxDone, source, stream, describeHold, ppc, closed>>
  /\ LeaveIfUnused

(* The reader that left is done with the path: its identity is free again. *)
DoRemoveReader(c) ==
  /\ Received(c, "removing")
  /\ readers' = readers \ {c}
  /\ demand' = IF readers' = {} /\ HasOnDemand /\ demand.state = "Ready"
                 THEN ScheduleClose(demand) ELSE demand
  /\ Answer({c}, "none")
  /\ attached' = attached \ {c}
  /\ closed' = closed \ {c}
  /\ UNCHANGED <<conf, pc, ctxDone, source, stream, describeHold, readerHold,
                 static, ppc>>
-----------------------------------------------------------------------------
(* The requests of publishers. *)

Requests(p, call) == Taking /\ ppc[p] = call
Becomes(p, state) == ppc' = [ppc EXCEPT ![p] = state]

DoAddPublisher(p) ==
  /\ Requests(p, "adding")
  /\ \/ /\ conf.source # "publisher"
        /\ Becomes(p, "idle")
        /\ UNCHANGED <<source, stream, readers, closed>>
     \/ /\ conf.source = "publisher" /\ source # None /\ ~conf.overridePublisher
        /\ Becomes(p, "idle")
        /\ UNCHANGED <<source, stream, readers, closed>>
     \/ /\ conf.source = "publisher" /\ source # None /\ conf.overridePublisher
        /\ CloseSource
        /\ source' = p
        /\ Becomes(p, "added")
     \/ /\ conf.source = "publisher" /\ source = None
        /\ source' = p
        /\ Becomes(p, "added")
        /\ UNCHANGED <<stream, readers, closed>>
  /\ UNCHANGED <<conf, pc, ctxDone, describeHold, readerHold, demand, static,
                 readerVars>>

(* setReady gives up, without a stream, when stream.New fails. *)
DoStartPublisher(p) ==
  /\ Requests(p, "starting")
  /\ \/ /\ source # p
        /\ Becomes(p, "added")
        /\ UNCHANGED <<stream, readers, describeHold, readerHold, demand,
                       readerVars>>
     \/ /\ source = p
        /\ stream' = FALSE
        /\ Becomes(p, "added")
        /\ UNCHANGED <<readers, describeHold, readerHold, demand, readerVars>>
     \/ /\ source = p
        /\ stream' = TRUE
        /\ Becomes(p, "publishing")
        /\ IF HasOnDemandPublisher
             THEN ServeHolds
             ELSE UNCHANGED <<readers, describeHold, readerHold, demand,
                              readerVars>>
  /\ UNCHANGED <<conf, pc, ctxDone, source, static, closed>>

DoStopPublisher(p) ==
  /\ Requests(p, "stopping")
  /\ IF source = p /\ stream
       THEN SetNotReady({})
       ELSE UNCHANGED <<stream, readers, closed>>
  /\ Becomes(p, "added")
  /\ UNCHANGED <<conf, ctxDone, source, describeHold, readerHold, demand,
                 static, readerVars>>
  /\ LeaveIfUnused

(* executeRemovePublisher, after a mutant that returns early without a stream. *)
VacateStreaming(p) == IF source = p /\ stream THEN None ELSE source
Vacate(p) == IF source = p THEN None ELSE source

(* The publisher itself is gone, and its identity free again. *)
DoRemovePublisher(p) ==
  /\ Requests(p, "removing")
  /\ source' = Vacate(p)
  /\ IF source = p /\ stream
       THEN /\ closed' = (closed \cup (readers \cap Attached)) \ {p}
            /\ readers' = {}
            /\ stream' = FALSE
       ELSE closed' = closed \ {p} /\ UNCHANGED <<stream, readers>>
  /\ Becomes(p, "idle")
  /\ UNCHANGED <<conf, ctxDone, describeHold, readerHold, demand, static,
                 readerVars>>
  /\ LeaveIfUnused
-----------------------------------------------------------------------------
(* The static source reports, and the timers. *)

DoSourceStaticSetReady ==
  /\ Taking /\ static = "running"
  /\ \/ /\ stream' = FALSE   \* stream.New failed; the source will retry
        /\ UNCHANGED <<readers, describeHold, readerHold, demand, static,
                       readerVars>>
     \/ /\ stream' = TRUE
        /\ static' = "ready"
        /\ IF HasOnDemandStaticSource
             THEN ServeHolds
             ELSE UNCHANGED <<readers, describeHold, readerHold, demand,
                              readerVars>>
  /\ UNCHANGED <<conf, pc, ctxDone, source, ppc, closed>>

DoSourceStaticSetNotReady ==
  /\ Taking /\ static = "ready"
  /\ SetNotReady({})
  /\ IF HasOnDemandStaticSource /\ demand.state # "Initial"
       THEN demand' = StopDemand(demand) /\ StopStatic
       ELSE static' = "running" /\ UNCHANGED demand
  /\ UNCHANGED <<conf, ctxDone, source, describeHold, readerHold, readerVars,
                 ppc>>
  /\ LeaveIfUnused

(* onDemandPublisherStop *)
StopPublisherDemand(d) ==
  /\ demand' = StopDemand(d)
  /\ IF source # None
       THEN CloseSource /\ source' = None
       ELSE UNCHANGED <<source, stream, readers, closed>>
  /\ UNCHANGED static

DoOnDemandReadyTimer ==
  /\ pc = "loop" /\ demand.readyTimer
  /\ FailHolds("timedOut")
  /\ LET d == [demand EXCEPT !.readyTimer = FALSE]
     IN IF HasOnDemandStaticSource
          THEN /\ demand' = StopDemand(d)
               /\ StopStatic
               /\ UNCHANGED <<source, stream, readers, closed>>
          ELSE StopPublisherDemand(d)
  /\ UNCHANGED <<conf, ctxDone, ppc>>
  /\ LeaveIfUnused

DoOnDemandCloseTimer ==
  /\ pc = "loop" /\ demand.closeTimer
  /\ LET d == [demand EXCEPT !.closeTimer = FALSE]
     IN IF HasOnDemandStaticSource
          THEN /\ SetNotReady({})
               /\ demand' = StopDemand(d)
               /\ StopStatic
               /\ UNCHANGED source
          ELSE StopPublisherDemand(d)
  /\ UNCHANGED <<conf, ctxDone, describeHold, readerHold, readerVars, ppc>>
  /\ LeaveIfUnused
-----------------------------------------------------------------------------
(* The end of the path: runInner returns, then the tail of run. *)

(* path.close, or the cancellation of the path manager's context. *)
Cancel ==
  /\ pc # "done" /\ ~ctxDone
  /\ ctxDone' = TRUE
  /\ UNCHANGED <<conf, pc, source, stream, readers, describeHold, readerHold,
                 demand, static, readerVars, ppc, closed>>

Leave ==
  /\ pc = "loop" /\ ctxDone
  /\ pc' = "leaving"
  /\ UNCHANGED <<conf, ctxDone, source, stream, readers, describeHold,
                 readerHold, demand, static, readerVars, ppc, closed>>

(* parent.closePath returned: the context is cancelled, timers are stopped. *)
ClosePath ==
  /\ pc = "leaving"
  /\ pc' = "cancelled"
  /\ ctxDone' = TRUE
  /\ demand' = [demand EXCEPT !.readyTimer = FALSE, !.closeTimer = FALSE]
  /\ UNCHANGED <<conf, source, stream, readers, describeHold, readerHold,
                 static, readerVars, ppc, closed>>

CloseDown ==
  /\ pc = "cancelled"
  /\ pc' = "done"
  /\ FailHolds("terminated")
  /\ CloseSource
  /\ IF source = Static /\ (~conf.sourceOnDemand \/ demand.state # "Initial")
       THEN StopStatic ELSE UNCHANGED static
  /\ UNCHANGED <<conf, ctxDone, source, demand, ppc>>
-----------------------------------------------------------------------------
(* The clients. *)

(* OnDescribe of a connection that reads nothing yet. *)
CallDescribe(c) ==
  /\ rpc[c] = "idle" /\ c \notin attached
  /\ rpc' = [rpc EXCEPT ![c] = "describing"]
  /\ answer' = [answer EXCEPT ![c] = "none"]
  /\ UNCHANGED <<pathVars, attached, ppc, closed>>

(* A session asks again for every track it sets up. *)
CallAddReader(c) ==
  /\ rpc[c] = "idle"
  /\ rpc' = [rpc EXCEPT ![c] = "adding"]
  /\ answer' = [answer EXCEPT ![c] = "none"]
  /\ UNCHANGED <<pathVars, attached, ppc, closed>>

CallRemoveReader(c) ==
  /\ rpc[c] = "idle" /\ c \in attached
  /\ rpc' = [rpc EXCEPT ![c] = "removing"]
  /\ UNCHANGED <<pathVars, answer, attached, ppc, closed>>

CallPublisher(p, from, call) ==
  /\ ppc[p] \in from
  /\ Becomes(p, call)
  /\ UNCHANGED <<pathVars, readerVars, closed>>

CallAddPublisher(p)    == CallPublisher(p, {"idle"}, "adding")
CallStartPublisher(p)  == CallPublisher(p, {"added"}, "starting")
CallStopPublisher(p)   == CallPublisher(p, {"publishing"}, "stopping")
CallRemovePublisher(p) == CallPublisher(p, {"added", "publishing"}, "removing")

(* The ctx.Done branch of the client side of a call. *)
ReaderTerminated(c) ==
  /\ ctxDone /\ c \notin OnHold
  /\ \/ /\ rpc[c] \in {"describing", "adding"}
        /\ Answer({c}, "terminated")
        /\ UNCHANGED <<attached, closed>>
     \/ /\ rpc[c] = "removing"
        /\ Answer({c}, "none")
        /\ attached' = attached \ {c}
        /\ closed' = closed \ {c}
  /\ UNCHANGED <<pathVars, ppc>>

PublisherTerminated(p) ==
  /\ ctxDone
  /\ \/ ppc[p] = "adding" /\ Becomes(p, "idle") /\ UNCHANGED closed
     \/ ppc[p] \in {"starting", "stopping"} /\ Becomes(p, "added")
        /\ UNCHANGED closed
     \/ ppc[p] = "removing" /\ Becomes(p, "idle") /\ closed' = closed \ {p}
  /\ UNCHANGED <<pathVars, readerVars>>
-----------------------------------------------------------------------------
ReaderHandler(c) == DoDescribe(c) \/ DoAddReader(c) \/ DoRemoveReader(c)

PublisherHandler(p) ==
  \/ DoAddPublisher(p)
  \/ DoStartPublisher(p)
  \/ DoStopPublisher(p)
  \/ DoRemovePublisher(p)

SourceHandler == DoSourceStaticSetReady \/ DoSourceStaticSetNotReady

Exit == Leave \/ ClosePath \/ CloseDown

ReaderStep(c) ==
  \/ CallDescribe(c)
  \/ CallAddReader(c)
  \/ CallRemoveReader(c)
  \/ ReaderTerminated(c)

PublisherStep(p) ==
  \/ CallAddPublisher(p)
  \/ CallStartPublisher(p)
  \/ CallStopPublisher(p)
  \/ CallRemovePublisher(p)
  \/ PublisherTerminated(p)

(* What happens to the path other than the cancellation of its context. *)
Step ==
  \/ \E c \in Readers : ReaderHandler(c) \/ ReaderStep(c)
  \/ \E p \in Publishers : PublisherHandler(p) \/ PublisherStep(p)
  \/ SourceHandler
  \/ DoOnDemandReadyTimer
  \/ DoOnDemandCloseTimer
  \/ Exit

Next == Step \/ Cancel

(* The select of runInner serves every ready case in the end; armed timers
   fire; a client whose context was cancelled lets go of the path; nobody is
   obliged to ask for anything, and a source need never become ready. *)
Fairness ==
  /\ \A c \in Readers :
       /\ WF_vars(ReaderHandler(c))
       /\ WF_vars(ReaderTerminated(c))
       /\ WF_vars(c \in closed /\ CallRemoveReader(c))
  /\ \A p \in Publishers :
       /\ WF_vars(PublisherHandler(p))
       /\ WF_vars(PublisherTerminated(p))
       /\ WF_vars(p \in closed /\ CallRemovePublisher(p))
  /\ WF_vars(DoOnDemandReadyTimer)
  /\ WF_vars(DoOnDemandCloseTimer)
  /\ WF_vars(Exit)

Spec     == Init /\ [][Next]_vars
FairSpec == Spec /\ Fairness
-----------------------------------------------------------------------------
(* A request on hold is one whose caller still waits for it, each on one hold
   only: an answer sent twice, or to a caller that left, would block the path
   goroutine for ever on an unbuffered channel. *)
HoldsAreOpenCalls ==
  /\ \A c \in describeHold : rpc[c] = "describing"
  /\ \A i \in DOMAIN readerHold : rpc[readerHold[i]] = "adding"
  /\ \A i, j \in DOMAIN readerHold : readerHold[i] = readerHold[j] => i = j

(* Readers are kept only while there is a stream to read; the stream belongs to
   the current source, which still produces it: no stream outlives its publisher
   or is handed over to the next one. Requests are on hold only while there is
   no stream and a source is expected on demand. *)
ReadersStreamSource ==
  /\ readers # {} => stream
  /\ stream =>
       \/ source = Static /\ static = "ready"
       \/ /\ source \in Publishers
          /\ ctxDone \/ ppc[source] \in {"publishing", "stopping", "removing"}
  /\ pc = "loop" /\ OnHold # {} => ~stream /\ HasOnDemand

(* A client that holds the path is either known to it or was told to close:
   no session keeps reading or publishing on a path that dropped it. *)
DroppedClientsAreTold ==
  /\ \A c \in attached : c \in readers \cup closed
  /\ \A p \in Publishers :
       /\ p \in Attached => source = p \/ p \in closed
       /\ ppc[p] = "publishing" => stream \/ p \in closed

(* Conversely the path knows no client that let go of it, but for those that
   found its context done when they wanted to say so. *)
NoGhostClients ==
  /\ ~ctxDone => readers \subseteq attached
  /\ ~ctxDone /\ source \in Publishers => source \in Attached

(* The on-demand machine follows the use of the path: each timer runs in exactly
   one of its states, and an on-demand source that streams is about to be closed
   exactly when nobody reads from it. *)
DemandFollowsUse ==
  pc \in {"loop", "leaving"} =>
    /\ demand.readyTimer <=> demand.state = "WaitingReady"
    /\ demand.closeTimer <=> demand.state = "Closing"
    /\ HasOnDemand /\ stream =>
         demand.state = IF readers = {} THEN "Closing" ELSE "Ready"

(* Whoever waits for an on-demand static source waits for at most the start
   timeout: the ready timer runs as long as a request is on hold. *)
StaticHoldsAreTimed ==
  HasOnDemandStaticSource /\ pc = "loop" /\ OnHold # {} => demand.readyTimer

Source == INSTANCE StaticSource

(* The path uses its static source as StaticSource allows; in particular start
   and stop never meet their "should not happen". *)
UsesStaticSource == Source!Spec

Service == INSTANCE PathService
             WITH online      <- stream,
                  asking      <- {c \in Readers : rpc[c] \in {"describing", "adding"}},
                  subscribers <- readers \cap attached,
                  notified    <- closed \cap attached

(* Whatever the source does, the path keeps its promise to its readers: they
   read until they leave, or are told in the step that takes the stream away. *)
ImplementsPathService == Service!Spec

(* maxReaders bounds the readers, those served from the hold included. *)
ReaderLimit ==
  conf.maxReaders # 0 /\ readers # {} => Cardinality(readers) <= conf.maxReaders

(* A path created from a regular expression never becomes unused and stays:
   nothing would remove it from the path manager any more. *)
UnusedPathLeaves == [][pc = "loop" /\ ~ShouldClose /\ ShouldClose' => pc' # "loop"]_vars

(* Every call to the path returns, those on hold included. *)
CallsReturn ==
  /\ \A c \in Readers : rpc[c] # "idle" ~> rpc[c] = "idle"
  /\ \A p \in Publishers : ppc[p] \in {"adding", "starting", "stopping", "removing"}
                          ~> ppc[p] \in {"idle", "added", "publishing"}

(* An on-demand source that nobody reads from does not stay. *)
UnneededSourceCloses ==
  (HasOnDemand /\ stream /\ readers = {}) ~> (~stream \/ readers # {})
=============================================================================
