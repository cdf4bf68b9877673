---------------------------- MODULE StreamReaders ----------------------------
(***************************************************************************)
(* A stream (stream/stream.go) and those that read it: connections that    *)
(* read (core/rtmp_conn.go, core/webrtc_session.go) and record agents      *)
(* (record/agent.go), each with an asynchronous writer                     *)
(* (asyncwriter/async_writer.go): a bounded queue and a goroutine that runs*)
(* what was queued. RTSP clients ask the stream for the server stream of   *)
(* the RTSP library instead.                                               *)
(*                                                                         *)
(* The stream's mutex makes a write to all its readers one step; the       *)
(* publisher goes on writing after the path has closed the stream. A full  *)
(* queue panics, and the process with it.                                  *)
(***************************************************************************)
EXTENDS Naturals, Sequences

CONSTANTS
  Conns,      \* connections that read
  Agents,     \* record agents: at most one in this program
  Formats,    \* the formats of the stream, in the order of its description
  QueueSize,  \* conf.WriteQueueSize
  MaxUnits    \* bound on the units written

ASSUME SizesAssumption ==
  /\ QueueSize \in Nat \ {0}
  /\ MaxUnits \in Nat
  /\ Conns \cap Agents = {}

Readers    == Conns \cup Agents
AllFormats == {Formats[i] : i \in DOMAIN Formats}

ASSUME FormatsAssumption == Formats \in Seq(AllFormats)

VARIABLES
  path,      \* what the path is doing with the stream
  server,    \* stream.rtspStream
  written,   \* the formats of the units written so far that somebody read
  regs,      \* the formats for which a reader is registered
  queue,     \* writer.buffer: the units not yet pulled
  qclosed,   \* writer.buffer was closed
  writer,    \* where the goroutine of a writer is
  current,   \* the unit it is handling
  done,      \* the units it has handled
  owner,     \* where the goroutine that owns the writer is
  setUp,     \* how many formats it has looked at
  told,      \* its context is done
  panicked

streamVars == <<path, server>>
queueVars  == <<queue, qclosed, writer, current, done>>
ownerVars  == <<owner, setUp, told>>
vars       == <<streamVars, written, regs, queueVars, ownerVars, panicked>>

Units == 1..MaxUnits

(* The values of the variables; a queue holds QueueSize units at most. *)
TypeOK ==
  /\ path \in {"streaming", "stoppingAgent", "closed"}
  /\ server \in {"nil", "open", "closed"}
  /\ written \in Seq(AllFormats) /\ Len(written) <= MaxUnits
  /\ regs \in [Readers -> SUBSET AllFormats]
  /\ queue \in [Readers -> Seq(Units)]
  /\ \A r \in Readers : Len(queue[r]) <= QueueSize
  /\ qclosed \in [Readers -> BOOLEAN]
  /\ writer \in [Readers -> {"none", "pulling", "busy", "failed", "gone"}]
  /\ current \in [Readers -> Units \cup {0}]
  /\ done \in [Readers -> Seq(Units)]
  /\ owner \in [Readers -> {"none", "settingUp", "connecting", "waiting", "stop",
                            "stopping", "removing", "closing", "done"}]
  /\ setUp \in [Readers -> 0..Len(Formats)]
  /\ told \in [Readers -> BOOLEAN]
  /\ panicked \in BOOLEAN

(* The stream is new, and the path records it or does not: NewAgent registers
   the agent before anybody can write. *)
Init ==
  /\ path = "streaming"
  /\ server = "nil"
  /\ written = <<>>
  /\ \E recording \in SUBSET Agents :
       /\ regs = [r \in Readers |-> IF r \in recording THEN AllFormats ELSE {}]
       /\ owner = [r \in Readers |-> CASE r \in recording -> "connecting"
                                       [] r \in Conns     -> "none"
                                       [] OTHER           -> "done"]
  /\ queue = [r \in Readers |-> <<>>]
  /\ qclosed = [r \in Readers |-> FALSE]
  /\ writer = [r \in Readers |-> "none"]
  /\ current = [r \in Readers |-> 0]
  /\ done = [r \in Readers |-> <<>>]
  /\ setUp = [r \in Readers |-> 0]
  /\ told = [r \in Readers |-> FALSE]
  /\ panicked = FALSE
-----------------------------------------------------------------------------
(* The publisher. *)

(* Mutant: what does not fit is dropped. *)
PushOrDrop(f) ==
  /\ queue' = [r \in Readers |->
                 IF f \in regs[r] /\ Len(queue[r]) < QueueSize
                   THEN Append(queue[r], Len(written) + 1) ELSE queue[r]]
  /\ UNCHANGED panicked

(* Writer.Push of the next unit, of format f, to all the readers of f. *)
Push(f) ==
  IF \E r \in Readers : f \in regs[r] /\ Len(queue[r]) = QueueSize
    THEN panicked' = TRUE /\ UNCHANGED queue
    ELSE /\ queue' = [r \in Readers |->
                        IF f \in regs[r] THEN Append(queue[r], Len(written) + 1)
                                         ELSE queue[r]]
         /\ UNCHANGED panicked

(* A unit that nobody reads goes nowhere, and is not counted. *)
WriteUnit(f) ==
  /\ Len(written) < MaxUnits
  /\ \E r \in Readers : f \in regs[r]
  /\ written' = Append(written, f)
  /\ Push(f)
  /\ UNCHANGED <<streamVars, regs, qclosed, writer, current, done, ownerVars>>
-----------------------------------------------------------------------------
(* The goroutine of a writer. *)

(* What the ring buffer still holds when it is closed may be pulled or not. *)
Pull(r) ==
  /\ writer[r] = "pulling" /\ queue[r] # <<>>
  /\ writer' = [writer EXCEPT ![r] = "busy"]
  /\ current' = [current EXCEPT ![r] = Head(queue[r])]
  /\ queue' = [queue EXCEPT ![r] = Tail(@)]
  /\ UNCHANGED <<streamVars, written, regs, qclosed, done, ownerVars, panicked>>

PullClosed(r) ==
  /\ writer[r] = "pulling" /\ qclosed[r]
  /\ writer' = [writer EXCEPT ![r] = "failed"]
  /\ UNCHANGED <<streamVars, written, regs, queue, qclosed, current, done,
                 ownerVars, panicked>>

(* The callback returns; on an error the goroutine waits to hand it over. *)
Handled(r) ==
  /\ writer[r] = "busy"
  /\ \/ /\ writer' = [writer EXCEPT ![r] = "pulling"]
        /\ done' = [done EXCEPT ![r] = Append(@, current[r])]
     \/ writer' = [writer EXCEPT ![r] = "failed"] /\ UNCHANGED done
  /\ current' = [current EXCEPT ![r] = 0]
  /\ UNCHANGED <<streamVars, written, regs, queue, qclosed, ownerVars, panicked>>

WriterRuns(r) == Pull(r) \/ PullClosed(r) \/ Handled(r)
-----------------------------------------------------------------------------
(* The goroutine that owns a writer. *)

Goes(r, pc) == owner' = [owner EXCEPT ![r] = pc]

(* addReader gave the stream to the connection. *)
Join(c) ==
  /\ path = "streaming" /\ owner[c] = "none"
  /\ Goes(c, "settingUp")
  /\ UNCHANGED <<streamVars, written, regs, queueVars, setUp, told, panicked>>

(* setupVideo, then setupAudio: a format the connection supports is read. A
   connection that supports none gives up. *)
SetUpFormat(c) ==
  LET i == setUp[c] + 1
  IN /\ owner[c] = "settingUp" /\ i <= Len(Formats)
     /\ setUp' = [setUp EXCEPT ![c] = i]
     /\ regs' \in {regs, [regs EXCEPT ![c] = @ \cup {Formats[i]}]}
     /\ CASE i < Len(Formats) -> UNCHANGED owner
          [] i = Len(Formats) /\ regs'[c] = {} -> Goes(c, "removing")
          [] OTHER -> Goes(c, "connecting")
     /\ UNCHANGED <<streamVars, written, queueVars, told, panicked>>

(* rtmp.NewWriter talks to the client and may fail; an agent has nothing to
   wait for. *)
StartWriter(r) ==
  /\ owner[r] = "connecting"
  /\ writer' = [writer EXCEPT ![r] = "pulling"]
  /\ Goes(r, "waiting")
  /\ UNCHANGED <<streamVars, written, regs, queue, qclosed, current, done, setUp,
                 told, panicked>>

ConnectFails(c) ==
  /\ owner[c] = "connecting"
  /\ Goes(c, "removing")
  /\ UNCHANGED <<streamVars, written, regs, queueVars, setUp, told, panicked>>

(* The select of runRead or of the agent's run: the context is done. A
   connection stops its writer at once and leaves the stream later, in a
   deferred call; an agent the other way round. *)
Cancelled(r) ==
  /\ owner[r] = "waiting" /\ told[r]
  /\ IF r \in Agents THEN regs' = [regs EXCEPT ![r] = {}] ELSE UNCHANGED regs
  /\ Goes(r, "stop")
  /\ UNCHANGED <<streamVars, written, queueVars, setUp, told, panicked>>

(* Writer.Stop closes the buffer, *)
CloseQueue(r) ==
  /\ owner[r] = "stop"
  /\ qclosed' = [qclosed EXCEPT ![r] = TRUE]
  /\ Goes(r, "stopping")
  /\ UNCHANGED <<streamVars, written, regs, queue, writer, current, done, setUp,
                 told, panicked>>

AfterStop(r) == IF r \in Agents THEN "closing" ELSE "removing"

(* Mutant: Stop does not wait for the goroutine. *)
NotWaiting(r) ==
  /\ owner[r] = "stopping"
  /\ Goes(r, AfterStop(r))
  /\ UNCHANGED <<streamVars, written, regs, queueVars, setUp, told, panicked>>

(* and waits for the goroutine. *)
Stopped(r) ==
  /\ owner[r] = "stopping" /\ writer[r] = "failed"
  /\ writer' = [writer EXCEPT ![r] = "gone"]
  /\ Goes(r, AfterStop(r))
  /\ UNCHANGED <<streamVars, written, regs, queue, qclosed, current, done, setUp,
                 told, panicked>>

(* Mutant: the writer is stopped although its error was received. *)
StopAfterError(r) ==
  /\ owner[r] = "waiting" /\ writer[r] = "failed"
  /\ writer' = [writer EXCEPT ![r] = "gone"]
  /\ Goes(r, "stop")
  /\ UNCHANGED <<streamVars, written, regs, queue, qclosed, current, done, setUp,
                 told, panicked>>

(* The other case of that select: the writer failed. *)
WriterFailed(r) ==
  /\ owner[r] = "waiting" /\ writer[r] = "failed"
  /\ writer' = [writer EXCEPT ![r] = "gone"]
  /\ Goes(r, "removing")
  /\ UNCHANGED <<streamVars, written, regs, queue, qclosed, current, done, setUp,
                 told, panicked>>

RemoveReader(r) ==
  /\ owner[r] = "removing"
  /\ regs' = [regs EXCEPT ![r] = {}]
  /\ Goes(r, IF r \in Agents THEN "closing" ELSE "done")
  /\ UNCHANGED <<streamVars, written, queueVars, setUp, told, panicked>>

(* format.close() closes the segment on disk, and the agent is done. *)
CloseFormat(a) ==
  /\ owner[a] = "closing"
  /\ Goes(a, "done")
  /\ UNCHANGED <<streamVars, written, regs, queueVars, setUp, told, panicked>>

OwnerRuns(r) ==
  \/ SetUpFormat(r)
  \/ StartWriter(r)
  \/ r \in Conns /\ ConnectFails(r)
  \/ Cancelled(r)
  \/ CloseQueue(r)
  \/ Stopped(r)
  \/ WriterFailed(r)
  \/ RemoveReader(r)
  \/ CloseFormat(r)

(* The client, the API or the server ends a connection. *)
Kick(c) ==
  /\ owner[c] \notin {"none", "done"} /\ ~told[c]
  /\ told' = [told EXCEPT ![c] = TRUE]
  /\ UNCHANGED <<streamVars, written, regs, queueVars, owner, setUp, panicked>>
-----------------------------------------------------------------------------
(* The path. *)

(* setNotReady closes the readers and then the agent, *)
SetNotReady ==
  /\ path = "streaming"
  /\ path' = "stoppingAgent"
  /\ told' = [r \in Readers |-> told[r] \/ owner[r] \notin {"none", "done"}]
  /\ UNCHANGED <<server, written, regs, queueVars, owner, setUp, panicked>>

(* waits for the agent, and closes the stream. *)
CloseStream ==
  /\ path = "stoppingAgent"
  /\ \A a \in Agents : owner[a] = "done"
  /\ path' = "closed"
  /\ server' = IF server = "open" THEN "closed" ELSE server
  /\ UNCHANGED <<written, regs, queueVars, ownerVars, panicked>>

(* An RTSP client asks the stream for its server stream, which is allocated when
   it is nil. describe or addReader gave it the stream while the path had it, and
   there may be such a client at any time since. *)
RTSPStream ==
  /\ server = "nil"
  /\ server' = "open"
  /\ UNCHANGED <<path, written, regs, queueVars, ownerVars, panicked>>

Next ==
  /\ ~panicked
  /\ \/ \E f \in AllFormats : WriteUnit(f)
     \/ \E r \in Readers : WriterRuns(r) \/ OwnerRuns(r)
     \/ \E c \in Conns : Join(c) \/ Kick(c)
     \/ SetNotReady
     \/ CloseStream
     \/ RTSPStream

(* The goroutines run; callbacks and handshakes end, since the network has
   deadlines and a connection's socket is closed with its context. *)
Fairness ==
  /\ \A r \in Readers : WF_vars(~panicked /\ WriterRuns(r))
                        /\ WF_vars(~panicked /\ OwnerRuns(r))
  /\ WF_vars(~panicked /\ CloseStream)

Spec     == Init /\ [][Next]_vars
FairSpec == Spec /\ Fairness
-----------------------------------------------------------------------------
(* What a writer has handled and, unless it has failed, is handling or has in its
   queue. *)
Received(r) ==
  CASE writer[r] = "busy" -> Append(done[r], current[r]) \o queue[r]
    [] writer[r] \in {"failed", "gone"} -> done[r]
    [] OTHER -> done[r] \o queue[r]

(* A reader gets the units in the order they were written and none is skipped:
   from the first one of a format that it gets, it gets all of that format, until
   it leaves. A decoder behind it could not live with a hole. *)
UnitsInOrder ==
  \A r \in Readers :
    LET got == Received(r)
    IN /\ \A i, j \in DOMAIN got : i < j => got[i] < got[j]
       /\ \A i, j \in DOMAIN got : \A u \in got[i]..got[j] :
            written[u] = written[got[i]] => \E k \in DOMAIN got : got[k] = u

(* Whoever is done left nothing behind: it is not registered any more, and no
   callback can run, so that a record agent has closed its file for good, and the
   path closes a stream that nobody records. *)
LeavesNothing ==
  /\ \A r \in Readers :
       owner[r] \in {"closing", "done"} =>
         regs[r] = {} /\ writer[r] \in {"none", "gone"}
  /\ path = "closed" => \A a \in Agents : owner[a] = "done"

(* A connection that was told to close comes to its end, and the path, which
   waits for its agent, closes the stream: Writer.Stop always returns. *)
StopReturns ==
  /\ \A c \in Conns : told[c] ~> (owner[c] = "done" \/ panicked)
  /\ (path = "stoppingAgent") ~> (path = "closed" \/ panicked)
=============================================================================
