------------------------------ MODULE RtmpLink -------------------------------
(***************************************************************************)
(* The two ends of an RTMP connection as this code plays them (rtmp/conn.go*)
(* rtmp/reader.go, rtmp/writer.go, rtmp/message, rtmp/handshake): the      *)
(* handshake, the commands by which a client asks to play or to publish,   *)
(* the tracks the sending end announces and the receiving end finds out,   *)
(* and the media that follow.                                              *)
(*                                                                         *)
(* Each end is one goroutine that reads and writes in turn: what it has    *)
(* still to do is a sequence of steps. A client that publishes may be any  *)
(* program that speaks as this one does; it may leave the metadata out,    *)
(* or tracks out of it.                                                    *)
(* What is written is read in order and whole, or the connection ends.     *)
(***************************************************************************)
EXTENDS RtmpChunks

CONSTANTS
  ChunkSize,       \* what both ends set the chunk size to
  Window,          \* what both ends set the acknowledgement window to
  Second,          \* milliseconds of the analysis of a stream without metadata
  BodyLens,        \* the bodies of media messages
  Gaps,            \* how much later than the one before on its chunk stream
  MaxUnits,        \* bound on the media messages
  MaxInFlight      \* bound on the chunks written and not read

(* A window holds many times what is read before the first of the media, and a chunk;
   the counter of bytes many windows; a message what the longest of the commands says. *)
ASSUME LinkAssumption ==
  /\ 2..6 \subseteq ChunkStreams /\ MaxBodySize >= 2
  /\ ChunkSize \in InitialChunkSize..MaxBodySize
  /\ Window \in Nat /\ Window > 20 /\ Window > ChunkSize
  /\ CountMod > Window + ChunkSize + 1
  /\ Second \in Nat
  /\ BodyLens \subseteq 1..MaxBodySize /\ Gaps \subseteq Int
  /\ MaxUnits \in Nat /\ MaxInFlight \in Nat \ {0}

VARIABLES
  publish,         \* what the client wants: to publish, or to play
  tracks,          \* what the sending end has
  late,            \* the parameters of its video are not known when it starts
  announced,       \* the tracks its metadata tells of, {} if it writes none
  wire,            \* of each end: what it wrote and the other has not read
  writer,
  reader,
  todo,            \* of each end: the steps it has still to do
  found,           \* the tracks the receiving end found
  sent,            \* of each end: the messages it wrote
  received,        \* of each end: the messages it read
  refused          \* the error of an end, "" while there is none

choices == <<publish, tracks, late, announced>>
vars    == <<choices, wire, writer, reader, todo, found, sent, received, refused>>

Ends == {"client", "server"}
Peer(e) == IF e = "client" THEN "server" ELSE "client"
Sender == IF publish THEN "client" ELSE "server"
-----------------------------------------------------------------------------
(* What is in a body is told by a tuple, and by how many pieces it is made of. *)
Msg(type, cs, sid, ts, len, what) ==
  [type |-> type, cs |-> cs, sid |-> sid, ts |-> ts,
   body |-> [i \in 1..len |-> <<what, i>>]]

What(m) == m.body[1][1]

ControlStream == 2
AudioStream   == 4
VideoStream   == 6
StreamOf(t) == IF t = "audio" THEN AudioStream ELSE VideoStream

SetChunkSize     == Msg("SetChunkSize", ControlStream, 0, 0, 1, <<"size", ChunkSize>>)
Acknowledge(n)   == Msg("Acknowledge", ControlStream, 0, 0, 1, <<"bytes", n>>)
SetWindowAckSize == Msg("SetWindowAckSize", ControlStream, 0, 0, 1, <<"window", Window>>)
SetPeerBandwidth == Msg("SetPeerBandwidth", ControlStream, 0, 0, 1, <<"bandwidth">>)
UserControl(c)   == Msg("UserControl", ControlStream, 0, 0, 1, <<c>>)

(* CommandAMF0: those of connect are longer than an initial chunk. *)
Command(cs, sid, name, id) ==
  Msg("command", cs, sid, 0,
      IF <<name, id>> \in {<<"connect", 1>>, <<"_result", 1>>} THEN 2 ELSE 1, <<name, id>>)

Metadata(ts) == Msg("data", AudioStream, 1, 0, 1, <<"onMetaData", ts>>)
Config(t) == Msg(t, StreamOf(t), 1, 0, 1, <<"config">>)
Unit(t, ts, len) == Msg(t, StreamOf(t), 1, ts, len, <<"unit">>)
-----------------------------------------------------------------------------
(* The steps of an end. *)
Put(part)       == [do |-> "put", part |-> part]
Get(part)       == [do |-> "get", part |-> part]
Write(m)        == [do |-> "write", msg |-> m]
Await(name, id) == [do |-> "await", reply |-> <<name, id>>]
Serve           == [do |-> "serve"]
Detect          == [do |-> "detect", mode |-> "first", has |-> {}, start |-> None]

ClientHandshake == <<Put("C0"), Put("C1"), Get("S0"), Get("S1"), Get("S2"), Put("C2")>>
ServerHandshake == <<Get("C0"), Get("C1"), Put("S0"), Put("S1"), Put("S2"), Get("C2")>>

(* What both ends write first. *)
Settings == <<Write(SetWindowAckSize), Write(SetPeerBandwidth), Write(SetChunkSize)>>

(* writeTracks: parameters that are not known are not written. *)
Tracks ==
  (IF announced # {} THEN <<Write(Metadata(announced))>> ELSE <<>>)
  \o (IF "video" \in tracks /\ ~late THEN <<Write(Config("video"))>> ELSE <<>>)
  \o (IF "audio" \in tracks THEN <<Write(Config("audio"))>> ELSE <<>>)

Connect ==
  ClientHandshake \o Settings
  \o <<Write(Command(3, 0, "connect", 1)), Await("_result", 1)>>

Play ==
  <<Write(Command(3, 0, "createStream", 2)), Await("_result", 2),
    Write(UserControl("SetBufferLength")),
    Write(Command(4, 1, "play", 3)), Await("onStatus", 3), Detect>>

Publish ==
  <<Write(Command(3, 0, "releaseStream", 2)), Write(Command(3, 0, "FCPublish", 3)),
    Write(Command(3, 0, "createStream", 4)), Await("_result", 4),
    Write(Command(4, 1, "publish", 5)), Await("onStatus", 5)>>

(* What initializeServer does about a command; others it ignores. *)
OnConnect(m) == Settings \o <<Write(Command(m.cs, 0, "_result", What(m)[2])), Serve>>

OnCreateStream(m) == <<Write(Command(m.cs, 0, "_result", What(m)[2])), Serve>>

OnPlay(m) ==
  <<Write(UserControl("StreamIsRecorded")), Write(UserControl("StreamBegin"))>>
  \o [i \in 1..4 |-> Write(Command(5, 1, "onStatus", What(m)[2]))]
  \o Tracks

OnPublish(m) == <<Write(Command(5, 1, "onStatus", What(m)[2])), Detect>>

Served(m) ==
  CASE What(m)[1] = "connect"      -> OnConnect(m)
    [] What(m)[1] = "createStream" -> OnCreateStream(m)
    [] What(m)[1] = "play"         -> OnPlay(m)
    [] What(m)[1] = "publish"      -> OnPublish(m)
    [] OTHER                       -> <<Serve>>
-----------------------------------------------------------------------------
Init ==
  /\ publish \in BOOLEAN
  /\ tracks \in (SUBSET {"audio", "video"}) \ {{}}
  /\ late \in IF "video" \in tracks THEN BOOLEAN ELSE {FALSE}
  /\ announced \in IF publish THEN SUBSET tracks ELSE {tracks}
  /\ wire = [e \in Ends |-> <<>>]
  /\ writer = [e \in Ends |-> NewWriter]
  /\ reader = [e \in Ends |-> NewReader]
  /\ todo = [e \in Ends |->
               IF e = "server" THEN ServerHandshake \o <<Serve>>
               ELSE IF publish THEN Connect \o Publish \o Tracks
               ELSE Connect \o Play]
  /\ found = {}
  /\ sent = [e \in Ends |-> <<>>]
  /\ received = [e \in Ends |-> <<>>]
  /\ refused = ""

Doing(e, what) == refused = "" /\ todo[e] # <<>> /\ Head(todo[e]).do = what

Room(e) == Len(wire[e]) < MaxInFlight

PutPart(e) ==
  /\ Doing(e, "put") /\ Room(e)
  /\ wire' = [wire EXCEPT ![e] = Append(@, [part |-> Head(todo[e]).part])]
  /\ todo' = [todo EXCEPT ![e] = Tail(@)]
  /\ UNCHANGED <<choices, writer, reader, found, sent, received, refused>>

(* The byte counter is that of the connection, below the messages. *)
GetPart(e) ==
  /\ Doing(e, "get") /\ wire[Peer(e)] # <<>>
  /\ wire' = [wire EXCEPT ![Peer(e)] = Tail(@)]
  /\ Head(wire[Peer(e)]) = [part |-> Head(todo[e]).part]
  /\ todo' = [todo EXCEPT ![e] = Tail(@)]
  /\ reader' = [reader EXCEPT ![e] = Counted(@, 1)]
  /\ UNCHANGED <<choices, writer, found, sent, received, refused>>

(* message.Writer: a new chunk size holds from the next message on. *)
AfterWriting(w, m) ==
  IF m.type = "SetChunkSize" THEN [w EXCEPT !.chunkSize = What(m)[2]] ELSE w

(* e writes m; wire' may also have lost what e has just read. *)
Writes(e, m, wires) ==
  /\ wire' = [wires EXCEPT ![e] = @ \o ChunksOf(writer[e], m)]
  /\ writer' = [writer EXCEPT ![e] = AfterWriting(Written(@, m), m)]
  /\ sent' = [sent EXCEPT ![e] = Append(@, m)]

WriteMessage(e) ==
  /\ Doing(e, "write") /\ Room(e)
  /\ Writes(e, Head(todo[e]).msg, wire)
  /\ todo' = [todo EXCEPT ![e] = Tail(@)]
  /\ UNCHANGED <<choices, reader, found, received, refused>>

(* WriteH264, WriteMPEG4Audio, WriteMPEG1Audio: the times are those of the stream
   that is read, which need not grow. *)
UnitsSent == Len(SelectSeq(sent[Sender], LAMBDA m : What(m) = <<"unit">>))

WriteUnit ==
  /\ refused = "" /\ todo[Sender] = <<>> /\ Room(Sender) /\ UnitsSent < MaxUnits
  /\ \E t \in tracks, len \in BodyLens, gap \in Gaps :
       LET ts == writer[Sender].streams[StreamOf(t)].ts + gap
       IN ts >= 0 /\ Writes(Sender, Unit(t, ts, len), wire)
  /\ UNCHANGED <<choices, reader, todo, found, received, refused>>
-----------------------------------------------------------------------------
(* Mutant: the size is that of the chunks this end writes. *)
AppliedElsewhere(r, m) ==
  IF m.type = "SetWindowAckSize" THEN [r EXCEPT !.window = What(m)[2]] ELSE r

(* message.Reader: what was read of the settings of the other end. *)
Applied(r, m) ==
  CASE m.type = "SetChunkSize"     -> [r EXCEPT !.chunkSize = What(m)[2]]
    [] m.type = "SetWindowAckSize" -> [r EXCEPT !.window = What(m)[2]]
    [] OTHER                       -> r

IsMedia(m) == m.type \in {"audio", "video"}
IsConfig(m) == IsMedia(m) /\ What(m) = <<"config">>

(* tracksFromMetadata: until every track announced has its configuration. *)
FromMetadata(e, d, m) ==
  LET got == IF IsConfig(m) THEN found \cup {m.type} ELSE found
  IN IF IsMedia(m) /\ m.type \notin d.has
       THEN refused' = "unexpected packet" /\ UNCHANGED <<todo, found>>
       ELSE /\ found' = got
            /\ todo' = [todo EXCEPT ![e] = IF d.has \subseteq got THEN Tail(@)
                                           ELSE <<[d EXCEPT !.mode = "metadata"]>>]
            /\ UNCHANGED refused

(* tracksFromMessages: until both tracks are there, or for a second. *)
FromMessages(e, d, m) ==
  LET got   == IF IsConfig(m) THEN found \cup {m.type} ELSE found
      start == IF IsMedia(m) /\ d.start = None THEN m.ts ELSE d.start
      ends  == got = {"audio", "video"} \/ (IsMedia(m) /\ m.ts - start >= Second)
  IN /\ found' = got
     /\ todo' = [todo EXCEPT ![e] = IF ends THEN Tail(@)
                                    ELSE <<[d EXCEPT !.mode = "messages", !.start = start]>>]
     /\ refused' = IF ends /\ got = {} THEN "no supported tracks" ELSE ""

(* Mutant: a reply that comes after the first to play is a message like others. *)
DetectsAtOnce(e, d, m) ==
  CASE d.mode = "first" /\ m.type = "data" ->
         FromMetadata(e, [d EXCEPT !.has = What(m)[2]], m)
    [] d.mode = "metadata" -> FromMetadata(e, d, m)
    [] OTHER -> FromMessages(e, d, m)

(* readTracks: what the first message is decides; onStatus is skipped. *)
Detects(e, d, m) ==
  CASE d.mode = "first" /\ m.type = "command" /\ What(m)[1] = "onStatus" ->
         UNCHANGED <<todo, found, refused>>
    [] d.mode = "first" /\ m.type = "data" ->
         FromMetadata(e, [d EXCEPT !.has = What(m)[2]], m)
    [] d.mode = "metadata" -> FromMetadata(e, d, m)
    [] OTHER -> FromMessages(e, d, m)

(* Reader.Read: a packet of a track that was not found is an error. *)
Demuxes(m) ==
  /\ refused' = IF IsMedia(m) /\ m.type \notin found THEN "track is not set up" ELSE ""
  /\ UNCHANGED <<todo, found>>

(* readCommandResult, readCommand: one waits for its reply, the other for anything. *)
Answered(steps, m) ==
  CASE Head(steps).do = "serve" -> Served(m)
    [] Head(steps).do = "await" -> IF What(m) = Head(steps).reply THEN Tail(steps) ELSE steps

Handled(e, m) ==
  \/ todo[e] = <<>> /\ Demuxes(m)
  \/ Doing(e, "detect") /\ Detects(e, Head(todo[e]), m)
  \/ /\ Doing(e, "await") \/ Doing(e, "serve")
     /\ todo' = [todo EXCEPT ![e] = IF m.type = "command" THEN Answered(@, m) ELSE @]
     /\ UNCHANGED <<found, refused>>

Reading(e) ==
  /\ refused = "" /\ wire[Peer(e)] # <<>>
  /\ \/ \E what \in {"await", "serve", "detect"} : Doing(e, what)
     \/ todo[e] = <<>> /\ e # Sender

(* A chunk is read; an acknowledgement may be due; and a message may be complete. *)
ReadChunk(e) ==
  /\ Reading(e)
  /\ LET c     == Head(wire[Peer(e)])
         wires == [wire EXCEPT ![Peer(e)] = Tail(@)]
         r     == Counted(Read(reader[e], c), Weight(c))
         acked == IF AckNeeded(r) THEN Acknowledged(r) ELSE r
         m     == Message(acked, c)
         why   == IF Refusal(reader[e], c) = "" /\ ~Framed(reader[e], c)
                    THEN "out of step" ELSE Refusal(reader[e], c)
     IN IF why # ""
          THEN /\ refused' = why /\ wire' = wires
               /\ UNCHANGED <<writer, reader, todo, found, sent, received>>
          ELSE /\ IF AckNeeded(r) THEN Writes(e, Acknowledge(r.count), wires)
                  ELSE wire' = wires /\ UNCHANGED <<writer, sent>>
               /\ IF Complete(r, c)
                    THEN /\ reader' = [reader EXCEPT ![e] = Applied(Taken(acked, c), m)]
                         /\ received' = [received EXCEPT ![e] = Append(@, m)]
                         /\ Handled(e, m)
                    ELSE /\ reader' = [reader EXCEPT ![e] = acked]
                         /\ UNCHANGED <<todo, found, received, refused>>
  /\ UNCHANGED choices

Next == (\E e \in Ends : PutPart(e) \/ GetPart(e) \/ WriteMessage(e) \/ ReadChunk(e))
        \/ WriteUnit

(* Each end is a goroutine that goes on as long as it can; the units come from a
   stream that may end. *)
Fairness ==
  \A e \in Ends : WF_vars(PutPart(e) \/ GetPart(e) \/ WriteMessage(e) \/ ReadChunk(e))

Spec == Init /\ [][Next]_vars /\ Fairness
-----------------------------------------------------------------------------
(* m is what was sent as s: only its time is cut to what a header holds. *)
SameMessage(m, s) ==
  /\ m = [s EXCEPT !.ts = m.ts]
  /\ m.ts % TimeMod = s.ts % TimeMod

(* An end reads exactly the messages the other wrote, in their order, each with its
   own type, body and time, however they are cut in chunks and whatever of a header
   the chunks leave out. Neither end ever loses the place in what it reads, and
   no message of these programs is refused for its size. *)
MessagesArrive ==
  /\ \A e \in Ends :
       /\ Len(received[e]) <= Len(sent[Peer(e)])
       /\ \A i \in DOMAIN received[e] : SameMessage(received[e][i], sent[Peer(e)][i])
  /\ refused \notin {"expected type 3 chunk", "body exceeds maximum", "out of step"}

(* The writer leaves out the difference of times when it is as that of two messages
   before, even across a message whose time went back; the reader has forgotten it
   and refuses the chunk (rawmessage/writer.go:62-110, rawmessage/reader.go:206).
   Nothing but a time that went back leads there; and a packet of a track that was
   not found comes only from a sender that did not announce it. *)
RefusalsAreKnown ==
  /\ refused = "without previous chunk" =>
       \E i, k \in DOMAIN sent[Sender] :
         /\ i < k /\ sent[Sender][i].cs = sent[Sender][k].cs
         /\ sent[Sender][i].cs \in {AudioStream, VideoStream}
         /\ sent[Sender][k].ts < sent[Sender][i].ts
  /\ refused \in {"unexpected packet", "track is not set up", "no supported tracks"} =>
       announced # tracks

(* However many bytes an end has read since the window is known to it, the last
   acknowledgement it wrote is less than a window behind: a peer that stops when it
   hears nothing for a window and a half never does. *)
AcknowledgedInTime ==
  \A e \in Ends :
    LET acks == {i \in DOMAIN sent[e] : sent[e][i].type = "Acknowledge"}
        r    == reader[e]
    IN r.window # 0 =>
         /\ acks = {} => r.count <= Window
         /\ \A i \in acks :
              (\A k \in acks : k <= i)
                => (r.count - What(sent[e][i])[2]) % CountMod <= Window

(* Two ends that follow their programs do not wait for each other for ever: they
   agree on what the client asked for, and the receiving end finds the tracks
   which the sending end has, unless the parameters of its video come too late. *)
TracksAreFound ==
  announced = tracks /\ ~late ~> found = tracks /\ \A e \in Ends : todo[e] = <<>>
=============================================================================
