--------------------------- MODULE RtmpTalkProofs ----------------------------
(***************************************************************************)
(* RtmpLink: what the two ends say to each other. TalkInv places each end  *)
(* in its program: what it has said and heard when it is p steps from the  *)
(* start, what lies ahead of it, and how many bytes it has counted. From   *)
(* that: which refusals can be met, and that every end acknowledges what   *)
(* it reads within a window.                                               *)
(***************************************************************************)
EXTENDS RtmpLinkProofs

(* What is said. Of each end: the messages of its program, one after the other; after
   them the sending end writes media, the other acknowledgements. *)
Words(e) ==
  CASE e = "client" /\ publish  -> 8 + Len(Tracks)
    [] e = "client" /\ ~publish -> 7
    [] e = "server" /\ publish  -> 6
    [] e = "server" /\ ~publish -> 11 + Len(Tracks)

ClientPublishes(i) ==
  CASE i = 5 -> Command(3, 0, "releaseStream", 2)
    [] i = 6 -> Command(3, 0, "FCPublish", 3)
    [] i = 7 -> Command(3, 0, "createStream", 4)
    [] i = 8 -> Command(4, 1, "publish", 5)
    [] OTHER -> Tracks[i - 8].msg

ClientPlays(i) ==
  CASE i = 5 -> Command(3, 0, "createStream", 2)
    [] i = 6 -> UserControl("SetBufferLength")
    [] OTHER -> Command(4, 1, "play", 3)

ServerPublishes(i) ==
  IF i = 5 THEN Command(3, 0, "_result", 4) ELSE Command(5, 1, "onStatus", 5)

ServerPlays(i) ==
  CASE i = 5 -> Command(3, 0, "_result", 2)
    [] i = 6 -> UserControl("StreamIsRecorded")
    [] i = 7 -> UserControl("StreamBegin")
    [] i \in 8..11 -> Command(5, 1, "onStatus", 3)
    [] OTHER -> Tracks[i - 11].msg

Says(e, i) ==
  CASE i = 1 -> SetWindowAckSize
    [] i = 2 -> SetPeerBandwidth
    [] i = 3 -> SetChunkSize
    [] i = 4 -> Command(3, 0, IF e = "client" THEN "connect" ELSE "_result", 1)
    [] OTHER -> IF e = "client" THEN IF publish THEN ClientPublishes(i) ELSE ClientPlays(i)
                ELSE IF publish THEN ServerPublishes(i) ELSE ServerPlays(i)

(* The steps of each end, if all that it serves were in its program: where it has come
   when all is said, and how many messages it has written p steps from the start. *)
Last(e) ==
  CASE e = "client" /\ publish  -> 17 + Len(Tracks)
    [] e = "client" /\ ~publish -> 16
    [] e = "server" /\ publish  -> 15
    [] e = "server" /\ ~publish -> 20 + Len(Tracks)

Said(e, p) ==
  IF e = "client"
    THEN CASE p <= 6              -> 0
           [] p \in 7..10         -> p - 6
           [] p \in 11..12        -> p - 7
           [] p \in 13..14        -> IF publish THEN p - 7 ELSE p - 8
           [] p \in 15..16        -> IF publish THEN p - 8 ELSE 7
           [] OTHER               -> p - 9
    ELSE CASE p <= 7              -> 0
           [] p \in 8..11         -> p - 7
           [] p \in 12..13        -> p - 8
           [] OTHER               -> p - 9

StepAt(e, j) ==
  CASE j <= 6 -> IF e = "client" THEN ClientHandshake[j] ELSE ServerHandshake[j]
    [] e = "client" /\ j = 11             -> Await("_result", 1)
    [] e = "client" /\ publish /\ j = 15  -> Await("_result", 4)
    [] e = "client" /\ publish /\ j = 17  -> Await("onStatus", 5)
    [] e = "client" /\ ~publish /\ j = 13 -> Await("_result", 2)
    [] e = "client" /\ ~publish /\ j = 16 -> Await("onStatus", 3)
    [] e = "server" /\ j \in {7, 12, 14}  -> Serve
    [] e # Sender /\ j = Last(e) + 1      -> Detect
    [] OTHER                              -> Write(Says(e, Said(e, j)))

(* What is in todo ends here: with a server, where it serves again. *)
Stop(e, p) ==
  CASE e = "server" /\ p <= 6     -> 7
    [] e = "server" /\ p \in 7..11  -> 12
    [] e = "server" /\ p \in 12..13 -> 14
    [] OTHER -> IF e = Sender THEN Last(e) ELSE Last(e) + 1

(* How many messages it has read. *)
Heard(e, p) ==
  IF e = "client"
    THEN CASE p < 10        -> 0..0
           [] p = 10        -> 0..3
           [] p \in 11..12  -> 4..4
           [] p \in 13..14  -> IF publish THEN 4..4 ELSE 5..5
           [] p = 15        -> IF publish THEN 5..5 ELSE 5..7
           [] p = 16        -> IF publish THEN 5..5 ELSE Nat \ 0..7
           [] OTHER         -> 6..6
    ELSE CASE p < 6         -> 0..0
           [] p = 6         -> 0..3
           [] p \in 7..10   -> 4..4
           [] p = 11        -> IF publish THEN 4..6 ELSE 4..4
           [] p = 12        -> IF publish THEN 7..7 ELSE 5..5
           [] p = 13        -> IF publish THEN 7..7 ELSE 5..6
           [] p = 14        -> IF publish THEN 8..8 ELSE 7..7
           [] OTHER         -> IF publish THEN Nat \ 0..7 ELSE 7..7

(* What the receiving end has read when it comes to the tracks, and what it does from
   there on. *)
FirstTrack == IF publish THEN 9 ELSE 12

Finds(n, td, fd) ==
  /\ \A i \in DOMAIN td : td[i].do = "detect"
  /\ announced = tracks =>
       IF n < FirstTrack THEN td = <<Detect>>
       ELSE \/ td = <<>> /\ tracks \subseteq fd
            \/ /\ td # <<>> /\ Tail(td) = <<>>
               /\ Head(td).mode = "metadata" /\ Head(td).has = tracks

Ahead(e, p) == [i \in 1..(Stop(e, p) - p) |-> StepAt(e, p + i)]

At(e, p) ==
  /\ p \in 0..Last(e) /\ Len(received[e]) \in Heard(e, p)
  /\ IF p = Last(e) THEN Len(sent[e]) >= Words(e) ELSE Len(sent[e]) = Said(e, p)
  /\ IF e # Sender /\ p = Last(e) THEN Finds(Len(received[e]), todo[e], found)
     ELSE todo[e] = Ahead(e, p)

(* After its words. *)
Beyond(e, m) ==
  IF e = Sender THEN m.type \in tracks /\ What(m) = <<"unit">> ELSE m.type = "Acknowledge"

Speech(e) ==
  \A i \in DOMAIN sent[e] :
    IF i <= Words(e) THEN sent[e][i] = Says(e, i) ELSE Beyond(e, sent[e][i])

(* The pieces of the first n messages of an end. *)
PiecesOf(n) == IF n < 4 THEN n ELSE n + 1

(* The last of the acknowledgements in s tells of V bytes; if there is none, V is 0. *)
LastAck(s, V) ==
  LET acks == {i \in DOMAIN s : s[i].type = "Acknowledge"}
  IN  /\ acks = {} => V = 0
      /\ \A i \in acks : (\A k \in acks : k <= i) => What(s[i])[2] = V % CountMod

(* The counters of an end that has read N bytes, and acknowledged V of them: A are in
   whole windows. *)
IsCounted(rd, s, N, A, V) ==
  /\ rd.count = N % CountMod /\ rd.lastAck = A % CountMod
  /\ A <= V /\ V <= N /\ N - A <= Window
  /\ rd.window \in {0, Window}
  /\ rd.window = 0 => V = 0
  /\ LastAck(s, V)

(* It has read n messages; and it reads the first of them without acknowledging. *)
IsTally(e, p, rd, s, n, N, A, V) ==
  /\ IsCounted(rd, s, N, A, V)
  /\ rd.chunkSize \in {InitialChunkSize, ChunkSize}
  /\ rd.window = 0 => n = 0
  /\ p < 6 => N <= Gets(e, p)
  /\ p >= 6 /\ n < 8 =>
       \E cs \in ChunkStreams : N <= 3 + 2 * (PiecesOf(n) + Len(rd.streams[cs].body))

Tally(e, p) ==
  \E N, A, V \in Nat : IsTally(e, p, reader[e], sent[e], Len(received[e]), N, A, V)

Talks(e) == Speech(e) /\ \E p \in Nat : At(e, p) /\ Tally(e, p)

Calm == refused \notin {"unexpected packet", "track is not set up", "no supported tracks"}

TalkInv ==
  /\ tracks # {}
  /\ \A e \in Ends : Talks(e)
  /\ announced = tracks => Calm

-----------------------------------------------------------------------------
(* The messages and the steps they are in. *)
IsMsg(m, type, cs, len, what) ==
  m.type = type /\ m.cs = cs /\ Len(m.body) = len /\ What(m) = what

LEMMA MsgFields ==
  ASSUME NEW type, NEW cs, NEW sid, NEW ts, NEW len \in Nat \ {0}, NEW what
  PROVE  IsMsg(Msg(type, cs, sid, ts, len, what), type, cs, len, what)
<1> DEFINE body == [i \in 1..len |-> <<what, i>>]
<1>1. Len(body) = len /\ body[1] = <<what, 1>>
  OBVIOUS
<1> HIDE DEF body
<1>2. Msg(type, cs, sid, ts, len, what) =
        [type |-> type, cs |-> cs, sid |-> sid, ts |-> ts, body |-> body]
  BY DEF Msg, body
<1> QED
  BY <1>1, <1>2 DEF What, IsMsg

LEMMA CommandFields ==
  ASSUME NEW cs, NEW sid, NEW name, NEW id
  PROVE  IsMsg(Command(cs, sid, name, id), "command", cs,
               IF <<name, id>> \in {<<"connect", 1>>, <<"_result", 1>>} THEN 2 ELSE 1,
               <<name, id>>)
<1> DEFINE len == IF <<name, id>> \in {<<"connect", 1>>, <<"_result", 1>>} THEN 2 ELSE 1
<1>1. len \in Nat \ {0}
  OBVIOUS
<1> HIDE DEF len
<1>2. Command(cs, sid, name, id) = Msg("command", cs, sid, 0, len, <<name, id>>)
  BY DEF Command, len
<1> QED
  BY <1>1, <1>2, MsgFields DEF len

LEMMA OtherFields ==
  /\ IsMsg(SetWindowAckSize, "SetWindowAckSize", ControlStream, 1, <<"window", Window>>)
  /\ IsMsg(SetPeerBandwidth, "SetPeerBandwidth", ControlStream, 1, <<"bandwidth">>)
  /\ IsMsg(SetChunkSize, "SetChunkSize", ControlStream, 1, <<"size", ChunkSize>>)
  /\ \A c : IsMsg(UserControl(c), "UserControl", ControlStream, 1, <<c>>)
  /\ \A ts : IsMsg(Metadata(ts), "data", AudioStream, 1, <<"onMetaData", ts>>)
  /\ \A t : IsMsg(Config(t), t, StreamOf(t), 1, <<"config">>)
<1>1. 1 \in Nat \ {0}
  OBVIOUS
<1>2. \A type, cs, sid, ts, what : IsMsg(Msg(type, cs, sid, ts, 1, what), type, cs, 1, what)
  BY <1>1, MsgFields, Zenon
<1> QED
  BY <1>2, Zenon DEF SetWindowAckSize, SetPeerBandwidth, SetChunkSize, UserControl, Metadata,
     Config

(* The announcement comes first among what is written of the tracks. *)
IsConfigStep(st) == \E t \in tracks : st = Write(Config(t))

LEMMA Joins ==
  ASSUME NEW T, NEW a \in Seq(T), NEW b \in Seq(T)
  PROVE  /\ a \o b \in Seq(T) /\ Len(a \o b) = Len(a) + Len(b)
         /\ \A i \in 1..Len(a) : (a \o b)[i] = a[i]
         /\ \A i \in 1..Len(b) : (a \o b)[Len(a) + i] = b[i]
         /\ \A i \in 1..(Len(a) + Len(b)) : i > Len(a) => (a \o b)[i] = b[i - Len(a)]
  OBVIOUS

LEMMA TracksAre ==
  ASSUME Choices
  PROVE  /\ Tracks \in Seq({Write(Metadata(announced))} \cup {Write(Config(t)) : t \in tracks})
         /\ Len(Tracks) \in 0..3
         /\ announced # {} => Len(Tracks) >= 1 /\ Tracks[1] = Write(Metadata(announced))
         /\ \A i \in 1..Len(Tracks) : i > 1 \/ announced = {} => IsConfigStep(Tracks[i])
<1> DEFINE T == {Write(Metadata(announced))} \cup {Write(Config(t)) : t \in tracks}
<1> DEFINE a == IF announced # {} THEN <<Write(Metadata(announced))>> ELSE <<>>
<1> DEFINE b == IF "video" \in tracks /\ ~late THEN <<Write(Config("video"))>> ELSE <<>>
<1> DEFINE c == IF "audio" \in tracks THEN <<Write(Config("audio"))>> ELSE <<>>
<1>1. /\ a \in Seq(T) /\ Len(a) = IF announced # {} THEN 1 ELSE 0
      /\ announced # {} => a[1] = Write(Metadata(announced))
  <2> DEFINE x == Write(Metadata(announced))
  <2>1. x \in T
    OBVIOUS
  <2>2. a = IF announced # {} THEN <<x>> ELSE <<>>
    OBVIOUS
  <2> HIDE DEF a, x, T
  <2>3. /\ a \in Seq(T) /\ Len(a) = IF announced # {} THEN 1 ELSE 0
        /\ announced # {} => a[1] = x
    BY <2>1, <2>2
  <2> QED
    BY <2>3 DEF x
<1>2. b \in Seq(T) /\ Len(b) \in 0..1 /\ \A i \in 1..Len(b) : IsConfigStep(b[i])
  <2> DEFINE x == Write(Config("video"))
  <2>1. "video" \in tracks => x \in T /\ IsConfigStep(x)
    BY Zenon DEF IsConfigStep
  <2>2. (b = <<x>> /\ "video" \in tracks) \/ b = <<>>
    OBVIOUS
  <2> HIDE DEF b, x, T
  <2>3. CASE b = <<>>
    BY <2>3
  <2>4. CASE b = <<x>> /\ x \in T /\ IsConfigStep(x)
    <3>1. b[1] = x /\ Len(b) = 1 /\ b \in Seq(T)
      BY <2>4
    <3> QED
      BY <2>4, <3>1
  <2> QED
    BY <2>1, <2>2, <2>3, <2>4
<1>3. c \in Seq(T) /\ Len(c) \in 0..1 /\ \A i \in 1..Len(c) : IsConfigStep(c[i])
  <2> DEFINE x == Write(Config("audio"))
  <2>1. "audio" \in tracks => x \in T /\ IsConfigStep(x)
    BY Zenon DEF IsConfigStep
  <2>2. (c = <<x>> /\ "audio" \in tracks) \/ c = <<>>
    OBVIOUS
  <2> HIDE DEF c, x, T
  <2>3. CASE c = <<>>
    BY <2>3
  <2>4. CASE c = <<x>> /\ x \in T /\ IsConfigStep(x)
    <3>1. c[1] = x /\ Len(c) = 1 /\ c \in Seq(T)
      BY <2>4
    <3> QED
      BY <2>4, <3>1
  <2> QED
    BY <2>1, <2>2, <2>3, <2>4
<1>4. Tracks = (a \o b) \o c
  BY DEF Tracks
<1> HIDE DEF a, b, c, T
<1>5. /\ a \o b \in Seq(T) /\ Len(a \o b) = Len(a) + Len(b)
      /\ \A i \in 1..Len(a) : (a \o b)[i] = a[i]
      /\ \A i \in 1..(Len(a) + Len(b)) : i > Len(a) => (a \o b)[i] = b[i - Len(a)]
  BY <1>1, <1>2, Joins
<1> DEFINE ab == a \o b
<1> HIDE DEF ab
<1>6. /\ ab \o c \in Seq(T) /\ Len(ab \o c) = Len(ab) + Len(c)
      /\ \A i \in 1..Len(ab) : (ab \o c)[i] = ab[i]
      /\ \A i \in 1..(Len(ab) + Len(c)) : i > Len(ab) => (ab \o c)[i] = c[i - Len(ab)]
  BY <1>3, <1>5, Joins DEF ab
<1>7. Tracks = ab \o c
  BY <1>4 DEF ab
<1>8. Len(Tracks) \in 0..3 /\ Len(Tracks) = Len(a) + Len(b) + Len(c)
  <2>1. Len(Tracks) = Len(ab) + Len(c) /\ Len(ab) = Len(a) + Len(b)
    BY <1>5, <1>6, <1>7 DEF ab
  <2>2. Len(a) \in 0..1 /\ Len(b) \in 0..1 /\ Len(c) \in 0..1
    BY <1>1, <1>2, <1>3
  <2>3. \A x, y, z \in 0..1 : (x + y) + z \in 0..3
    OBVIOUS
  <2>4. (Len(a) + Len(b)) + Len(c) \in 0..3
    BY <2>2, <2>3, Zenon
  <2> QED
    BY <2>1, <2>4
<1>9. announced # {} => Len(Tracks) >= 1 /\ Tracks[1] = Write(Metadata(announced))
  <2> SUFFICES ASSUME announced # {} PROVE Len(Tracks) >= 1 /\ Tracks[1] = a[1]
    BY <1>1
  <2>1. 1 \in 1..Len(a) /\ 1 \in 1..Len(ab) /\ Len(Tracks) >= 1
    BY <1>1, <1>2, <1>3, <1>5, <1>8 DEF ab
  <2>2. (ab \o c)[1] = ab[1] /\ ab[1] = a[1]
    BY <1>5, <1>6, <2>1 DEF ab
  <2> QED
    BY <2>1, <2>2, <1>7
<1>10. ASSUME NEW i \in 1..Len(Tracks), i > 1 \/ announced = {}
       PROVE  IsConfigStep(Tracks[i])
  <2>1. i > Len(a) /\ i \in Nat
    BY <1>1, <1>8, <1>10
  <2>2. CASE i <= Len(ab)
    <3>1. i \in 1..Len(ab) /\ i \in 1..(Len(a) + Len(b)) /\ i - Len(a) \in 1..Len(b)
      BY <1>1, <1>2, <1>5, <2>1, <2>2 DEF ab
    <3>2. Tracks[i] = b[i - Len(a)]
      BY <1>5, <1>6, <1>7, <2>1, <3>1 DEF ab
    <3> QED
      BY <1>2, <3>1, <3>2
  <2>3. CASE i > Len(ab)
    <3>1. Len(ab) \in Nat /\ Len(c) \in Nat /\ Len(Tracks) = Len(ab) + Len(c)
      BY <1>1, <1>2, <1>3, <1>5, <1>8 DEF ab
    <3>2. i \in 1..(Len(ab) + Len(c)) /\ i - Len(ab) \in 1..Len(c)
      BY <2>3, <3>1
    <3>3. Tracks[i] = c[i - Len(ab)]
      BY <1>6, <1>7, <2>3, <3>2
    <3> QED
      BY <1>3, <3>2, <3>3
  <2>4. Len(ab) \in Nat
    BY <1>1, <1>2, <1>5 DEF ab
  <2> QED
    BY <2>1, <2>2, <2>3, <2>4
<1>11. Tracks \in Seq(T)
  BY <1>6, <1>7
<1> QED
  BY <1>8, <1>9, <1>10, <1>11 DEF T
-----------------------------------------------------------------------------
(* What is said, and where each end is. *)
LEMMA TrackMsgs ==
  ASSUME Choices, NEW k \in 1..Len(Tracks)
  PROVE  LET m == Tracks[k].msg
         IN  /\ Tracks[k] = Write(m)
             /\ IF k = 1 /\ announced # {} THEN m = Metadata(announced)
                ELSE \E t \in tracks : m = Config(t)
<1>1. CASE k = 1 /\ announced # {}
  <2>1. Tracks[k] = Write(Metadata(announced))
    BY <1>1, TracksAre
  <2> QED
    BY <1>1, <2>1 DEF Write
<1>2. CASE ~(k = 1 /\ announced # {})
  <2>1. Len(Tracks) \in 0..3
    BY TracksAre
  <2>2. k > 1 \/ announced = {}
    BY <1>2, <2>1
  <2>3. PICK t \in tracks : Tracks[k] = Write(Config(t))
    BY <2>2, TracksAre DEF IsConfigStep
  <2> QED
    BY <1>2, <2>3 DEF Write
<1> QED
  BY <1>1, <1>2

Plain(m, len) == Len(m.body) = len /\ m.type # "Acknowledge"

LEMMA PlainAre ==
  /\ Plain(SetWindowAckSize, 1) /\ Plain(SetPeerBandwidth, 1) /\ Plain(SetChunkSize, 1)
  /\ \A c : Plain(UserControl(c), 1)
  /\ \A ts : Plain(Metadata(ts), 1)
  /\ \A t \in Kinds : Plain(Config(t), 1)
  /\ \A cs, sid, name, id :
       Plain(Command(cs, sid, name, id),
             IF <<name, id>> \in {<<"connect", 1>>, <<"_result", 1>>} THEN 2 ELSE 1)
<1>1. ASSUME NEW m, NEW type, NEW cs, NEW len, NEW what, IsMsg(m, type, cs, len, what),
             type # "Acknowledge"
      PROVE  Plain(m, len)
  BY <1>1 DEF IsMsg, Plain
<1>2. /\ Plain(SetWindowAckSize, 1) /\ Plain(SetPeerBandwidth, 1) /\ Plain(SetChunkSize, 1)
      /\ \A c : Plain(UserControl(c), 1)
      /\ \A ts : Plain(Metadata(ts), 1)
  BY <1>1, OtherFields, Zenon
<1>3. \A t \in Kinds : Plain(Config(t), 1)
  BY <1>1, OtherFields, Zenon DEF Kinds
<1>4. \A cs, sid, name, id :
       Plain(Command(cs, sid, name, id),
             IF <<name, id>> \in {<<"connect", 1>>, <<"_result", 1>>} THEN 2 ELSE 1)
  <2> TAKE cs, sid, name, id
  <2> DEFINE len == IF <<name, id>> \in {<<"connect", 1>>, <<"_result", 1>>} THEN 2 ELSE 1
  <2>1. IsMsg(Command(cs, sid, name, id), "command", cs, len, <<name, id>>)
    BY CommandFields
  <2> HIDE DEF len
  <2>2. Plain(Command(cs, sid, name, id), len)
    BY <1>1, <2>1, Zenon
  <2> QED
    BY <2>2 DEF len
<1> QED
  BY <1>2, <1>3, <1>4

LEMMA TracksArePlain ==
  ASSUME Choices, NEW k \in 1..Len(Tracks)
  PROVE  Plain(Tracks[k].msg, 1)
<1>1. CASE k = 1 /\ announced # {}
  <2>1. Tracks[k].msg = Metadata(announced)
    BY <1>1, TrackMsgs, ZenonT(30)
  <2>2. Plain(Metadata(announced), 1)
    BY PlainAre
  <2> QED
    BY <2>1, <2>2
<1>2. CASE ~(k = 1 /\ announced # {})
  <2>1. PICK t \in tracks : Tracks[k].msg = Config(t)
    BY <1>2, TrackMsgs
  <2>2. t \in Kinds
    BY DEF Choices
  <2> QED
    BY <2>1, <2>2, PlainAre
<1> QED
  BY <1>1, <1>2

(* No word is an acknowledgement, and only the fourth has two pieces. *)
LEMMA SaysAre ==
  ASSUME Choices, NEW e \in Ends, NEW i \in 1..Words(e)
  PROVE  Plain(Says(e, i), IF i = 4 THEN 2 ELSE 1)
<1> DEFINE T == Len(Tracks)
<1>1. T \in 0..3
  BY TracksAre
<1>2. \A k \in 1..T : Plain(Tracks[k].msg, 1)
  BY TracksArePlain
<1>3. \A c : Plain(UserControl(c), 1)
  BY PlainAre
<1>4. /\ \A cs, sid, id : Plain(Command(cs, sid, "connect", 1), 2)
      /\ \A cs, sid, id : Plain(Command(cs, sid, "_result", 1), 2)
      /\ \A cs, sid, id : Plain(Command(cs, sid, "_result", 2), 1)
      /\ \A cs, sid, id : Plain(Command(cs, sid, "_result", 4), 1)
      /\ \A cs, sid, id : \A name \in {"releaseStream", "FCPublish", "createStream", "publish",
                                        "play", "onStatus"} :
           Plain(Command(cs, sid, name, id), 1)
  <2>1. \A cs, sid, name, id :
          Plain(Command(cs, sid, name, id),
                IF <<name, id>> \in {<<"connect", 1>>, <<"_result", 1>>} THEN 2 ELSE 1)
    BY PlainAre
  <2> QED
    BY <2>1
<1>5. i \in Nat \ {0}
  <2>1. Words(e) \in Nat
    BY <1>1 DEF Words, Ends, Choices
  <2> QED
    BY <2>1
<1>6. CASE i <= 4
  <2>1. i \in {1, 2, 3, 4}
    BY <1>5, <1>6
  <2>2. CASE i = 4
    <3>1. Says(e, i) = Command(3, 0, "connect", 1) \/ Says(e, i) = Command(3, 0, "_result", 1)
      BY <2>2 DEF Says
    <3> QED
      BY <1>4, <2>2, <3>1
  <2>3. CASE i \in {1, 2, 3}
    <3>1. Says(e, i) \in {SetWindowAckSize, SetPeerBandwidth, SetChunkSize}
      BY <2>3 DEF Says
    <3>2. Plain(Says(e, i), 1)
      BY <3>1, PlainAre
    <3> QED
      BY <2>3, <3>2
  <2> QED
    BY <2>1, <2>2, <2>3
<1>7. CASE i > 4
  <2> SUFFICES Plain(Says(e, i), 1)
    BY <1>5, <1>7
  <2>1. CASE e = "client" /\ publish
    <3>1. Says(e, i) = ClientPublishes(i) /\ i <= 8 + T
      BY <1>5, <1>7, <2>1 DEF Says, Words
    <3>2. CASE i <= 8
      <4>1. ClientPublishes(i) \in
              {Command(3, 0, "releaseStream", 2), Command(3, 0, "FCPublish", 3),
               Command(3, 0, "createStream", 4), Command(4, 1, "publish", 5)}
        BY <1>5, <1>7, <3>2 DEF ClientPublishes
      <4> QED
        BY <1>4, <3>1, <4>1
    <3>3. CASE i > 8
      <4>1. ClientPublishes(i) = Tracks[i - 8].msg /\ i - 8 \in 1..T
        BY <1>1, <1>5, <3>1, <3>3 DEF ClientPublishes
      <4> QED
        BY <1>2, <3>1, <4>1
    <3> QED
      BY <1>5, <3>2, <3>3
  <2>2. CASE e = "client" /\ ~publish
    <3>1. Says(e, i) \in {Command(3, 0, "createStream", 2), UserControl("SetBufferLength"),
                          Command(4, 1, "play", 3)}
      BY <1>5, <1>7, <2>2 DEF Says, ClientPlays
    <3> QED
      BY <1>3, <1>4, <3>1
  <2>3. CASE e = "server" /\ publish
    <3>1. Says(e, i) \in {Command(3, 0, "_result", 4), Command(5, 1, "onStatus", 5)}
      BY <1>5, <1>7, <2>3 DEF Says, ServerPublishes
    <3> QED
      BY <1>4, <3>1
  <2>4. CASE e = "server" /\ ~publish
    <3>1. Says(e, i) = ServerPlays(i) /\ i <= 11 + T
      BY <1>5, <1>7, <2>4 DEF Says, Words
    <3>2. CASE i <= 11
      <4>1. ServerPlays(i) \in
              {Command(3, 0, "_result", 2), UserControl("StreamIsRecorded"),
               UserControl("StreamBegin"), Command(5, 1, "onStatus", 3)}
        BY <1>5, <1>7, <3>2 DEF ServerPlays
      <4> QED
        BY <1>3, <1>4, <3>1, <4>1
    <3>3. CASE i > 11
      <4>1. ServerPlays(i) = Tracks[i - 11].msg /\ i - 11 \in 1..T
        BY <1>1, <1>5, <3>1, <3>3 DEF ServerPlays
      <4> QED
        BY <1>2, <3>1, <4>1
    <3> QED
      BY <1>5, <3>2, <3>3
  <2> QED
    BY <2>1, <2>2, <2>3, <2>4 DEF Ends
<1> QED
  BY <1>5, <1>6, <1>7
(* The steps before which an end waits for a message. *)
Waits(e) ==
  IF e = "client" THEN IF publish THEN {10, 14, 16} ELSE {10, 12, 15} ELSE {6, 11, 13}

LEMMA LastIs ==
  ASSUME Choices, NEW e \in Ends
  PROVE  /\ Last(e) \in 15..23 /\ Words(e) \in 6..14 /\ Said(e, Last(e)) = Words(e)
         /\ Waits(e) \subseteq 6..(Last(e) - 1)
         /\ Stop(e, Last(e)) = IF e = Sender THEN Last(e) ELSE Last(e) + 1
         /\ Said(e, 0) = 0 /\ Heard(e, 0) = 0..0
<1>1. Len(Tracks) \in 0..3
  BY TracksAre
<1>2. publish \in BOOLEAN
  BY DEF Choices
<1> DEFINE T == Len(Tracks)
<1> HIDE DEF T
<1>3. T \in 0..3
  BY <1>1 DEF T
<1>4. /\ Last(e) = IF e = "client" THEN IF publish THEN 17 + T ELSE 16
                   ELSE IF publish THEN 15 ELSE 20 + T
      /\ Words(e) = IF e = "client" THEN IF publish THEN 8 + T ELSE 7
                    ELSE IF publish THEN 6 ELSE 11 + T
  BY <1>2 DEF Last, Words, Ends, T
<1>5. Last(e) \in 15..23 /\ Words(e) \in 6..14
  BY <1>3, <1>4
<1>6. Waits(e) \subseteq 6..(Last(e) - 1)
  BY <1>3, <1>4 DEF Waits
<1>7. Said(e, Last(e)) = Words(e)
  BY <1>2, <1>3, <1>4 DEF Said, Ends
<1>8. Stop(e, Last(e)) = IF e = Sender THEN Last(e) ELSE Last(e) + 1
  BY <1>3, <1>4 DEF Stop, Ends
<1>9. Said(e, 0) = 0 /\ Heard(e, 0) = 0..0
  BY DEF Said, Heard
<1> QED
  BY <1>5, <1>6, <1>7, <1>8, <1>9

(* A step of the handshake; a message that is written; and where an end waits. *)
LEMMA EarlySteps ==
  ASSUME Choices, NEW e \in Ends, NEW p \in 0..5
  PROVE  /\ StepAt(e, p + 1).do = HandshakeDo(e, p + 1)
         /\ Said(e, p) = 0 /\ Said(e, p + 1) = 0 /\ Heard(e, p) = 0..0
         /\ Heard(e, p) \subseteq Heard(e, p + 1)
         /\ Stop(e, p + 1) = Stop(e, p) /\ p + 1 <= Stop(e, p) /\ Stop(e, p) \in Nat
<1>1. Last(e) \in 15..23
  BY LastIs
<1>2. StepAt(e, p + 1).do = HandshakeDo(e, p + 1)
  <2>1. StepAt(e, p + 1) = IF e = "client" THEN ClientHandshake[p + 1]
                           ELSE ServerHandshake[p + 1]
    BY <1>1 DEF StepAt
  <2>2. p + 1 \in {1, 2, 3, 4, 5, 6}
    OBVIOUS
  <2>3. CASE e = "client"
    BY <2>1, <2>2, <2>3 DEF ClientHandshake, Put, Get, HandshakeDo
  <2>4. CASE e = "server"
    BY <2>1, <2>2, <2>4 DEF ServerHandshake, Put, Get, HandshakeDo
  <2> QED
    BY <2>3, <2>4 DEF Ends
<1>3. Said(e, p) = 0 /\ Said(e, p + 1) = 0
  BY DEF Said
<1>4. Heard(e, p) = 0..0 /\ Heard(e, p) \subseteq Heard(e, p + 1)
  BY DEF Heard
<1>5. Stop(e, p + 1) = Stop(e, p) /\ p + 1 <= Stop(e, p) /\ Stop(e, p) \in Nat
  BY <1>1 DEF Stop, Ends
<1> QED
  BY <1>2, <1>3, <1>4, <1>5

LEMMA WriteSteps ==
  ASSUME Choices, NEW e \in Ends, NEW p \in 6..(Last(e) - 1), p \notin Waits(e)
  PROVE  /\ StepAt(e, p + 1) = Write(Says(e, Said(e, p) + 1))
         /\ Said(e, p + 1) = Said(e, p) + 1 /\ Said(e, p) + 1 \in 1..Words(e)
         /\ Heard(e, p) \subseteq Heard(e, p + 1)
         /\ Stop(e, p + 1) = Stop(e, p) /\ p + 1 <= Stop(e, p) /\ Stop(e, p) \in Nat
<1> DEFINE T == Len(Tracks)
<1> HIDE DEF T
<1>1. publish \in BOOLEAN /\ T \in 0..3
  BY TracksAre DEF Choices, T
<1>2. /\ Last(e) = IF e = "client" THEN IF publish THEN 17 + T ELSE 16
                   ELSE IF publish THEN 15 ELSE 20 + T
      /\ Words(e) = IF e = "client" THEN IF publish THEN 8 + T ELSE 7
                    ELSE IF publish THEN 6 ELSE 11 + T
  BY <1>1 DEF Last, Words, Ends, T
<1>3. p \in Nat /\ 6 <= p /\ p < Last(e)
  BY <1>1, <1>2
<1>4. Said(e, p + 1) = Said(e, p) + 1 /\ Said(e, p) + 1 \in 1..Words(e)
  BY <1>1, <1>2, <1>3 DEF Said, Waits, Ends
<1>5. Heard(e, p) \subseteq Heard(e, p + 1)
  BY <1>1, <1>2, <1>3 DEF Heard, Waits, Ends
<1>6. Stop(e, p + 1) = Stop(e, p) /\ p + 1 <= Stop(e, p) /\ Stop(e, p) \in Nat
  BY <1>1, <1>2, <1>3 DEF Stop, Waits, Ends, Sender
<1>7. StepAt(e, p + 1) = Write(Says(e, Said(e, p + 1)))
  BY <1>1, <1>2, <1>3 DEF StepAt, Waits, Ends, Sender
<1> QED
  BY <1>4, <1>5, <1>6, <1>7
LEMMA AheadGoesOn ==
  ASSUME NEW e, NEW p \in Nat, Stop(e, p) \in Nat, p + 1 <= Stop(e, p),
         Stop(e, p + 1) = Stop(e, p)
  PROVE  /\ Ahead(e, p) # <<>> /\ Head(Ahead(e, p)) = StepAt(e, p + 1)
         /\ Tail(Ahead(e, p)) = Ahead(e, p + 1)
<1> DEFINE n == Stop(e, p) - p
<1> DEFINE s == Ahead(e, p)
<1> DEFINE F(i) == StepAt(e, p + i)
<1>1. n \in Nat \ {0}
  OBVIOUS
<1>2. s = [i \in 1..n |-> F(i)]
  BY DEF Ahead
<1>3. Ahead(e, p + 1) = [i \in 1..(n - 1) |-> F(i + 1)]
  <2>1. Stop(e, p + 1) - (p + 1) = n - 1
    OBVIOUS
  <2>2. \A i \in 1..(n - 1) : (p + 1) + i = p + (i + 1)
    BY <1>1
  <2> HIDE DEF n
  <2>3. \A i \in 1..(n - 1) : StepAt(e, (p + 1) + i) = F(i + 1)
    BY <2>2
  <2> HIDE DEF F
  <2> QED
    BY <2>1, <2>3 DEF Ahead
<1>4. F(1) = StepAt(e, p + 1)
  OBVIOUS
<1> HIDE DEF n, s, F
<1>5. s \in Seq({F(i) : i \in 1..n}) /\ Len(s) = n /\ \A i \in 1..n : s[i] = F(i)
  BY <1>1, <1>2
<1>6. s # <<>> /\ Head(s) = F(1)
  BY <1>1, <1>5
<1>7. Tail(s) = [i \in 1..(n - 1) |-> F(i + 1)]
  <2>1. /\ Tail(s) \in Seq({F(i) : i \in 1..n}) /\ Len(Tail(s)) = n - 1
        /\ \A i \in 1..(n - 1) : Tail(s)[i] = s[i + 1]
    BY <1>1, <1>5, <1>6
  <2>2. \A i \in 1..(n - 1) : Tail(s)[i] = F(i + 1)
    BY <1>1, <1>5, <2>1
  <2>3. Tail(s) = [i \in 1..(n - 1) |-> Tail(s)[i]]
    <3> DEFINE x == Tail(s)
    <3> DEFINE S == {F(i) : i \in 1..n}
    <3>1. x \in Seq(S) /\ Len(x) = n - 1
      BY <2>1
    <3> HIDE DEF x, S
    <3>2. x \in [1..(n - 1) -> S]
      BY <1>1, <3>1
    <3>3. x = [i \in 1..(n - 1) |-> x[i]]
      BY <3>2
    <3> QED
      BY <3>3 DEF x
  <2> QED
    BY <2>2, <2>3
<1> QED
  BY <1>3, <1>4, <1>6, <1>7 DEF s

(* What the choices determine stays as it is. *)
LEMMA SameWords ==
  ASSUME UNCHANGED choices, NEW e
  PROVE  /\ Sender' = Sender /\ Tracks' = Tracks /\ Words(e)' = Words(e) /\ Last(e)' = Last(e)
         /\ FirstTrack' = FirstTrack
<1>1. Sender' = Sender /\ FirstTrack' = FirstTrack /\ Tracks' = Tracks
  BY DEF choices, Sender, Tracks, FirstTrack
<1> QED
  BY <1>1 DEF choices, Words, Last

LEMMA SameSays ==
  ASSUME UNCHANGED choices, NEW e, NEW i
  PROVE  Says(e, i)' = Says(e, i)
<1>1. Tracks' = Tracks /\ publish' = publish
  BY SameWords DEF choices
<1> QED
  BY <1>1 DEF Says, ClientPublishes, ClientPlays, ServerPublishes, ServerPlays

LEMMA SameAhead ==
  ASSUME UNCHANGED choices, NEW e, NEW p
  PROVE  /\ Said(e, p)' = Said(e, p) /\ Heard(e, p)' = Heard(e, p) /\ Stop(e, p)' = Stop(e, p)
         /\ Ahead(e, p)' = Ahead(e, p)
<1>1. publish' = publish /\ Last(e)' = Last(e) /\ Sender' = Sender
  BY SameWords DEF choices
<1>2. ASSUME NEW q PROVE Said(e, q)' = Said(e, q)
  BY <1>1 DEF Said
<1>3. Heard(e, p)' = Heard(e, p)
  BY <1>1 DEF Heard
<1>4. Stop(e, p)' = Stop(e, p)
  BY <1>1 DEF Stop
<1>5. ASSUME NEW j PROVE StepAt(e, j)' = StepAt(e, j)
  <2>1. Says(e, Said(e, j))' = Says(e, Said(e, j))
    <3>1. \A i : Says(e, i)' = Says(e, i)
      BY SameSays
    <3> QED
      BY <1>2, <3>1
  <2> QED
    BY <1>1, <2>1 DEF StepAt
<1>6. Ahead(e, p)' = Ahead(e, p)
  BY <1>4, <1>5 DEF Ahead
<1> QED
  BY <1>2, <1>3, <1>4, <1>6
(* Where an end is after a step. *)
LEMMA AtNext ==
  ASSUME UNCHANGED choices, NEW e \in Ends, NEW q, q \in 0..Last(e),
         Len(received'[e]) \in Heard(e, q),
         IF q = Last(e) THEN Len(sent'[e]) >= Words(e) ELSE Len(sent'[e]) = Said(e, q),
         IF e # Sender /\ q = Last(e) THEN Finds(Len(received'[e]), todo'[e], found')
         ELSE todo'[e] = Ahead(e, q)
  PROVE  At(e, q)'
<1>1. /\ Sender' = Sender /\ Words(e)' = Words(e) /\ Last(e)' = Last(e)
      /\ Said(e, q)' = Said(e, q) /\ Heard(e, q)' = Heard(e, q) /\ Ahead(e, q)' = Ahead(e, q)
  BY SameWords, SameAhead
<1>2. ASSUME Finds(Len(received'[e]), todo'[e], found')
      PROVE  Finds(Len(received[e]), todo[e], found)'
  <2>1. FirstTrack' = FirstTrack /\ announced' = announced /\ tracks' = tracks
    BY SameWords DEF choices
  <2> QED
    BY <1>2, <2>1 DEF Finds
<1> QED
  BY <1>1, <1>2 DEF At

LEMMA SpeechStays ==
  ASSUME UNCHANGED choices, NEW e \in Ends, Speech(e), sent'[e] = sent[e]
  PROVE  Speech(e)'
<1>1. Sender' = Sender /\ Words(e)' = Words(e) /\ tracks' = tracks
  BY SameWords DEF choices
<1>2. \A i : Says(e, i)' = Says(e, i)
  BY SameSays
<1>3. \A m : Beyond(e, m)' = Beyond(e, m)
  BY <1>1 DEF Beyond
<1>4. ASSUME NEW i \in DOMAIN sent'[e]
      PROVE  IF i <= Words(e)' THEN sent'[e][i] = Says(e, i)' ELSE Beyond(e, sent[e][i])'
  <2>1. IF i <= Words(e) THEN sent[e][i] = Says(e, i) ELSE Beyond(e, sent[e][i])
    BY <1>4 DEF Speech
  <2>2. tracks' = tracks /\ sent'[e][i] = sent[e][i]
    BY <1>1
  <2> QED
    BY <1>1, <1>2, <2>1, <2>2 DEF Beyond
<1> QED
  BY <1>4 DEF Speech

(* Who neither reads nor writes stays where it is. *)
LEMMA OthersStay ==
  ASSUME UNCHANGED choices, NEW e \in Ends, Talks(e), sent'[e] = sent[e],
         received'[e] = received[e], reader'[e] = reader[e], todo'[e] = todo[e],
         e = Sender \/ found' = found
  PROVE  Talks(e)'
<1>1. PICK p \in Nat : At(e, p) /\ Tally(e, p)
  BY DEF Talks
<1>2. At(e, p)'
  <2>1. /\ p \in 0..Last(e) /\ Len(received[e]) \in Heard(e, p)
        /\ IF p = Last(e) THEN Len(sent[e]) >= Words(e) ELSE Len(sent[e]) = Said(e, p)
        /\ IF e # Sender /\ p = Last(e) THEN Finds(Len(received[e]), todo[e], found)
           ELSE todo[e] = Ahead(e, p)
    BY <1>1 DEF At
  <2>2. IF e # Sender /\ p = Last(e) THEN Finds(Len(received'[e]), todo'[e], found')
        ELSE todo'[e] = Ahead(e, p)
    BY <2>1
  <2> QED
    BY <2>1, <2>2, AtNext
<1>3. Tally(e, p)'
  <2>1. PICK N \in Nat, A \in Nat, V \in Nat :
          IsTally(e, p, reader[e], sent[e], Len(received[e]), N, A, V)
    BY <1>1 DEF Tally
  <2>2. IsTally(e, p, reader'[e], sent'[e], Len(received'[e]), N, A, V)
    BY <2>1
  <2> QED
    BY <2>2 DEF Tally
<1>4. Speech(e)'
  BY SpeechStays DEF Talks
<1> QED
  BY <1>1, <1>2, <1>3, <1>4 DEF Talks
-----------------------------------------------------------------------------
(* An end waits for a reply, or serves. *)
Reply(e, p) ==
  CASE p = 10             -> <<"_result", 1>>
    [] publish /\ p = 14  -> <<"_result", 4>>
    [] publish /\ p = 16  -> <<"onStatus", 5>>
    [] ~publish /\ p = 12 -> <<"_result", 2>>
    [] OTHER              -> <<"onStatus", 3>>

LEMMA WaitSteps ==
  ASSUME Choices, NEW e \in Ends, NEW p \in Waits(e)
  PROVE  /\ p \in 6..(Last(e) - 1) /\ Stop(e, p) \in Nat /\ p + 1 <= Stop(e, p)
         /\ IF e = "client"
              THEN /\ StepAt(e, p + 1) = [do |-> "await", reply |-> Reply(e, p)]
                   /\ Stop(e, p + 1) = Stop(e, p)
              ELSE StepAt(e, p + 1) = Serve /\ Stop(e, p) = p + 1
         /\ StepAt(e, p + 1).do \in {"await", "serve"}
<1> DEFINE T == Len(Tracks)
<1> HIDE DEF T
<1>1. publish \in BOOLEAN /\ T \in 0..3
  BY TracksAre DEF Choices, T
<1>2. Last(e) = IF e = "client" THEN IF publish THEN 17 + T ELSE 16
                ELSE IF publish THEN 15 ELSE 20 + T
  BY <1>1 DEF Last, Ends, T
<1>3. p \in 6..(Last(e) - 1)
  BY LastIs
<1>4. CASE e = "client"
  <2>1. Stop(e, p) \in Nat /\ p + 1 <= Stop(e, p) /\ Stop(e, p + 1) = Stop(e, p)
    BY <1>1, <1>2, <1>3, <1>4 DEF Stop, Waits, Sender
  <2>2. StepAt(e, p + 1) = [do |-> "await", reply |-> Reply(e, p)]
    BY <1>1, <1>2, <1>3, <1>4 DEF StepAt, Waits, Sender, Await, Reply
  <2> QED
    BY <1>3, <1>4, <2>1, <2>2
<1>5. CASE e = "server"
  <2>1. Stop(e, p) \in Nat /\ p + 1 <= Stop(e, p) /\ Stop(e, p) = p + 1
    BY <1>1, <1>2, <1>3, <1>5 DEF Stop, Waits, Sender
  <2>2. StepAt(e, p + 1) = Serve
    BY <1>1, <1>2, <1>3, <1>5 DEF StepAt, Waits, Sender
  <2>3. Serve.do = "serve"
    BY DEF Serve
  <2> QED
    BY <1>3, <1>5, <2>1, <2>2, <2>3
<1> QED
  BY <1>4, <1>5 DEF Ends

(* The receiving end, when all is said. *)
LEMMA ReceiverEnds ==
  ASSUME Choices, NEW e \in Ends, e # Sender
  PROVE  /\ Ahead(e, Last(e)) = <<Detect>>
         /\ \A fd : Finds(8, <<Detect>>, fd)
         /\ FirstTrack \in Nat /\ FirstTrack > 8
<1> DEFINE l == Last(e)
<1>1. l \in 15..23 /\ Stop(e, l) = l + 1
  BY LastIs
<1>2. StepAt(e, l + 1) = Detect
  <2> DEFINE T == Len(Tracks)
  <2> HIDE DEF T
  <2>1. publish \in BOOLEAN /\ T \in 0..3
    BY TracksAre DEF Choices, T
  <2>2. l = IF e = "client" THEN IF publish THEN 17 + T ELSE 16
            ELSE IF publish THEN 15 ELSE 20 + T
    BY <2>1 DEF Last, Ends, T
  <2> HIDE DEF l
  <2>3. e # Sender /\ l = Last(e) /\ e = IF publish THEN "server" ELSE "client"
    BY DEF l, Sender, Ends
  <2> QED
    BY <2>1, <2>2, <2>3 DEF StepAt
<1> HIDE DEF l
<1>3. Ahead(e, l) = [i \in 1..1 |-> StepAt(e, l + i)]
  BY <1>1 DEF Ahead
<1>4. Ahead(e, l) = <<Detect>>
  <2>1. [i \in 1..1 |-> StepAt(e, l + i)] = [i \in 1..1 |-> Detect]
    BY <1>2
  <2>2. [i \in 1..1 |-> Detect] = <<Detect>>
    OBVIOUS
  <2> QED
    BY <1>3, <2>1, <2>2
<1>5. FirstTrack \in Nat /\ FirstTrack > 8
  BY DEF FirstTrack
<1>6. ASSUME NEW fd PROVE Finds(8, <<Detect>>, fd)
  <2>1. \A i \in DOMAIN <<Detect>> : <<Detect>>[i].do = "detect"
    BY DEF Detect
  <2> QED
    BY <1>5, <2>1 DEF Finds
<1> QED
  BY <1>4, <1>5, <1>6 DEF l

(* A part is put or got, or a message written. *)
Moves(e, p) ==
  LET st == Head(todo[e])
  IN  /\ p < Last(e) /\ p + 1 \in 0..Last(e) /\ p \notin Waits(e)
      /\ Len(received[e]) \in Heard(e, p + 1)
      /\ p < 6 => st.do = HandshakeDo(e, p + 1) /\ Len(sent[e]) = Said(e, p + 1)
                  /\ Len(received[e]) = 0 /\ Len(sent[e]) = 0
      /\ p >= 6 => /\ st = Write(Says(e, Len(sent[e]) + 1))
                   /\ Len(sent[e]) + 1 = Said(e, p + 1) /\ Len(sent[e]) + 1 \in 1..Words(e)
      /\ IF e # Sender /\ p + 1 = Last(e)
           THEN \A fd : Finds(Len(received[e]), Tail(todo[e]), fd)
           ELSE Tail(todo[e]) = Ahead(e, p + 1)

LEMMA StillToSay ==
  ASSUME Choices, NEW e \in Ends, NEW p \in Nat, At(e, p), todo[e] # <<>>,
         \E T : todo[e] \in Seq(T),
         Head(todo[e]).do \in {"put", "get", "write"} \/ e = Sender
  PROVE  p < Last(e)
<1>1. p <= Last(e) /\ Last(e) \in Nat
  BY LastIs DEF At
<1>2. CASE p = Last(e) /\ e = Sender
  <2>1. todo[e] = Ahead(e, p) /\ Stop(e, p) = p
    BY <1>2, LastIs DEF At
  <2>2. todo[e] = [i \in 1..0 |-> StepAt(e, p + i)]
    BY <2>1 DEF Ahead
  <2> QED
    BY <2>2
<1>3. CASE p = Last(e) /\ e # Sender
  <2>1. \A i \in DOMAIN todo[e] : todo[e][i].do = "detect"
    BY <1>3 DEF At, Finds
  <2>2. 1 \in DOMAIN todo[e] /\ Head(todo[e]) = todo[e][1]
    OBVIOUS
  <2> QED
    BY <1>3, <2>1, <2>2
<1> QED
  BY <1>1, <1>2, <1>3

LEMMA MovesOn ==
  ASSUME Choices, NEW e \in Ends, NEW p \in Nat, At(e, p), todo[e] # <<>>,
         \E T : todo[e] \in Seq(T),
         Head(todo[e]).do \in {"put", "get", "write"}
  PROVE  Moves(e, p)
<1>1. p < Last(e) /\ Last(e) \in 15..23
  BY StillToSay, LastIs
<1>2. /\ todo[e] = Ahead(e, p) /\ Len(sent[e]) = Said(e, p) /\ Len(received[e]) \in Heard(e, p)
  BY <1>1 DEF At
<1>3. p \notin Waits(e)
  <2> SUFFICES ASSUME p \in Waits(e) PROVE FALSE
    OBVIOUS
  <2>1. Stop(e, p) \in Nat /\ p + 1 <= Stop(e, p) /\ StepAt(e, p + 1).do \in {"await", "serve"}
    BY WaitSteps
  <2>2. Head(Ahead(e, p)) = StepAt(e, p + 1)
    <3> DEFINE F(i) == StepAt(e, p + i)
    <3> DEFINE n == Stop(e, p) - p
    <3>1. Ahead(e, p) = [i \in 1..n |-> F(i)] /\ n \in Nat \ {0} /\ F(1) = StepAt(e, p + 1)
      BY <2>1 DEF Ahead
    <3> HIDE DEF F, n
    <3> QED
      BY <3>1
  <2> QED
    BY <1>2, <2>1, <2>2
<1>4. CASE p < 6
  <2>1. p \in 0..5
    BY <1>4
  <2>2. /\ StepAt(e, p + 1).do = HandshakeDo(e, p + 1)
        /\ Said(e, p) = 0 /\ Said(e, p + 1) = 0 /\ Heard(e, p) = 0..0
        /\ Heard(e, p) \subseteq Heard(e, p + 1)
        /\ Stop(e, p + 1) = Stop(e, p) /\ p + 1 <= Stop(e, p) /\ Stop(e, p) \in Nat
    BY <2>1, EarlySteps
  <2>3. Head(todo[e]) = StepAt(e, p + 1) /\ Tail(todo[e]) = Ahead(e, p + 1)
    BY <1>2, <2>2, AheadGoesOn
  <2>4. p + 1 # Last(e) /\ ~(p >= 6) /\ p + 1 \in 0..Last(e)
    BY <1>1, <2>1
  <2> QED
    BY <1>1, <1>2, <1>3, <2>2, <2>3, <2>4 DEF Moves
<1>5. CASE p >= 6
  <2>1. p \in 6..(Last(e) - 1) /\ ~(p < 6) /\ p + 1 \in 0..Last(e)
    BY <1>1, <1>5
  <2>2. /\ StepAt(e, p + 1) = Write(Says(e, Said(e, p) + 1))
        /\ Said(e, p + 1) = Said(e, p) + 1 /\ Said(e, p) + 1 \in 1..Words(e)
        /\ Heard(e, p) \subseteq Heard(e, p + 1)
        /\ Stop(e, p + 1) = Stop(e, p) /\ p + 1 <= Stop(e, p) /\ Stop(e, p) \in Nat
    BY <1>3, <2>1, WriteSteps
  <2>3. Head(todo[e]) = StepAt(e, p + 1) /\ Tail(todo[e]) = Ahead(e, p + 1)
    BY <1>2, <2>2, AheadGoesOn
  <2>4. ASSUME e # Sender, p + 1 = Last(e)
        PROVE  \A fd : Finds(Len(received[e]), Tail(todo[e]), fd)
    <3>1. e = "server" /\ publish
      <4>1. CASE e = "client" /\ ~publish
        <5>1. Last(e) = 16 /\ 15 \in Waits(e)
          BY <4>1 DEF Last, Waits
        <5> QED
          BY <1>3, <2>4, <5>1
      <4> QED
        BY <2>4, <4>1 DEF Sender, Ends, Choices
    <3>2. Last(e) = 15 /\ p = 14
      BY <2>4, <3>1 DEF Last
    <3>3. Len(received[e]) = 8
      BY <1>2, <3>1, <3>2 DEF Heard
    <3> QED
      BY <2>3, <2>4, <3>3, ReceiverEnds
  <2> QED
    BY <1>1, <1>2, <1>3, <2>1, <2>2, <2>3, <2>4 DEF Moves
<1> QED
  BY <1>4, <1>5
-----------------------------------------------------------------------------
(* What is counted while nothing is read but the handshake. *)
LEMMA AckStays ==
  ASSUME NEW s \in Seq(Messages(Parts)), NEW m \in Messages(Parts), m.type # "Acknowledge",
         NEW V, LastAck(s, V)
  PROVE  LastAck(Append(s, m), V)
<1> DEFINE t == Append(s, m)
<1>1. Len(s) \in Nat /\ Len(t) = Len(s) + 1 /\ t[Len(s) + 1] = m /\ DOMAIN s = 1..Len(s)
      /\ DOMAIN t = 1..Len(t) /\ \A i \in 1..Len(s) : t[i] = s[i]
  BY AppendProperties
<1> HIDE DEF t
<1>2. {i \in DOMAIN t : t[i].type = "Acknowledge"} = {i \in DOMAIN s : s[i].type = "Acknowledge"}
  <2>1. \A i \in DOMAIN t : i \in DOMAIN s \/ i = Len(s) + 1
    BY <1>1
  <2>2. \A i \in DOMAIN s : i \in DOMAIN t
    BY <1>1
  <2> QED
    BY <1>1, <2>1, <2>2
<1>3. \A i \in {i \in DOMAIN s : s[i].type = "Acknowledge"} : t[i] = s[i]
  BY <1>1
<1>4. LastAck(t, V)
  BY <1>2, <1>3 DEF LastAck
<1> QED
  BY <1>4 DEF t

LEMMA TallyPut ==
  ASSUME NEW e \in Ends, NEW p \in 0..5, NEW rd \in Readers(Parts), NEW s,
         NEW N \in Nat, NEW A \in Nat, NEW V \in Nat,
         IsTally(e, p, rd, s, 0, N, A, V), Gets(e, p + 1) = Gets(e, p)
  PROVE  IsTally(e, p + 1, rd, s, 0, N, A, V)
<1>1. N <= Gets(e, p) /\ Gets(e, p) <= 3 /\ Gets(e, p) \in Nat
  <2>1. p \in 0..6 /\ p < 6
    OBVIOUS
  <2>2. Gets(e, p) \in 0..3
    BY <2>1, HandshakeCounts
  <2> QED
    BY <2>1, <2>2 DEF IsTally, IsCounted
<1>2. 2 \in ChunkStreams /\ Len(rd.streams[2].body) \in Nat
  <2>1. 2 \in ChunkStreams
    BY LinkAssumption
  <2>2. rd.streams[2].body \in Seq(Parts)
    BY <2>1 DEF Readers, ReaderStreams
  <2> QED
    BY <2>1, <2>2
<1>3. N <= 3 + 2 * (PiecesOf(0) + Len(rd.streams[2].body))
  BY <1>1, <1>2 DEF PiecesOf
<1>4. p + 1 < 6 => N <= Gets(e, p + 1)
  BY <1>1
<1> QED
  BY <1>2, <1>3, <1>4 DEF IsTally, IsCounted

LEMMA TallyGet ==
  ASSUME NEW e \in Ends, NEW p \in 0..5, NEW rd \in Readers(Parts), NEW s,
         NEW N \in Nat, NEW A \in Nat, NEW V \in Nat,
         IsTally(e, p, rd, s, 0, N, A, V), Gets(e, p + 1) = Gets(e, p) + 1, Gets(e, p) < 3
  PROVE  IsTally(e, p + 1, Counted(rd, 1), s, 0, N + 1, A, V)
<1> DEFINE r2 == Counted(rd, 1)
<1>1. N + 1 <= Gets(e, p + 1) /\ Gets(e, p + 1) <= 3 /\ Gets(e, p + 1) \in Nat
  <2>1. p \in 0..6 /\ p < 6
    OBVIOUS
  <2>2. Gets(e, p) \in 0..3
    BY <2>1, HandshakeCounts
  <2> QED
    BY <2>1, <2>2 DEF IsTally, IsCounted
<1>2. 2 \in ChunkStreams /\ Len(rd.streams[2].body) \in Nat
  <2>1. 2 \in ChunkStreams
    BY LinkAssumption
  <2>2. rd.streams[2].body \in Seq(Parts)
    BY <2>1 DEF Readers, ReaderStreams
  <2> QED
    BY <2>1, <2>2
<1>3. N + 1 <= 3 + 2 * (PiecesOf(0) + Len(rd.streams[2].body))
  <2> DEFINE L == Len(rd.streams[2].body)
  <2>1. PiecesOf(0) = 0
    BY DEF PiecesOf
  <2>2. L \in Nat
    BY <1>2
  <2> HIDE DEF L
  <2>3. N + 1 <= 3 + 2 * (0 + L)
    BY <1>1, <2>2
  <2> QED
    BY <2>1, <2>3 DEF L
<1>4. /\ r2.count = (rd.count + 1) % CountMod /\ r2.lastAck = rd.lastAck
      /\ r2.window = rd.window /\ r2.chunkSize = rd.chunkSize /\ r2.streams = rd.streams
  BY DEF Counted, Readers
<1>5. rd.count = N % CountMod
  BY DEF IsTally, IsCounted
<1>6. ((N % CountMod) + 1) % CountMod = (N + 1) % CountMod
  <2>1. CountMod \in Nat \ {0} /\ 1 \in Nat
    BY ChunkAssumption
  <2> QED
    BY <2>1, ModAdd
<1>7. r2.count = (N + 1) % CountMod
  BY <1>4, <1>5, <1>6
<1> HIDE DEF r2
<1>8. A <= V /\ V <= N + 1 /\ (N + 1) - A <= Window
  <2>1. A <= V /\ V <= N
    BY DEF IsTally, IsCounted
  <2>2. Window \in Nat /\ Window > 20
    BY LinkAssumption
  <2> QED
    BY <1>1, <2>1, <2>2
<1>9. IsTally(e, p + 1, r2, s, 0, N + 1, A, V)
  BY <1>1, <1>2, <1>3, <1>4, <1>7, <1>8 DEF IsTally, IsCounted
<1> QED
  BY <1>9 DEF r2

LEMMA TallyWrite ==
  ASSUME NEW e \in Ends, NEW p \in Nat, p >= 6, NEW q \in Nat, q >= 6, NEW rd,
         NEW s \in Seq(Messages(Parts)), NEW m \in Messages(Parts), m.type # "Acknowledge",
         NEW n, NEW N, NEW A, NEW V, IsTally(e, p, rd, s, n, N, A, V)
  PROVE  IsTally(e, q, rd, Append(s, m), n, N, A, V)
<1>1. LastAck(Append(s, m), V)
  BY AckStays DEF IsTally, IsCounted
<1>2. ~(q < 6)
  OBVIOUS
<1> QED
  BY <1>1, <1>2 DEF IsTally, IsCounted
-----------------------------------------------------------------------------
(* One more of the words, or what comes after them. *)
LEMMA SpeechGoesOn ==
  ASSUME UNCHANGED choices, NEW e \in Ends, Speech(e), sent[e] \in Seq(Messages(Parts)),
         NEW m \in Messages(Parts), sent'[e] = Append(sent[e], m),
         IF Len(sent[e]) + 1 <= Words(e) THEN m = Says(e, Len(sent[e]) + 1) ELSE Beyond(e, m)
  PROVE  Speech(e)'
<1> DEFINE s == sent[e]
<1> DEFINE t == Append(s, m)
<1>1. Len(s) \in Nat /\ Len(t) = Len(s) + 1 /\ t[Len(s) + 1] = m /\ DOMAIN s = 1..Len(s)
      /\ DOMAIN t = 1..Len(t) /\ \A i \in 1..Len(s) : t[i] = s[i]
  BY AppendProperties
<1> HIDE DEF t
<1>2. Words(e)' = Words(e) /\ \A i : Says(e, i)' = Says(e, i)
  BY SameWords, SameSays
<1>3. ASSUME NEW i \in DOMAIN t
      PROVE  IF i <= Words(e) THEN t[i] = Says(e, i) ELSE Beyond(e, t[i])
  <2>1. i \in DOMAIN s \/ i = Len(s) + 1
    BY <1>1
  <2>2. CASE i \in DOMAIN s
    BY <1>1, <2>2 DEF Speech
  <2>3. CASE i = Len(s) + 1
    BY <1>1, <2>3
  <2> QED
    BY <2>1, <2>2, <2>3
<1>4. sent'[e] = t
  BY DEF t
<1>5. Sender' = Sender /\ tracks' = tracks
  BY SameWords DEF choices
<1>6. ASSUME NEW i \in DOMAIN sent'[e]
      PROVE  IF i <= Words(e)' THEN sent'[e][i] = Says(e, i)' ELSE Beyond(e, sent[e][i])'
  BY <1>2, <1>3, <1>4, <1>5, <1>6 DEF Beyond
<1> QED
  BY <1>6 DEF Speech

(* What is known of an end while nothing was refused. *)
LEMMA EndIs ==
  ASSUME LinkInv, Open, NEW e \in Ends
  PROVE  /\ Choices /\ Shapes /\ \E T : todo[e] \in Seq(T)
         /\ reader[e] \in Readers(Parts) /\ sent[e] \in Seq(Messages(Parts))
         /\ received[e] \in Seq(Messages(Parts)) /\ AllSound(sent[e])
<1>1. PICK h \in [Ends -> 0..6] : \A y \in Ends : Goes(h, y)
  BY DEF LinkInv, Steady
<1>2. /\ Program(e, h[e], todo[e])
      /\ Linked(InFlight(h, Peer(e)), wire[Peer(e)], writer[Peer(e)], reader[e],
                sent[Peer(e)], received[e])
  BY <1>1, SteadyIs
<1>3. Choices /\ Shapes /\ AllSound(sent[e])
  BY DEF LinkInv, Steady, SoFar
<1>4. reader[e] \in Readers(Parts) /\ received[e] \in Seq(Messages(Parts))
  BY <1>2 DEF Linked, InStep, Arrived
<1> QED
  BY <1>2, <1>3, <1>4 DEF Program, AllSound

(* What is still true of both ends, and of what was refused. *)
LEMMA TalkGoesOn ==
  ASSUME TalkInv, UNCHANGED choices, NEW e \in Ends, Talks(e)', Talks(Peer(e))',
         announced = tracks => Calm'
  PROVE  TalkInv'
<1>1. Ends = {e, Peer(e)}
  BY EndsAre
<1> QED
  BY <1>1 DEF TalkInv, choices
-----------------------------------------------------------------------------
(* A step of the handshake, or of what follows, that reads no message. *)
LEMMA HasMoved ==
  ASSUME NEW e \in Ends, NEW p \in Nat, Choices, Moves(e, p), UNCHANGED choices,
         received'[e] = received[e], todo'[e] = Tail(todo[e]),
         IF p < 6 THEN sent'[e] = sent[e] ELSE Len(sent'[e]) = Len(sent[e]) + 1
  PROVE  At(e, p + 1)'
<1> DEFINE q == p + 1
<1>1. Last(e) \in 15..23 /\ Said(e, Last(e)) = Words(e) /\ Words(e) \in 6..14
  BY LastIs
<1>2. q \in 0..Last(e) /\ Len(received'[e]) \in Heard(e, q)
  BY DEF Moves
<1>3. Len(sent'[e]) = Said(e, q)
  <2>1. CASE p < 6
    BY <2>1 DEF Moves
  <2>2. CASE p >= 6
    <3>1. ~(p < 6)
      BY <2>2
    <3> QED
      BY <2>2, <3>1 DEF Moves
  <2> QED
    BY <2>1, <2>2
<1>4. IF q = Last(e) THEN Len(sent'[e]) >= Words(e) ELSE Len(sent'[e]) = Said(e, q)
  BY <1>1, <1>3
<1>5. IF e # Sender /\ q = Last(e) THEN Finds(Len(received'[e]), todo'[e], found')
      ELSE todo'[e] = Ahead(e, q)
  BY DEF Moves
<1> HIDE DEF q
<1>6. At(e, q)'
  BY <1>2, <1>4, <1>5, AtNext
<1> QED
  BY <1>6 DEF q

LEMMA TalkPut ==
  ASSUME LinkInv, TalkInv, NEW e \in Ends, PutPart(e)
  PROVE  TalkInv'
<1> DEFINE o == Peer(e)
<1>0. o \in Ends /\ o # e
  BY EndsAre
<1>1. Open /\ refused' = refused
  BY DEF PutPart, Doing, Open
<1>2. todo[e] # <<>> /\ Head(todo[e]).do = "put"
  BY DEF PutPart, Doing
<1>3. /\ todo' = [todo EXCEPT ![e] = Tail(@)]
      /\ UNCHANGED choices /\ UNCHANGED <<reader, found, sent, received>>
  BY DEF PutPart
<1>4. /\ Choices /\ Shapes /\ \E T : todo[e] \in Seq(T)
      /\ reader[e] \in Readers(Parts)
  BY <1>1, EndIs
<1>5. todo'[e] = Tail(todo[e]) /\ todo'[o] = todo[o]
  BY <1>0, <1>3, <1>4 DEF Shapes
<1>6. Talks(e) /\ Talks(o)
  BY <1>0 DEF TalkInv
<1>7. Talks(o)'
  BY <1>0, <1>3, <1>5, <1>6, OthersStay
<1>8. PICK p \in Nat : At(e, p) /\ Tally(e, p)
  BY <1>6 DEF Talks
<1>9. Moves(e, p)
  BY <1>2, <1>4, <1>8, MovesOn
<1>10. p < 6
  <2>1. Head(todo[e]) = Write(Says(e, Len(sent[e]) + 1)) => Head(todo[e]).do = "write"
    BY DEF Write
  <2> QED
    BY <1>2, <1>9, <2>1 DEF Moves
<1>11. p \in 0..5 /\ HandshakeDo(e, p + 1) = "put" /\ Len(received[e]) = 0
  BY <1>2, <1>9, <1>10 DEF Moves
<1>12. Gets(e, p + 1) = Gets(e, p)
  BY <1>11, HandshakeCounts
<1>13. At(e, p + 1)'
  BY <1>3, <1>4, <1>5, <1>9, <1>10, HasMoved
<1>14. Tally(e, p + 1)'
  <2>1. PICK N \in Nat, A \in Nat, V \in Nat :
          IsTally(e, p, reader[e], sent[e], 0, N, A, V)
    BY <1>8, <1>11 DEF Tally
  <2>2. IsTally(e, p + 1, reader[e], sent[e], 0, N, A, V)
    BY <1>4, <1>11, <1>12, <2>1, TallyPut
  <2> QED
    BY <1>3, <1>11, <2>2 DEF Tally
<1>15. Speech(e)'
  BY <1>3, <1>6, SpeechStays DEF Talks
<1>16. Talks(e)'
  <2>1. p + 1 \in Nat
    OBVIOUS
  <2> QED
    BY <1>13, <1>14, <1>15, <2>1 DEF Talks
<1>17. announced = tracks => Calm'
  BY <1>1, Zenon DEF TalkInv, Calm
<1> QED
  BY <1>3, <1>7, <1>16, <1>17, TalkGoesOn

LEMMA TalkGet ==
  ASSUME LinkInv, TalkInv, NEW e \in Ends, GetPart(e)
  PROVE  TalkInv'
<1> DEFINE o == Peer(e)
<1>0. o \in Ends /\ o # e
  BY EndsAre
<1>1. Open /\ refused' = refused
  BY DEF GetPart, Doing, Open
<1>2. todo[e] # <<>> /\ Head(todo[e]).do = "get"
  BY DEF GetPart, Doing
<1>3. /\ todo' = [todo EXCEPT ![e] = Tail(@)] /\ reader' = [reader EXCEPT ![e] = Counted(@, 1)]
      /\ UNCHANGED choices /\ UNCHANGED <<found, sent, received>>
  BY DEF GetPart
<1>4. /\ Choices /\ Shapes /\ \E T : todo[e] \in Seq(T)
      /\ reader[e] \in Readers(Parts)
  BY <1>1, EndIs
<1>5. /\ todo'[e] = Tail(todo[e]) /\ todo'[o] = todo[o]
      /\ reader'[e] = Counted(reader[e], 1) /\ reader'[o] = reader[o]
  BY <1>0, <1>3, <1>4 DEF Shapes
<1>6. Talks(e) /\ Talks(o)
  BY <1>0 DEF TalkInv
<1>7. Talks(o)'
  BY <1>0, <1>3, <1>5, <1>6, OthersStay
<1>8. PICK p \in Nat : At(e, p) /\ Tally(e, p)
  BY <1>6 DEF Talks
<1>9. Moves(e, p)
  BY <1>2, <1>4, <1>8, MovesOn
<1>10. p < 6
  <2>1. Head(todo[e]) = Write(Says(e, Len(sent[e]) + 1)) => Head(todo[e]).do = "write"
    BY DEF Write
  <2> QED
    BY <1>2, <1>9, <2>1 DEF Moves
<1>11. p \in 0..5 /\ HandshakeDo(e, p + 1) = "get" /\ Len(received[e]) = 0
  BY <1>2, <1>9, <1>10 DEF Moves
<1>12. Gets(e, p + 1) = Gets(e, p) + 1 /\ Gets(e, p) < 3
  BY <1>11, HandshakeCounts
<1>13. At(e, p + 1)'
  BY <1>3, <1>4, <1>5, <1>9, <1>10, HasMoved
<1>14. Tally(e, p + 1)'
  <2>1. PICK N \in Nat, A \in Nat, V \in Nat :
          IsTally(e, p, reader[e], sent[e], 0, N, A, V)
    BY <1>8, <1>11 DEF Tally
  <2>2. IsTally(e, p + 1, reader'[e], sent'[e], Len(received'[e]), N + 1, A, V)
    BY <1>3, <1>4, <1>5, <1>11, <1>12, <2>1, TallyGet
  <2>3. N + 1 \in Nat
    OBVIOUS
  <2> QED
    BY <2>2, <2>3 DEF Tally
<1>15. Speech(e)'
  BY <1>3, <1>6, SpeechStays DEF Talks
<1>16. Talks(e)'
  <2>1. p + 1 \in Nat
    OBVIOUS
  <2> QED
    BY <1>13, <1>14, <1>15, <2>1 DEF Talks
<1>17. announced = tracks => Calm'
  BY <1>1, Zenon DEF TalkInv, Calm
<1> QED
  BY <1>3, <1>7, <1>16, <1>17, TalkGoesOn

LEMMA TalkWrite ==
  ASSUME LinkInv, TalkInv, NEW e \in Ends, WriteMessage(e)
  PROVE  TalkInv'
<1> DEFINE o == Peer(e)
<1> DEFINE m == Head(todo[e]).msg
<1>0. o \in Ends /\ o # e
  BY EndsAre
<1>1. Open /\ refused' = refused
  BY DEF WriteMessage, Doing, Open
<1>2. todo[e] # <<>> /\ Head(todo[e]).do = "write"
  BY DEF WriteMessage, Doing
<1>3. /\ todo' = [todo EXCEPT ![e] = Tail(@)] /\ sent' = [sent EXCEPT ![e] = Append(@, m)]
      /\ UNCHANGED choices /\ UNCHANGED <<reader, found, received>>
  BY DEF WriteMessage, Writes
<1>4. /\ Choices /\ Shapes /\ \E T : todo[e] \in Seq(T)
      /\ sent[e] \in Seq(Messages(Parts))
  BY <1>1, EndIs
<1>5. /\ todo'[e] = Tail(todo[e]) /\ todo'[o] = todo[o]
      /\ sent'[e] = Append(sent[e], m) /\ sent'[o] = sent[o]
  BY <1>0, <1>3, <1>4 DEF Shapes
<1>6. Talks(e) /\ Talks(o)
  BY <1>0 DEF TalkInv
<1>7. Talks(o)'
  BY <1>0, <1>3, <1>5, <1>6, OthersStay
<1>8. PICK p \in Nat : At(e, p) /\ Tally(e, p)
  BY <1>6 DEF Talks
<1>9. Moves(e, p)
  BY <1>2, <1>4, <1>8, MovesOn
<1>10. p >= 6
  <2> SUFFICES ASSUME p < 6 PROVE FALSE
    OBVIOUS
  <2>1. HandshakeDo(e, p + 1) = "write"
    BY <1>2, <1>9 DEF Moves
  <2> QED
    BY <2>1 DEF HandshakeDo
<1>11. m = Says(e, Len(sent[e]) + 1) /\ Len(sent[e]) + 1 \in 1..Words(e)
  <2>1. /\ Head(todo[e]) = Write(Says(e, Len(sent[e]) + 1))
        /\ Len(sent[e]) + 1 \in 1..Words(e)
    BY <1>9, <1>10 DEF Moves
  <2> QED
    BY <2>1 DEF Write
<1>12. m.type # "Acknowledge"
  BY <1>4, <1>11, SaysAre DEF Plain
<1>13. m \in Messages(Parts)
  <2>1. Steady
    BY <1>1 DEF LinkInv
  <2>2. PICK h \in [Ends -> 0..6] : \A y \in Ends : Goes(h, y)
    BY <2>1 DEF Steady
  <2>3. h[e] \in 0..6 /\ Program(e, h[e], todo[e])
    BY <2>2, SteadyIs
  <2>4. AllSteps(todo[e])
    BY <1>2, <2>3, AmongSteps
  <2>5. IsStep(Head(todo[e]))
    BY <1>2, <2>4, StepsTail
  <2> QED
    BY <1>2, <2>5 DEF IsStep, Sound
<1> HIDE DEF m
<1>14. At(e, p + 1)'
  <2>1. ~(p < 6) /\ Len(sent'[e]) = Len(sent[e]) + 1
    BY <1>4, <1>5, <1>10, <1>13
  <2> QED
    BY <1>3, <1>4, <1>5, <1>9, <2>1, HasMoved
<1>15. Tally(e, p + 1)'
  <2>1. PICK N \in Nat, A \in Nat, V \in Nat :
          IsTally(e, p, reader[e], sent[e], Len(received[e]), N, A, V)
    BY <1>8 DEF Tally
  <2>2. p + 1 \in Nat /\ p + 1 >= 6
    BY <1>10
  <2>3. IsTally(e, p + 1, reader[e], Append(sent[e], m), Len(received[e]), N, A, V)
    BY <1>4, <1>10, <1>12, <1>13, <2>1, <2>2, TallyWrite
  <2> QED
    BY <1>3, <1>5, <2>3 DEF Tally
<1>16. Speech(e)'
  <2>1. IF Len(sent[e]) + 1 <= Words(e) THEN m = Says(e, Len(sent[e]) + 1) ELSE Beyond(e, m)
    BY <1>11
  <2> QED
    BY <1>3, <1>4, <1>5, <1>6, <1>13, <2>1, SpeechGoesOn DEF Talks
<1>17. Talks(e)'
  <2>1. p + 1 \in Nat
    OBVIOUS
  <2> QED
    BY <1>14, <1>15, <1>16, <2>1 DEF Talks
<1>18. announced = tracks => Calm'
  BY <1>1, Zenon DEF TalkInv, Calm
<1> QED
  BY <1>3, <1>7, <1>17, <1>18, TalkGoesOn

LEMMA TalkUnit ==
  ASSUME LinkInv, TalkInv, NEW e \in Ends, e = Sender, WriteUnit
  PROVE  TalkInv'
<1> DEFINE o == Peer(e)
<1>0. o \in Ends /\ o # e
  BY EndsAre
<1>1. Open /\ refused' = refused
  BY DEF WriteUnit, Open
<1>2. todo[e] = <<>> /\ UNCHANGED choices /\ UNCHANGED <<reader, todo, found, received>>
  BY DEF WriteUnit
<1>3. /\ Choices /\ Shapes /\ sent[e] \in Seq(Messages(Parts))
  BY <1>0, <1>1, EndIs
<1>4. PICK m \in Messages(Parts) : /\ m.type \in tracks /\ What(m) = <<"unit">>
                                   /\ sent' = [sent EXCEPT ![e] = Append(@, m)]
  <2>1. PICK t \in tracks, len \in BodyLens, gap \in Gaps :
          LET ts == writer[e].streams[StreamOf(t)].ts + gap
          IN  ts >= 0 /\ Writes(e, Unit(t, ts, len), wire)
    BY DEF WriteUnit
  <2> DEFINE ts == writer[e].streams[StreamOf(t)].ts + gap
  <2>2. t \in {"audio", "video"} /\ len \in 1..MaxBodySize /\ gap \in Int
    BY <1>3, <2>1, LinkAssumption DEF Choices, Kinds
  <2>3. ts \in Nat
    <3>0. PICK h \in [Ends -> 0..6] : \A y \in Ends : Goes(h, y)
      BY <1>1 DEF LinkInv, Steady
    <3>1. writer[e] \in Writers
      BY <1>0, <3>0, SteadyIs, SettingsAreSound, LinkWrites
    <3>2. StreamOf(t) \in ChunkStreams
      BY <2>2, Streams DEF StreamOf
    <3>3. writer[e].streams[StreamOf(t)].ts \in Nat
      BY <3>1, <3>2 DEF Writers, WriterStreams
    <3> QED
      BY <2>1, <2>2, <3>3
  <2> HIDE DEF ts
  <2>4. Sound(Unit(t, ts, len)) /\ Unit(t, ts, len).type = t
    BY <2>2, <2>3, MediaAreSound
  <2>5. What(Unit(t, ts, len)) = <<"unit">>
    <3>1. len \in Nat \ {0}
      BY <2>2, ChunkAssumption
    <3> QED
      BY <3>1, MsgFields DEF Unit, IsMsg
  <2>6. sent' = [sent EXCEPT ![e] = Append(@, Unit(t, ts, len))]
    BY <2>1 DEF Writes, ts
  <2> QED
    BY <2>1, <2>4, <2>5, <2>6 DEF Sound
<1>5. sent'[e] = Append(sent[e], m) /\ sent'[o] = sent[o]
  BY <1>0, <1>3, <1>4 DEF Shapes
<1>6. Talks(e) /\ Talks(o)
  BY <1>0 DEF TalkInv
<1>7. Talks(o)'
  BY <1>0, <1>2, <1>5, <1>6, OthersStay
<1>8. PICK p \in Nat : At(e, p) /\ Tally(e, p)
  BY <1>6 DEF Talks
<1>9. p = Last(e) /\ Last(e) \in 15..23
  <2>1. Last(e) \in 15..23 /\ Waits(e) \subseteq 6..(Last(e) - 1)
    BY <1>0, <1>3, LastIs
  <2>2. p \in 0..Last(e) /\ todo[e] = Ahead(e, p)
    BY <1>8 DEF At
  <2> SUFFICES ASSUME p < Last(e) PROVE FALSE
    BY <2>1, <2>2
  <2>3. Stop(e, p) \in Nat /\ p + 1 <= Stop(e, p)
    <3>1. CASE p < 6
      <4>1. p \in 0..5
        BY <3>1
      <4> QED
        BY <1>0, <1>3, <4>1, EarlySteps
    <3>2. CASE p >= 6 /\ p \notin Waits(e)
      <4>1. p \in 6..(Last(e) - 1)
        BY <2>1, <3>2
      <4> QED
        BY <1>0, <1>3, <3>2, <4>1, WriteSteps
    <3>3. CASE p \in Waits(e)
      BY <1>0, <1>3, <3>3, WaitSteps
    <3> QED
      BY <3>1, <3>2, <3>3
  <2>4. Ahead(e, p) # <<>>
    <3> DEFINE n == Stop(e, p) - p
    <3> DEFINE F(i) == StepAt(e, p + i)
    <3>1. Ahead(e, p) = [i \in 1..n |-> F(i)] /\ n \in Nat \ {0}
      BY <2>3 DEF Ahead
    <3> HIDE DEF F, n
    <3> QED
      BY <3>1
  <2> QED
    BY <1>2, <2>2, <2>4
<1>10. Len(sent[e]) >= Words(e) /\ Words(e) \in 6..14 /\ Len(sent[e]) \in Nat
  BY <1>0, <1>3, <1>8, <1>9, LastIs DEF At
<1>11. At(e, p)'
  <2>1. Len(sent'[e]) = Len(sent[e]) + 1
    BY <1>3, <1>5
  <2>2. p \in 0..Last(e) /\ Len(received'[e]) \in Heard(e, p) /\ todo'[e] = Ahead(e, p)
    BY <1>2, <1>8 DEF At
  <2>3. IF p = Last(e) THEN Len(sent'[e]) >= Words(e) ELSE Len(sent'[e]) = Said(e, p)
    BY <1>9, <1>10, <2>1
  <2>4. IF e # Sender /\ p = Last(e) THEN Finds(Len(received'[e]), todo'[e], found')
        ELSE todo'[e] = Ahead(e, p)
    BY <2>2
  <2> QED
    BY <1>0, <1>2, <2>2, <2>3, <2>4, AtNext
<1>12. m.type # "Acknowledge"
  BY <1>3, <1>4 DEF Choices, Kinds
<1>13. Tally(e, p)'
  <2>1. PICK N \in Nat, A \in Nat, V \in Nat :
          IsTally(e, p, reader[e], sent[e], Len(received[e]), N, A, V)
    BY <1>8 DEF Tally
  <2>2. p >= 6
    BY <1>9
  <2>3. IsTally(e, p, reader[e], Append(sent[e], m), Len(received[e]), N, A, V)
    BY <1>0, <1>3, <1>12, <2>1, <2>2, TallyWrite
  <2>4. IsTally(e, p, reader'[e], sent'[e], Len(received'[e]), N, A, V)
    BY <1>2, <1>5, <2>3
  <2> QED
    BY <2>4 DEF Tally
<1>14. Speech(e)'
  <2>1. Beyond(e, m)
    BY <1>4 DEF Beyond
  <2>2. ~(Len(sent[e]) + 1 <= Words(e))
    BY <1>10
  <2>3. IF Len(sent[e]) + 1 <= Words(e) THEN m = Says(e, Len(sent[e]) + 1) ELSE Beyond(e, m)
    BY <2>1, <2>2
  <2> QED
    BY <1>2, <1>3, <1>4, <1>5, <1>6, <2>3, SpeechGoesOn DEF Talks
<1>15. Talks(e)'
  BY <1>11, <1>13, <1>14 DEF Talks
<1>16. announced = tracks => Calm'
  BY <1>1, Zenon DEF TalkInv, Calm
<1> QED
  BY <1>0, <1>2, <1>7, <1>15, <1>16, TalkGoesOn
-----------------------------------------------------------------------------
(* Arithmetic of the counters: they count bytes modulo CountMod, and are never further
   apart than that. *)
LEMMA ModMinus ==
  ASSUME NEW x \in Nat, NEW y \in Nat, y <= x, NEW T \in Nat \ {0}, x - y < T
  PROVE  ((x % T) - (y % T)) % T = x - y
<1> DEFINE a == x % T
<1> DEFINE b == y % T
<1> DEFINE u == x \div T
<1> DEFINE v == y \div T
<1>1. a \in 0..(T - 1) /\ b \in 0..(T - 1) /\ u \in Nat /\ v \in Nat
      /\ x = T * u + a /\ y = T * v + b
  BY ModOf
<1> HIDE DEF a, b, u, v
<1>2. x - y = T * (u - v) + (a - b)
  BY <1>1
<1> DEFINE k == u - v
<1>3. k \in Int /\ x - y = T * k + (a - b)
  BY <1>1, <1>2
<1> HIDE DEF k
<1>4. k \in {0, 1}
  <2>1. ~(k >= 2)
    <3> SUFFICES ASSUME k >= 2 PROVE FALSE
      OBVIOUS
    <3>1. T * k >= T * 2
      BY <1>3
    <3> QED
      BY <1>1, <1>3, <3>1
  <2>2. ~(k <= -1)
    <3> SUFFICES ASSUME k <= -1 PROVE FALSE
      OBVIOUS
    <3>1. T * k <= -T
      BY <1>3
    <3> QED
      BY <1>1, <1>3, <3>1
  <2> QED
    BY <1>3, <2>1, <2>2
<1>5. CASE k = 0
  <2>1. a - b = x - y /\ a - b \in 0..(T - 1)
    BY <1>1, <1>3, <1>5
  <2>2. \A z \in 0..(T - 1) : z % T = z
    OBVIOUS
  <2> QED
    BY <2>1, <2>2 DEF a, b
<1>6. CASE k = 1
  <2>1. a - b = (x - y) - T /\ x - y \in 0..(T - 1)
    BY <1>1, <1>3, <1>6
  <2>2. \A z \in 0..(T - 1) : (z - T) % T = z
    OBVIOUS
  <2> QED
    BY <2>1, <2>2 DEF a, b
<1> QED
  BY <1>4, <1>5, <1>6

(* What is written last is what the last acknowledgement tells. *)
LEMMA AckTells ==
  ASSUME NEW s \in Seq(Messages(Parts)), NEW count \in Int, NEW V, count = V % CountMod
  PROVE  LastAck(Append(s, Acknowledge(count)), V)
<1> DEFINE m == Acknowledge(count)
<1> DEFINE t == Append(s, m)
<1>1. m \in Messages(Parts) /\ m.type = "Acknowledge" /\ What(m) = <<"bytes", count>>
  BY AcknowledgeIsSound DEF Sound
<1> HIDE DEF m
<1>2. Len(s) \in Nat /\ Len(t) = Len(s) + 1 /\ t[Len(s) + 1] = m
      /\ DOMAIN t = 1..Len(t)
  BY <1>1, AppendProperties
<1> HIDE DEF t
<1> DEFINE acks == {i \in DOMAIN t : t[i].type = "Acknowledge"}
<1>3. Len(s) + 1 \in acks
  BY <1>1, <1>2
<1>4. ASSUME NEW i \in acks, \A k \in acks : k <= i
      PROVE  What(t[i])[2] = V % CountMod
  <2>1. Len(s) + 1 <= i /\ i \in 1..(Len(s) + 1)
    BY <1>2, <1>3, <1>4
  <2>2. i = Len(s) + 1
    BY <1>2, <2>1
  <2> QED
    BY <1>1, <1>2, <2>2
<1>5. LastAck(t, V)
  <2>1. acks # {}
    BY <1>3
  <2> QED
    BY <1>4, <2>1 DEF LastAck
<1> QED
  BY <1>5 DEF t, m

(* w more bytes are counted, and acknowledged if they are more than a window. *)
LEMMA CountsOn ==
  ASSUME NEW rd \in Readers(Parts), NEW r, NEW a, NEW w \in Nat, w <= ChunkSize + 1,
         NEW s \in Seq(Messages(Parts)), NEW N \in Nat, NEW A \in Nat, NEW V \in Nat,
         IsCounted(rd, s, N, A, V),
         r.count = (rd.count + w) % CountMod, r.lastAck = rd.lastAck, r.window = rd.window,
         a.count = r.count, a.window = r.window,
         a.lastAck = IF AckNeeded(r) THEN (r.lastAck + r.window) % CountMod ELSE r.lastAck,
         rd.window = 0 => N + w <= Window
  PROVE  /\ AckNeeded(r) => N + w > Window
         /\ \E A2, V2 \in Nat :
              IsCounted(a, IF AckNeeded(r) THEN Append(s, Acknowledge(r.count)) ELSE s,
                        N + w, A2, V2)
<1>1. /\ Window \in Nat /\ Window > 0 /\ CountMod \in Nat \ {0} /\ ChunkSize \in Nat
      /\ Window >= ChunkSize + 1 /\ CountMod > Window + ChunkSize + 1
  BY LinkAssumption, ChunkAssumption
<1>2. /\ rd.count = N % CountMod /\ rd.lastAck = A % CountMod
      /\ A <= V /\ V <= N /\ N - A <= Window /\ rd.window \in {0, Window}
      /\ rd.window = 0 => V = 0
      /\ LastAck(s, V)
  BY DEF IsCounted
<1> DEFINE M == N + w
<1>3. M \in Nat /\ A <= M /\ V <= M /\ M - A < CountMod /\ M - A <= Window + w
  BY <1>1, <1>2
<1>4. r.count = M % CountMod
  <2>1. ((N % CountMod) + w) % CountMod = (N + w) % CountMod
    BY <1>1, ModAdd
  <2> QED
    BY <1>2, <2>1
<1> HIDE DEF M
<1>5. (r.count - r.lastAck) % CountMod = M - A
  <2>1. ((M % CountMod) - (A % CountMod)) % CountMod = M - A
    BY <1>1, <1>3, ModMinus
  <2> QED
    BY <1>2, <1>4, <2>1
<1>6. CASE AckNeeded(r)
  <2>1. r.window = Window /\ M - A > Window
    BY <1>2, <1>5, <1>6 DEF AckNeeded
  <2> DEFINE A2 == A + Window
  <2>2. A2 \in Nat /\ A2 <= M /\ M - A2 <= Window
    BY <1>1, <1>3, <2>1
  <2>3. a.lastAck = A2 % CountMod
    <3>1. ((A % CountMod) + Window) % CountMod = (A + Window) % CountMod
      BY <1>1, ModAdd
    <3> QED
      BY <1>2, <1>6, <2>1, <3>1
  <2>4. LastAck(Append(s, Acknowledge(r.count)), M)
    <3>1. r.count \in Int
      BY <1>1, <1>3, <1>4, ModOf
    <3> QED
      BY <1>4, <3>1, AckTells
  <2> HIDE DEF A2
  <2>5. a.count = M % CountMod /\ a.window = Window /\ Window # 0 /\ M <= M
    BY <1>1, <1>3, <1>4, <2>1
  <2>6. IsCounted(a, Append(s, Acknowledge(r.count)), M, A2, M)
    BY <2>2, <2>3, <2>4, <2>5 DEF IsCounted
  <2>7. M > Window
    BY <1>1, <1>3, <2>1
  <2> QED
    BY <1>3, <1>6, <2>2, <2>6, <2>7 DEF M
<1>7. CASE ~AckNeeded(r)
  <2>1. M - A <= Window
    <3>1. CASE rd.window = 0
      BY <1>1, <1>3, <3>1 DEF M
    <3>2. CASE rd.window = Window
      <4>1. ~(M - A > Window)
        BY <1>1, <1>5, <1>7, <3>2 DEF AckNeeded
      <4> QED
        BY <1>1, <1>3, <4>1
    <3> QED
      BY <1>2, <3>1, <3>2
  <2>2. a.count = M % CountMod /\ a.lastAck = A % CountMod /\ a.window = rd.window
    BY <1>2, <1>4, <1>7
  <2>3. IsCounted(a, s, M, A, V)
    BY <1>2, <1>3, <2>1, <2>2 DEF IsCounted
  <2> QED
    BY <1>7, <2>3 DEF M
<1> QED
  BY <1>6, <1>7
-----------------------------------------------------------------------------
(* A chunk is read: what it does to the counters, and to what was begun. *)
LEMMA ReadBody ==
  ASSUME NEW rd \in Readers(Parts), NEW c, c.cs \in ChunkStreams, c.body \in Seq(Parts)
  PROVE  Read(rd, c).streams[c.cs].body = rd.streams[c.cs].body \o c.body
<1> DEFINE s == rd.streams[c.cs]
<1> DEFINE t == Headed(s, c.head)
<1>1. s \in ReaderStreams(Parts) /\ rd.streams \in [ChunkStreams -> ReaderStreams(Parts)]
  BY DEF Readers
<1>2. t.body = s.body
  <2> DEFINE h == c.head
  <2>1. t = Headed(s, h) /\ s \in ReaderStreams(Parts)
    BY <1>1
  <2> HIDE DEF s, h, t
  <2>2. CASE h.fmt = 0
    BY <2>1, <2>2 DEF Headed, ReaderStreams
  <2>3. CASE h.fmt = 1
    BY <2>1, <2>3 DEF Headed, ReaderStreams
  <2>4. CASE h.fmt = 2
    BY <2>1, <2>4 DEF Headed, ReaderStreams
  <2>5. CASE h.fmt # 0 /\ h.fmt # 1 /\ h.fmt # 2
    <3>1. t = IF s.body # <<>> THEN s ELSE [s EXCEPT !.ts = @ + s.delta]
      BY <2>1, <2>5 DEF Headed
    <3> QED
      BY <2>1, <3>1 DEF ReaderStreams
  <2> QED
    BY <2>2, <2>3, <2>4, <2>5
<1>3. Read(rd, c) = [rd EXCEPT !.streams[c.cs] = [t EXCEPT !.body = @ \o c.body]]
  BY DEF Read
<1>4. "body" \in DOMAIN t
  <2> HIDE DEF s
  <2> QED
    BY <1>1 DEF Headed, ReaderStreams
<1> HIDE DEF t
<1>5. Read(rd, c).streams[c.cs] = [t EXCEPT !.body = @ \o c.body]
  BY <1>1, <1>3 DEF Readers
<1>6. [t EXCEPT !.body = @ \o c.body].body = t.body \o c.body
  BY <1>4
<1> QED
  BY <1>2, <1>5, <1>6

(* The chunk c is the next of the message m, after n others; r counts it. *)
IsPart(e, c, n, m, r, a) ==
  LET rd == reader[e]
      L  == Len(rd.streams[c.cs].body)
  IN  /\ n \in Nat /\ n = Len(received[e]) /\ n + 1 \in DOMAIN sent[Peer(e)]
      /\ m = sent[Peer(e)][n + 1]
      /\ c.cs \in ChunkStreams /\ Weight(c) \in Nat
      /\ Weight(c) = Len(c.body) + 1 /\ Len(c.body) \in 1..rd.chunkSize
      /\ L \in Nat /\ Len(a.streams[c.cs].body) = L + Len(c.body)
      /\ Len(m.body) \in Nat /\ L + Len(c.body) <= Len(m.body)
      /\ Complete(r, c) => L + Len(c.body) = Len(m.body)
      /\ \A cs \in ChunkStreams \ {c.cs} : rd.streams[cs].body = <<>>
      /\ r.count = (rd.count + Weight(c)) % CountMod
      /\ r.lastAck = rd.lastAck /\ r.window = rd.window
      /\ a.count = r.count /\ a.window = r.window /\ a.chunkSize = rd.chunkSize
      /\ a.lastAck = IF AckNeeded(r) THEN (r.lastAck + r.window) % CountMod ELSE r.lastAck

LEMMA ReadsPart ==
  ASSUME LinkInv, NEW e \in Ends, ReadChunk(e), NEW c, c = Head(wire[Peer(e)]),
         IsReadable(reader[e], c), NEW r, r = Counted(Read(reader[e], c), Weight(c)),
         NEW a, a = AckedOf(r), NEW n, n = Len(received[e]),
         NEW m, m = sent[Peer(e)][n + 1]
  PROVE  /\ IsPart(e, c, n, m, r, a)
         /\ IsReadBy(e, c, r, a, [wire EXCEPT ![Peer(e)] = Tail(@)])
         /\ Linked(0, wire[Peer(e)], writer[Peer(e)], reader[e], sent[Peer(e)], received[e])
         /\ a \in Readers(Parts) /\ a.streams = Read(reader[e], c).streams
         /\ a.chunkSize = reader[e].chunkSize
         /\ Complete(r, c) <=> Complete(a, c)
         /\ r.count \in Nat
<1> DEFINE p == Peer(e)
<1> DEFINE rd == Read(reader[e], c)
<1>0. p \in Ends /\ p # e /\ Peer(p) = e /\ Ends = {e, p}
  BY EndsAre
<1>1. /\ Open /\ wire[p] # <<>>
      /\ todo[e] = <<>> \/ Head(todo[e]).do \in {"await", "serve", "detect"}
      /\ IsReadable(reader[e], c) /\ Framed(reader[e], c) =>
           IsReadBy(e, c, r, a, [wire EXCEPT ![p] = Tail(@)])
  BY ReadChunkIs
<1>3. PICK h \in [Ends -> 0..6] : \A y \in Ends : Goes(h, y)
  BY <1>1 DEF LinkInv, Steady
<1>4. /\ h[e] \in 0..6 /\ h[p] \in 0..6 /\ Program(e, h[e], todo[e])
      /\ InFlight(h, p) = Puts(p, h[p]) - Gets(e, h[e])
      /\ Linked(InFlight(h, p), wire[p], writer[p], reader[e], sent[p], received[e])
  BY <1>3, SteadyIs
<1>5. h[e] = 6
  BY <1>1, <1>4, ProgramIsSteps
<1>6. InFlight(h, p) = 0
  <2>1. InFlight(h, p) \in Nat
    BY <1>4 DEF Linked, OnWire
  <2>2. Puts(p, h[p]) \in 0..3 /\ Gets(e, h[e]) = 3
    BY <1>0, <1>4, <1>5, HandshakeCounts
  <2> QED
    BY <1>4, <2>1, <2>2
<1>7. Linked(0, wire[p], writer[p], reader[e], sent[p], received[e])
  BY <1>4, <1>6
<1>8. IsFirstChunk(reader[e], sent[p], received[e], c) /\ reader[e] \in Readers(Parts)
  <2>1. reader[e] \in Readers(Parts)
    BY <1>7 DEF Linked, InStep
  <2> QED
    BY <1>1, <1>7, <2>1, LinkFirst
<1>9. /\ Framed(reader[e], c) /\ rd \in Readers(Parts)
      /\ rd = [reader[e] EXCEPT !.streams = rd.streams]
      /\ Len(rd.streams[c.cs].body) \in 1..Len(m.body)
      /\ Complete(rd, c) <=> Len(rd.streams[c.cs].body) = Len(m.body)
  BY <1>8, Zenon DEF IsFirstChunk, IsReadable
<1>10. /\ n \in Nat /\ n + 1 \in DOMAIN sent[p] /\ Sound(m)
       /\ c.cs \in ChunkStreams
       /\ c.body \in Seq(Parts) /\ Len(c.body) \in 1..reader[e].chunkSize
       /\ \A cs \in ChunkStreams \ {c.cs} : reader[e].streams[cs].body = <<>>
  BY <1>8, Zenon DEF IsFirstChunk
<1>11. IsReadBy(e, c, r, a, [wire EXCEPT ![p] = Tail(@)])
  BY <1>1, <1>9
<1>12. Weight(c) \in Nat /\ Weight(c) = Len(c.body) + 1
  BY <1>10 DEF Weight
<1>13. /\ r \in Readers(Parts) /\ a \in Readers(Parts)
       /\ r.streams = rd.streams /\ a.streams = rd.streams
       /\ a.chunkSize = rd.chunkSize
       /\ r.window = rd.window /\ a.window = rd.window
       /\ r.count = (rd.count + Weight(c)) % CountMod /\ a.count = r.count
       /\ r.lastAck = rd.lastAck /\ r.count \in Nat
       /\ a.lastAck = (IF AckNeeded(r) THEN (r.lastAck + r.window) % CountMod ELSE r.lastAck)
  <2> HIDE DEF rd
  <2> DEFINE w == Weight(c)
  <2>1. rd \in Readers(Parts) /\ r = Counted(rd, w) /\ w \in Nat
    BY <1>9, <1>12 DEF rd
  <2> HIDE DEF w
  <2>2. LET x == Counted(rd, w)
            y == AckedOf(x)
        IN  /\ x \in Readers(Parts) /\ y \in Readers(Parts)
            /\ x.streams = rd.streams /\ y.streams = rd.streams
            /\ y.chunkSize = rd.chunkSize
            /\ x.window = rd.window /\ y.window = rd.window
            /\ x.count = (rd.count + w) % CountMod /\ y.count = x.count
            /\ x.lastAck = rd.lastAck /\ x.count \in Nat
            /\ y.lastAck = (IF AckNeeded(x) THEN (x.lastAck + x.window) % CountMod
                            ELSE x.lastAck)
    BY <2>1, CountedIs
  <2> QED
    BY <2>1, <2>2 DEF w
<1>14. /\ rd.chunkSize = reader[e].chunkSize /\ rd.window = reader[e].window
       /\ rd.count = reader[e].count /\ rd.lastAck = reader[e].lastAck
  <2> DEFINE x == reader[e]
  <2> DEFINE y == rd.streams
  <2>1. x \in Readers(Parts) /\ rd = [x EXCEPT !.streams = y]
    BY <1>8, <1>9
  <2> HIDE DEF x, y, rd
  <2>2. /\ rd.chunkSize = x.chunkSize /\ rd.window = x.window
        /\ rd.count = x.count /\ rd.lastAck = x.lastAck
    BY <2>1 DEF Readers
  <2> QED
    BY <2>2 DEF x
<1>15. rd.streams[c.cs].body = reader[e].streams[c.cs].body \o c.body
  BY <1>8, <1>10, ReadBody
<1>16. /\ Len(reader[e].streams[c.cs].body) \in Nat
       /\ Len(rd.streams[c.cs].body) = Len(reader[e].streams[c.cs].body) + Len(c.body)
  <2>1. reader[e].streams[c.cs].body \in Seq(Parts)
    BY <1>8, <1>10 DEF Readers, ReaderStreams
  <2> DEFINE x == reader[e].streams[c.cs].body
  <2> DEFINE y == c.body
  <2>2. x \in Seq(Parts) /\ y \in Seq(Parts)
    BY <1>10, <2>1
  <2> HIDE DEF x, y
  <2>3. Len(x) \in Nat /\ Len(x \o y) = Len(x) + Len(y)
    BY <2>2
  <2> QED
    BY <1>15, <2>3 DEF x, y
<1>17. Complete(r, c) <=> Complete(rd, c)
  BY <1>13 DEF Complete
<1>18. Complete(r, c) <=> Complete(a, c)
  BY <1>13 DEF Complete
<1> HIDE DEF rd
<1>19. Len(m.body) \in Nat
  BY <1>10 DEF Sound, Messages
<1>20. IsPart(e, c, n, m, r, a)
  <2> DEFINE L == Len(reader[e].streams[c.cs].body)
  <2>1. L + Len(c.body) <= Len(m.body) /\ (Complete(r, c) => L + Len(c.body) = Len(m.body))
    <3>1. Len(rd.streams[c.cs].body) <= Len(m.body)
      BY <1>9, <1>19
    <3> QED
      BY <1>9, <1>16, <1>17, <3>1
  <2>2. L \in Nat /\ Len(a.streams[c.cs].body) = L + Len(c.body)
    BY <1>13, <1>16
  <2> QED
    BY <1>10, <1>12, <1>13, <1>14, <1>19, <2>1, <2>2 DEF IsPart
<1> QED
  BY <1>7, <1>11, <1>13, <1>14, <1>18, <1>20 DEF rd
(* What is read before anything is acknowledged. *)
EarlyOn(n, N, L) == N <= 3 + 2 * (PiecesOf(n) + L)

LEMMA ReadsEarly ==
  ASSUME NEW e \in Ends, NEW c, NEW n, NEW m, NEW r, NEW a, IsPart(e, c, n, m, r, a), Choices,
         NEW p \in Nat, p >= 6, NEW s, NEW N \in Nat, NEW A, NEW V,
         reader[e] \in Readers(Parts), IsTally(e, p, reader[e], s, n, N, A, V), n < 8,
         n + 1 <= Words(Peer(e)), m = Says(Peer(e), n + 1)
  PROVE  /\ EarlyOn(n, N + Weight(c), Len(a.streams[c.cs].body))
         /\ N + Weight(c) <= Window
         /\ Complete(r, c) => EarlyOn(n + 1, N + Weight(c), 0)
<1> DEFINE o == Peer(e)
<1> DEFINE w == Weight(c)
<1> DEFINE x == Len(c.body)
<1> DEFINE L == Len(reader[e].streams[c.cs].body)
<1> DEFINE M == Len(m.body)
<1>1. /\ n \in Nat /\ w = x + 1 /\ x \in Nat /\ x >= 1 /\ L \in Nat
      /\ Len(a.streams[c.cs].body) = L + x
      /\ L + x <= M /\ M \in Nat /\ (Complete(r, c) => L + x = M)
      /\ c.cs \in ChunkStreams
      /\ \A cs \in ChunkStreams \ {c.cs} : reader[e].streams[cs].body = <<>>
  <2>1. x \in 1..reader[e].chunkSize
    BY DEF IsPart
  <2>2. x \in Nat /\ x >= 1
    BY <2>1 DEF Readers
  <2> QED
    BY <2>2 DEF IsPart
<1>2. PICK cs \in ChunkStreams : N <= 3 + 2 * (PiecesOf(n) + Len(reader[e].streams[cs].body))
  BY DEF IsTally
<1>3. PiecesOf(n) \in Nat
  BY <1>1 DEF PiecesOf
<1>4. N <= 3 + 2 * (PiecesOf(n) + L)
  <2>1. CASE cs = c.cs
    BY <1>2, <2>1
  <2>2. CASE cs # c.cs
    <3>1. Len(reader[e].streams[cs].body) = 0
      BY <1>1, <2>2
    <3> HIDE DEF L
    <3> QED
      BY <1>1, <1>2, <1>3, <3>1
  <2> QED
    BY <2>1, <2>2
<1>5. M = IF n + 1 = 4 THEN 2 ELSE 1
  <2>1. o \in Ends /\ Words(o) \in 6..14
    BY EndsAre, LastIs
  <2>2. n + 1 \in 1..Words(o)
    BY <1>1, <2>1
  <2> QED
    BY <2>1, <2>2, SaysAre DEF Plain
<1>6. PiecesOf(n) + M = PiecesOf(n + 1) /\ PiecesOf(n + 1) <= 9 /\ PiecesOf(n + 1) \in Nat
  <2> HIDE DEF M
  <2> QED
    BY <1>1, <1>5 DEF PiecesOf
<1>7. Window \in Nat /\ Window > 20
  BY LinkAssumption
<1> HIDE DEF w, x, L, M
<1>8. N + w <= 3 + 2 * (PiecesOf(n) + (L + x))
  BY SMTT(30), <1>1, <1>3, <1>4
<1>9. N + w <= 3 + 2 * PiecesOf(n + 1)
  BY SMTT(30), <1>1, <1>3, <1>6, <1>8
<1>10. EarlyOn(n, N + w, Len(a.streams[c.cs].body))
  BY <1>1, <1>8 DEF EarlyOn
<1>11. EarlyOn(n + 1, N + w, 0)
  BY <1>6, <1>9 DEF EarlyOn
<1>12. N + w <= Window
  BY <1>1, <1>6, <1>7, <1>9
<1> QED
  BY <1>10, <1>11, <1>12 DEF w

(* The counters when a chunk was read of a message, or the last of it. *)
IsWord(e, n, m) == n < 8 => n + 1 <= Words(Peer(e)) /\ m = Says(Peer(e), n + 1)

Acks(s, r) == IF AckNeeded(r) THEN Append(s, Acknowledge(r.count)) ELSE s

HasRead(c, n, m, r, a, n2, rd2) ==
  \/ n2 = n /\ rd2 = a
  \/ /\ Complete(r, c) /\ n2 = n + 1 /\ rd2.count = a.count /\ rd2.lastAck = a.lastAck
     /\ rd2.window = (IF m.type = "SetWindowAckSize" THEN Window ELSE a.window)
     /\ rd2.chunkSize \in {a.chunkSize, ChunkSize}
     /\ \A cs \in ChunkStreams : rd2.streams[cs].body = <<>>

HasTally(e, q, rd, s, n) == \E N, A, V \in Nat : IsTally(e, q, rd, s, n, N, A, V)

AcksLate(r, n) == AckNeeded(r) => n >= 8

LEMMA TallyReads ==
  ASSUME NEW e \in Ends, NEW c, NEW n, NEW m, NEW r, NEW a, IsPart(e, c, n, m, r, a), Choices,
         NEW p \in Nat, p >= 6, Tally(e, p), reader[e] \in Readers(Parts),
         sent[e] \in Seq(Messages(Parts)), IsWord(e, n, m), NEW s2, s2 = Acks(sent[e], r),
         NEW n2, NEW rd2, NEW q \in Nat, q >= 6, HasRead(c, n, m, r, a, n2, rd2)
  PROVE  AcksLate(r, n) /\ HasTally(e, q, rd2, s2, n2)
<1> USE DEF IsWord, Acks, HasRead, HasTally, AcksLate
<1> DEFINE w == Weight(c)
<1> DEFINE rd == reader[e]
<1>1. PICK N \in Nat, A \in Nat, V \in Nat : IsTally(e, p, rd, sent[e], n, N, A, V)
  <2>1. n = Len(received[e])
    BY DEF IsPart
  <2> QED
    BY <2>1 DEF Tally
<1>2. /\ n \in Nat /\ c.cs \in ChunkStreams /\ w \in Nat
      /\ r.count = (rd.count + w) % CountMod
      /\ r.lastAck = rd.lastAck /\ r.window = rd.window
      /\ a.count = r.count /\ a.window = r.window /\ a.chunkSize = rd.chunkSize
      /\ a.lastAck = IF AckNeeded(r) THEN (r.lastAck + r.window) % CountMod ELSE r.lastAck
  BY DEF IsPart
<1>3. /\ IsCounted(rd, sent[e], N, A, V)
      /\ rd.chunkSize \in {InitialChunkSize, ChunkSize} /\ (rd.window = 0 => n = 0)
  BY <1>1 DEF IsTally
<1>4. w <= ChunkSize + 1
  <2>1. w = Len(c.body) + 1 /\ Len(c.body) \in 1..rd.chunkSize
    BY DEF IsPart
  <2>2. InitialChunkSize <= ChunkSize /\ ChunkSize \in Nat /\ InitialChunkSize \in Nat
    BY LinkAssumption, ChunkAssumption
  <2> HIDE DEF w
  <2> QED
    BY <1>3, <2>1, <2>2
<1>5. n < 8 => /\ EarlyOn(n, N + w, Len(a.streams[c.cs].body))
               /\ N + w <= Window
               /\ Complete(r, c) => EarlyOn(n + 1, N + w, 0)
  BY <1>1, ReadsEarly
<1>6. rd.window = 0 => N + w <= Window
  BY <1>3, <1>5
<1> HIDE DEF w, rd
<1>7. /\ AckNeeded(r) => N + w > Window
      /\ \E A2, V2 \in Nat : IsCounted(a, s2, N + w, A2, V2)
  <2>1. rd \in Readers(Parts)
    BY DEF rd
  <2>2. /\ AckNeeded(r) => N + w > Window
        /\ \E A2, V2 \in Nat :
             IsCounted(a, IF AckNeeded(r) THEN Append(sent[e], Acknowledge(r.count))
                          ELSE sent[e], N + w, A2, V2)
    BY <1>2, <1>3, <1>4, <1>6, <2>1, CountsOn
  <2> QED
    BY <2>2
<1>8. AckNeeded(r) => n >= 8
  <2>1. Window \in Nat /\ N + w \in Nat
    BY <1>2, LinkAssumption
  <2> QED
    BY <1>2, <1>5, <1>7, <2>1
<1>9. PICK A2 \in Nat, V2 \in Nat : IsCounted(a, s2, N + w, A2, V2)
  BY <1>7
<1>10. ~(q < 6) /\ N + w \in Nat
  BY <1>2
<1>11. CASE n2 = n /\ rd2 = a
  <2>1. n < 8 => \E cs \in ChunkStreams :
                   N + w <= 3 + 2 * (PiecesOf(n) + Len(a.streams[cs].body))
    BY <1>2, <1>5 DEF EarlyOn
  <2>2. a.window = 0 => n = 0
    BY <1>2, <1>3
  <2>3. IsTally(e, q, a, s2, n, N + w, A2, V2)
    BY <1>2, <1>3, <1>9, <1>10, <2>1, <2>2 DEF IsTally
  <2> QED
    BY <1>8, <1>10, <1>11, <2>3
<1>12. CASE /\ Complete(r, c) /\ n2 = n + 1 /\ rd2.count = a.count /\ rd2.lastAck = a.lastAck
            /\ rd2.window = (IF m.type = "SetWindowAckSize" THEN Window ELSE a.window)
            /\ rd2.chunkSize \in {a.chunkSize, ChunkSize}
            /\ \A cs \in ChunkStreams : rd2.streams[cs].body = <<>>
  <2>1. Window \in Nat /\ Window > 20
    BY LinkAssumption
  <2>2. rd2.window # 0
    <3>1. CASE a.window = 0
      <4>1. n = 0
        BY <1>2, <1>3, <3>1
      <4>2. m = Says(Peer(e), 0 + 1)
        BY <4>1
      <4>3. m = SetWindowAckSize
        BY <4>2 DEF Says
      <4>4. m.type = "SetWindowAckSize"
        BY <4>3, OtherFields DEF IsMsg
      <4> QED
        BY <1>12, <2>1, <4>4
    <3>2. CASE a.window # 0
      BY <1>12, <2>1, <3>2
    <3> QED
      BY <3>1, <3>2
  <2>3. IsCounted(rd2, s2, N + w, A2, V2)
    <3>1. rd2.window \in {0, Window}
      BY <1>9, <1>12 DEF IsCounted
    <3> QED
      BY <1>9, <1>12, <2>2, <3>1 DEF IsCounted
  <2>4. n2 < 8 => \E cs \in ChunkStreams :
                    N + w <= 3 + 2 * (PiecesOf(n2) + Len(rd2.streams[cs].body))
    <3> SUFFICES ASSUME n2 < 8
                 PROVE  N + w <= 3 + 2 * (PiecesOf(n2) + Len(rd2.streams[c.cs].body))
      BY <1>2
    <3>1. EarlyOn(n2, N + w, 0)
      BY <1>2, <1>5, <1>12
    <3>2. Len(rd2.streams[c.cs].body) = 0
      BY <1>2, <1>12
    <3> QED
      BY <3>1, <3>2 DEF EarlyOn
  <2>5. rd2.chunkSize \in {InitialChunkSize, ChunkSize}
    BY <1>2, <1>3, <1>12
  <2>6. IsTally(e, q, rd2, s2, n2, N + w, A2, V2)
    BY <1>10, <2>2, <2>3, <2>4, <2>5 DEF IsTally
  <2> QED
    BY <1>8, <1>10, <2>6
<1> QED
  BY <1>11, <1>12
-----------------------------------------------------------------------------
(* Which message an end has next, where it reads. *)
LEMMA ReadsAt ==
  ASSUME Choices, NEW e \in Ends, NEW p \in Nat, At(e, p), \E T : todo[e] \in Seq(T),
         todo[e] = <<>> => e # Sender,
         todo[e] = <<>> \/ Head(todo[e]).do \in {"await", "serve", "detect"}
  PROVE  p \in Waits(e) \/ (p = Last(e) /\ e # Sender)
<1>1. Last(e) \in 15..23 /\ p \in 0..Last(e)
  BY LastIs DEF At
<1>2. CASE p = Last(e) /\ e = Sender
  <2>1. todo[e] = Ahead(e, p) /\ Stop(e, p) = p
    BY <1>2, LastIs DEF At
  <2>2. todo[e] = [i \in 1..0 |-> StepAt(e, p + i)]
    BY <2>1 DEF Ahead
  <2> QED
    BY <1>2, <2>2
<1>3. CASE p < Last(e) /\ p \notin Waits(e)
  <2>1. todo[e] = Ahead(e, p)
    BY <1>3 DEF At
  <2>2. /\ Stop(e, p) \in Nat /\ p + 1 <= Stop(e, p) /\ Stop(e, p + 1) = Stop(e, p)
        /\ StepAt(e, p + 1).do \in {"put", "get", "write"}
    <3>1. CASE p < 6
      <4>1. p \in 0..5
        BY <3>1
      <4>2. HandshakeDo(e, p + 1) \in {"put", "get"}
        BY <4>1, HandshakeCounts
      <4> QED
        BY <4>1, <4>2, EarlySteps
    <3>2. CASE p >= 6
      <4>1. p \in 6..(Last(e) - 1)
        BY <1>1, <1>3, <3>2
      <4>2. StepAt(e, p + 1) = Write(Says(e, Said(e, p) + 1))
            /\ Stop(e, p + 1) = Stop(e, p) /\ p + 1 <= Stop(e, p) /\ Stop(e, p) \in Nat
        BY <1>3, <4>1, WriteSteps
      <4>3. Write(Says(e, Said(e, p) + 1)).do = "write"
        BY DEF Write
      <4> QED
        BY <4>2, <4>3
    <3> QED
      BY <3>1, <3>2
  <2>3. Ahead(e, p) # <<>> /\ Head(Ahead(e, p)) = StepAt(e, p + 1)
    BY <2>2, AheadGoesOn
  <2> QED
    BY <2>1, <2>2, <2>3
<1> QED
  BY <1>1, <1>2, <1>3

LEMMA NextWord ==
  ASSUME Choices, NEW e \in Ends, NEW p, NEW n \in Heard(e, p)
  PROVE  /\ p \in Waits(e) => n \in 0..7 /\ n + 1 <= Words(Peer(e))
         /\ p = Last(e) /\ e # Sender => n \in Nat /\ n >= 8
<1> DEFINE T == Len(Tracks)
<1> HIDE DEF T
<1>1. publish \in BOOLEAN /\ T \in 0..3
  BY TracksAre DEF Choices, T
<1>2. /\ Last(e) = IF e = "client" THEN IF publish THEN 17 + T ELSE 16
                   ELSE IF publish THEN 15 ELSE 20 + T
      /\ Words(Peer(e)) = IF e = "server" THEN IF publish THEN 8 + T ELSE 7
                          ELSE IF publish THEN 6 ELSE 11 + T
  BY <1>1 DEF Last, Words, Peer, Ends, T
<1>3. ASSUME p \in Waits(e)
      PROVE  n \in 0..7 /\ n + 1 <= Words(Peer(e))
  <2>1. CASE e = "client"
    BY <1>1, <1>2, <1>3, <2>1 DEF Waits, Heard
  <2>2. CASE e = "server"
    BY <1>1, <1>2, <1>3, <2>2 DEF Waits, Heard
  <2> QED
    BY <2>1, <2>2 DEF Ends
<1>4. ASSUME p = Last(e), e # Sender
      PROVE  n \in Nat /\ n >= 8
  <2>1. n \in Nat \ 0..7
    BY <1>1, <1>2, <1>4 DEF Heard, Sender, Ends
  <2> QED
    BY <2>1
<1> QED
  BY <1>3, <1>4

(* What is said to a client, and to a server, until it comes to the tracks. *)
LEMMA SaysToClient ==
  /\ \A i \in 1..3 : Says("server", i).type # "command"
  /\ \A i \in 4..8 :
       LET m == Says("server", i)
       IN  /\ i = 4 => What(m) = <<"_result", 1>> /\ m.type = "command"
           /\ publish /\ i = 5 => What(m) = <<"_result", 4>> /\ m.type = "command"
           /\ publish /\ i = 6 => What(m) = <<"onStatus", 5>> /\ m.type = "command"
           /\ ~publish /\ i = 5 => What(m) = <<"_result", 2>> /\ m.type = "command"
           /\ ~publish /\ i \in {6, 7} => m.type # "command"
           /\ ~publish /\ i = 8 => What(m) = <<"onStatus", 3>> /\ m.type = "command"
<1>1. \A cs, sid, name, id : LET m == Command(cs, sid, name, id)
                             IN  What(m) = <<name, id>> /\ m.type = "command"
  BY CommandFields DEF IsMsg
<1>2. /\ SetWindowAckSize.type # "command" /\ SetPeerBandwidth.type # "command"
      /\ SetChunkSize.type # "command" /\ \A c : UserControl(c).type # "command"
  BY OtherFields DEF IsMsg
<1>3. \A i \in 1..3 : Says("server", i).type # "command"
  <2> TAKE i \in 1..3
  <2>1. Says("server", i) \in {SetWindowAckSize, SetPeerBandwidth, SetChunkSize}
    BY DEF Says
  <2> QED
    BY <1>2, <2>1
<1>4. Says("server", 4) = Command(3, 0, "_result", 1)
  BY DEF Says
<1>5. publish => /\ Says("server", 5) = Command(3, 0, "_result", 4)
                 /\ Says("server", 6) = Command(5, 1, "onStatus", 5)
  BY DEF Says, ServerPublishes
<1>6. ~publish => /\ Says("server", 5) = Command(3, 0, "_result", 2)
                  /\ Says("server", 6) = UserControl("StreamIsRecorded")
                  /\ Says("server", 7) = UserControl("StreamBegin")
                  /\ Says("server", 8) = Command(5, 1, "onStatus", 3)
  BY DEF Says, ServerPlays
<1>7. ASSUME NEW i \in 4..8
      PROVE  LET m == Says("server", i)
             IN  /\ i = 4 => What(m) = <<"_result", 1>> /\ m.type = "command"
                 /\ publish /\ i = 5 => What(m) = <<"_result", 4>> /\ m.type = "command"
                 /\ publish /\ i = 6 => What(m) = <<"onStatus", 5>> /\ m.type = "command"
                 /\ ~publish /\ i = 5 => What(m) = <<"_result", 2>> /\ m.type = "command"
                 /\ ~publish /\ i \in {6, 7} => m.type # "command"
                 /\ ~publish /\ i = 8 => What(m) = <<"onStatus", 3>> /\ m.type = "command"
  BY <1>1, <1>2, <1>4, <1>5, <1>6
<1> QED
  BY <1>3, <1>7

LEMMA SaysToServer ==
  /\ \A i \in 1..3 : Says("client", i).type # "command"
  /\ IsMsg(Says("client", 4), "command", 3, 2, <<"connect", 1>>)
  /\ publish => /\ IsMsg(Says("client", 5), "command", 3, 1, <<"releaseStream", 2>>)
                /\ IsMsg(Says("client", 6), "command", 3, 1, <<"FCPublish", 3>>)
                /\ IsMsg(Says("client", 7), "command", 3, 1, <<"createStream", 4>>)
                /\ IsMsg(Says("client", 8), "command", 4, 1, <<"publish", 5>>)
  /\ ~publish => /\ IsMsg(Says("client", 5), "command", 3, 1, <<"createStream", 2>>)
                 /\ Says("client", 6).type # "command"
                 /\ IsMsg(Says("client", 7), "command", 4, 1, <<"play", 3>>)
<1>1. ASSUME NEW cs, NEW sid, NEW name, NEW id, <<name, id>> # <<"connect", 1>>,
             <<name, id>> # <<"_result", 1>>
      PROVE  IsMsg(Command(cs, sid, name, id), "command", cs, 1, <<name, id>>)
  <2>1. IsMsg(Command(cs, sid, name, id), "command", cs,
              IF <<name, id>> \in {<<"connect", 1>>, <<"_result", 1>>} THEN 2 ELSE 1,
              <<name, id>>)
    BY CommandFields
  <2> QED
    BY <1>1, <2>1
<1>2. /\ SetWindowAckSize.type # "command" /\ SetPeerBandwidth.type # "command"
      /\ SetChunkSize.type # "command" /\ \A c : UserControl(c).type # "command"
  BY OtherFields DEF IsMsg
<1>3. \A i \in 1..3 : Says("client", i).type # "command"
  <2> TAKE i \in 1..3
  <2>1. Says("client", i) \in {SetWindowAckSize, SetPeerBandwidth, SetChunkSize}
    BY DEF Says
  <2> QED
    BY <1>2, <2>1
<1>4. IsMsg(Says("client", 4), "command", 3, 2, <<"connect", 1>>)
  <2>1. Says("client", 4) = Command(3, 0, "connect", 1)
    BY DEF Says
  <2>2. IsMsg(Command(3, 0, "connect", 1), "command", 3,
              IF <<"connect", 1>> \in {<<"connect", 1>>, <<"_result", 1>>} THEN 2 ELSE 1,
              <<"connect", 1>>)
    BY CommandFields
  <2> QED
    BY <2>1, <2>2
<1>5. publish => /\ Says("client", 5) = Command(3, 0, "releaseStream", 2)
                 /\ Says("client", 6) = Command(3, 0, "FCPublish", 3)
                 /\ Says("client", 7) = Command(3, 0, "createStream", 4)
                 /\ Says("client", 8) = Command(4, 1, "publish", 5)
  BY DEF Says, ClientPublishes
<1>6. ~publish => /\ Says("client", 5) = Command(3, 0, "createStream", 2)
                  /\ Says("client", 6) = UserControl("SetBufferLength")
                  /\ Says("client", 7) = Command(4, 1, "play", 3)
  BY DEF Says, ClientPlays
<1>7. /\ IsMsg(Command(3, 0, "releaseStream", 2), "command", 3, 1, <<"releaseStream", 2>>)
      /\ IsMsg(Command(3, 0, "FCPublish", 3), "command", 3, 1, <<"FCPublish", 3>>)
      /\ IsMsg(Command(3, 0, "createStream", 4), "command", 3, 1, <<"createStream", 4>>)
      /\ IsMsg(Command(4, 1, "publish", 5), "command", 4, 1, <<"publish", 5>>)
      /\ IsMsg(Command(3, 0, "createStream", 2), "command", 3, 1, <<"createStream", 2>>)
      /\ IsMsg(Command(4, 1, "play", 3), "command", 4, 1, <<"play", 3>>)
  BY <1>1
<1> QED
  BY <1>2, <1>3, <1>4, <1>5, <1>6, <1>7
-----------------------------------------------------------------------------
(* Programs one after the other. *)
LEMMA JoinIs ==
  ASSUME NEW a, NEW b, \E S : a \in Seq(S), \E S : b \in Seq(S)
  PROVE  /\ a \o b = [i \in 1..(Len(a) + Len(b)) |->
                       IF i <= Len(a) THEN a[i] ELSE b[i - Len(a)]]
         /\ \E S : a \o b \in Seq(S)
         /\ Len(a \o b) = Len(a) + Len(b) /\ Len(a) \in Nat /\ Len(b) \in Nat
<1>1. PICK S : a \in Seq(S)
  OBVIOUS
<1>2. PICK T : b \in Seq(T)
  OBVIOUS
<1>3. a \in Seq(S \cup T) /\ b \in Seq(S \cup T)
  BY <1>1, <1>2
<1> DEFINE c == a \o b
<1> DEFINE n == Len(a) + Len(b)
<1>4. /\ c \in Seq(S \cup T) /\ Len(c) = n /\ n \in Nat
      /\ \A i \in 1..n : c[i] = IF i <= Len(a) THEN a[i] ELSE b[i - Len(a)]
  BY <1>3, ConcatProperties
<1> HIDE DEF c, n
<1>5. c \in [1..n -> S \cup T]
  BY <1>4
<1>6. c = [i \in 1..n |-> IF i <= Len(a) THEN a[i] ELSE b[i - Len(a)]]
  BY <1>4, <1>5
<1>7. Len(a) \in Nat /\ Len(b) \in Nat
  BY <1>1, <1>2
<1> QED
  BY <1>4, <1>6, <1>7 DEF c, n

(* What a server does about a command is what lies ahead of it. *)
LEMMA ServerSteps ==
  ASSUME Choices
  PROVE  /\ \A j \in 8..11 : StepAt("server", j) = Write(Says("server", j - 7))
         /\ StepAt("server", 7) = Serve
         /\ StepAt("server", 12) = Serve /\ StepAt("server", 14) = Serve
         /\ StepAt("server", 13) = Write(Says("server", 5))
         /\ publish => /\ StepAt("server", 15) = Write(Says("server", 6))
                       /\ StepAt("server", 16) = Detect
         /\ ~publish => \A j \in 15..(20 + Len(Tracks)) :
                          StepAt("server", j) = Write(Says("server", j - 9))
         /\ Stop("server", 6) = 7 /\ Stop("server", 7) = 12 /\ Stop("server", 11) = 12
         /\ Stop("server", 12) = 14 /\ Stop("server", 13) = 14
         /\ Stop("server", 14) = IF publish THEN 16 ELSE 20 + Len(Tracks)
<1> DEFINE T == Len(Tracks)
<1>1. publish \in BOOLEAN /\ T \in 0..3
  BY TracksAre DEF Choices
<1>2. Last("server") = IF publish THEN 15 ELSE 20 + T
  BY <1>1 DEF Last
<1>3. Sender = IF publish THEN "client" ELSE "server"
  BY DEF Sender
<1> HIDE DEF T
<1>4. \A j \in 8..11 : StepAt("server", j) = Write(Says("server", j - 7))
  BY <1>1, <1>2 DEF StepAt, Said
<1>5. /\ StepAt("server", 7) = Serve /\ StepAt("server", 12) = Serve
      /\ StepAt("server", 14) = Serve
  BY <1>1, <1>2 DEF StepAt
<1>6. StepAt("server", 13) = Write(Says("server", 5))
  <2>1. Said("server", 13) = 5
    <3>1. \A p \in 12..13 : Said("server", p) = p - 8
      BY <1>1 DEF Said
    <3> QED
      BY <3>1
  <2>2. StepAt("server", 13) = Write(Says("server", Said("server", 13)))
    BY <1>1, <1>2 DEF StepAt
  <2> QED
    BY <2>1, <2>2
<1>7. publish => /\ StepAt("server", 15) = Write(Says("server", 6))
                 /\ StepAt("server", 16) = Detect
  <2>1. Said("server", 15) = 6
    <3>1. \A p \in 15..16 : Said("server", p) = p - 9
      BY <1>1 DEF Said
    <3> QED
      BY <3>1
  <2>2. publish => StepAt("server", 15) = Write(Says("server", Said("server", 15)))
    BY <1>1, <1>2, <1>3 DEF StepAt
  <2>3. publish => StepAt("server", 16) = Detect
    BY <1>1, <1>2, <1>3 DEF StepAt
  <2> QED
    BY <2>1, <2>2, <2>3
<1>8. ~publish => \A j \in 15..(20 + T) : StepAt("server", j) = Write(Says("server", j - 9))
  BY <1>1, <1>2, <1>3 DEF StepAt, Said
<1>9. /\ Stop("server", 6) = 7 /\ Stop("server", 7) = 12 /\ Stop("server", 11) = 12
      /\ Stop("server", 12) = 14 /\ Stop("server", 13) = 14
      /\ Stop("server", 14) = IF publish THEN 16 ELSE 20 + T
  BY <1>1, <1>2, <1>3 DEF Stop
<1> QED
  BY <1>4, <1>5, <1>6, <1>7, <1>8, <1>9 DEF T

LEMMA ServesConnect ==
  ASSUME Choices, NEW m, IsMsg(m, "command", 3, 2, <<"connect", 1>>)
  PROVE  Served(m) = Ahead("server", 7)
<1> DEFINE F(i) == StepAt("server", 7 + i)
<1>1. What(m) = <<"connect", 1>> /\ m.cs = 3
  BY DEF IsMsg
<1>2. Served(m) = Settings \o <<Write(Command(3, 0, "_result", 1)), Serve>>
  BY <1>1 DEF Served, OnConnect
<1>3. /\ Says("server", 1) = SetWindowAckSize /\ Says("server", 2) = SetPeerBandwidth
      /\ Says("server", 3) = SetChunkSize
      /\ Says("server", 4) = Command(3, 0, "_result", 1)
  BY DEF Says
<1>4. /\ F(1) = Write(SetWindowAckSize) /\ F(2) = Write(SetPeerBandwidth)
      /\ F(3) = Write(SetChunkSize) /\ F(4) = Write(Command(3, 0, "_result", 1))
      /\ F(5) = Serve
  BY <1>3, ServerSteps
<1>5. Ahead("server", 7) = [i \in 1..5 |-> F(i)]
  BY ServerSteps DEF Ahead
<1> HIDE DEF F
<1> DEFINE st == <<Write(Command(3, 0, "_result", 1)), Serve>>
<1>6. Settings \o st = [i \in 1..5 |-> IF i <= 3 THEN Settings[i] ELSE st[i - 3]]
  <2>1. /\ \E S : Settings \in Seq(S)
        /\ \E S : st \in Seq(S)
        /\ Len(Settings) = 3 /\ Len(st) = 2
    <3>1. Settings \in Seq({Settings[1], Settings[2], Settings[3]}) /\ Len(Settings) = 3
      BY DEF Settings
    <3>2. st \in Seq({st[1], st[2]}) /\ Len(st) = 2
      OBVIOUS
    <3> QED
      BY <3>1, <3>2
  <2> HIDE DEF st
  <2>2. Settings \o st = [i \in 1..(Len(Settings) + Len(st)) |->
                            IF i <= Len(Settings) THEN Settings[i] ELSE st[i - Len(Settings)]]
    BY <2>1, JoinIs
  <2> QED
    BY <2>1, <2>2
<1>7. \A i \in 1..5 : F(i) = IF i <= 3 THEN Settings[i] ELSE st[i - 3]
  <2>1. /\ Settings[1] = Write(SetWindowAckSize) /\ Settings[2] = Write(SetPeerBandwidth)
        /\ Settings[3] = Write(SetChunkSize)
    BY DEF Settings
  <2>2. st[1] = Write(Command(3, 0, "_result", 1)) /\ st[2] = Serve
    OBVIOUS
  <2> HIDE DEF st
  <2>3. \A i \in 1..5 : (i \in {1, 2, 3} /\ i <= 3) \/ (i = 4 /\ i - 3 = 1) \/ (i = 5 /\ i - 3 = 2)
    OBVIOUS
  <2> QED
    BY <1>4, <2>1, <2>2, <2>3
<1> HIDE DEF st
<1>8. [i \in 1..5 |-> F(i)] = [i \in 1..5 |-> IF i <= 3 THEN Settings[i] ELSE st[i - 3]]
  BY <1>7
<1> QED
  BY <1>2, <1>5, <1>6, <1>8 DEF st

LEMMA ServesStream ==
  ASSUME Choices, NEW m, NEW id, IsMsg(m, "command", 3, 1, <<"createStream", id>>),
         id = IF publish THEN 4 ELSE 2
  PROVE  Served(m) = Ahead("server", 12)
<1> DEFINE F(i) == StepAt("server", 12 + i)
<1>1. What(m) = <<"createStream", id>> /\ m.cs = 3
  BY DEF IsMsg
<1>2. Served(m) = <<Write(Command(3, 0, "_result", id)), Serve>>
  BY <1>1 DEF Served, OnCreateStream
<1>3. Says("server", 5) = Command(3, 0, "_result", id)
  BY DEF Says, ServerPublishes, ServerPlays, Choices
<1>4. F(1) = Write(Command(3, 0, "_result", id)) /\ F(2) = Serve
  BY <1>3, ServerSteps
<1>5. Ahead("server", 12) = [i \in 1..2 |-> F(i)]
  BY ServerSteps DEF Ahead
<1> HIDE DEF F
<1>6. [i \in 1..2 |-> F(i)] = <<F(1), F(2)>>
  OBVIOUS
<1> QED
  BY <1>2, <1>4, <1>5, <1>6

LEMMA ServesPublish ==
  ASSUME Choices, publish, NEW m, IsMsg(m, "command", 4, 1, <<"publish", 5>>)
  PROVE  Served(m) = Ahead("server", 14)
<1> DEFINE F(i) == StepAt("server", 14 + i)
<1>1. What(m) = <<"publish", 5>>
  BY DEF IsMsg
<1>2. Served(m) = <<Write(Command(5, 1, "onStatus", 5)), Detect>>
  BY <1>1 DEF Served, OnPublish
<1>3. Says("server", 6) = Command(5, 1, "onStatus", 5)
  BY DEF Says, ServerPublishes
<1>4. F(1) = Write(Command(5, 1, "onStatus", 5)) /\ F(2) = Detect
  BY <1>3, ServerSteps
<1>5. Ahead("server", 14) = [i \in 1..2 |-> F(i)]
  BY ServerSteps DEF Ahead
<1> HIDE DEF F
<1>6. [i \in 1..2 |-> F(i)] = <<F(1), F(2)>>
  OBVIOUS
<1> QED
  BY <1>2, <1>4, <1>5, <1>6

LEMMA ServesPlay ==
  ASSUME Choices, ~publish, NEW m, IsMsg(m, "command", 4, 1, <<"play", 3>>)
  PROVE  Served(m) = Ahead("server", 14)
<1> DEFINE T == Len(Tracks)
<1> DEFINE F(i) == StepAt("server", 14 + i)
<1> DEFINE a == <<Write(UserControl("StreamIsRecorded")), Write(UserControl("StreamBegin"))>>
<1> DEFINE b == [i \in 1..4 |-> Write(Command(5, 1, "onStatus", 3))]
<1>0. T \in 0..3 /\ \E S : Tracks \in Seq(S)
  BY TracksAre
<1>1. What(m) = <<"play", 3>>
  BY DEF IsMsg
<1>2. Served(m) = (a \o b) \o Tracks
  BY <1>1 DEF Served, OnPlay
<1>3. Ahead("server", 14) = [i \in 1..(6 + T) |-> F(i)]
  <2>1. Stop("server", 14) = 20 + T
    BY ServerSteps
  <2>2. (20 + T) - 14 = 6 + T
    BY <1>0
  <2> QED
    BY <2>1, <2>2 DEF Ahead
<1>4. ASSUME NEW i \in 1..(6 + T)
      PROVE  F(i) = Write(Says("server", 5 + i))
  <2>1. 14 + i \in 15..(20 + T) /\ (14 + i) - 9 = 5 + i
    BY <1>0
  <2> QED
    BY <2>1, ServerSteps
<1>5. ASSUME NEW i \in 1..6
      PROVE  F(i) = (a \o b)[i]
  <2>1. F(i) = Write(ServerPlays(5 + i))
    BY <1>0, <1>4 DEF Says
  <2>2. (a \o b)[i] = Write(IF i = 1 THEN UserControl("StreamIsRecorded")
                            ELSE IF i = 2 THEN UserControl("StreamBegin")
                            ELSE Command(5, 1, "onStatus", 3))
    <3> DEFINE x == Write(UserControl("StreamIsRecorded"))
    <3> DEFINE y == Write(UserControl("StreamBegin"))
    <3> DEFINE z == Write(Command(5, 1, "onStatus", 3))
    <3>1. a \o b = <<x, y>> \o [k \in 1..4 |-> z]
      OBVIOUS
    <3> HIDE DEF x, y, z
    <3>2. (<<x, y>> \o [k \in 1..4 |-> z])[i] = IF i = 1 THEN x ELSE IF i = 2 THEN y ELSE z
      OBVIOUS
    <3> QED
      BY <3>1, <3>2 DEF x, y, z
  <2>3. ServerPlays(5 + i) = IF i = 1 THEN UserControl("StreamIsRecorded")
                             ELSE IF i = 2 THEN UserControl("StreamBegin")
                             ELSE Command(5, 1, "onStatus", 3)
    BY DEF ServerPlays
  <2> QED
    BY <2>1, <2>2, <2>3
<1>6. ASSUME NEW k \in 1..T
      PROVE  F(6 + k) = Tracks[k]
  <2>1. 6 + k \in 1..(6 + T) /\ 5 + (6 + k) = 11 + k
    BY <1>0
  <2>2. F(6 + k) = Write(Says("server", 11 + k))
    BY <1>4, <2>1
  <2>3. Says("server", 11 + k) = Tracks[k].msg
    <3>1. (11 + k) - 11 = k /\ ~(11 + k <= 11) /\ 11 + k \notin 1..11
      BY <1>0
    <3> QED
      BY <1>0, <3>1 DEF Says, ServerPlays
  <2>4. Tracks[k] = Write(Tracks[k].msg)
    BY TrackMsgs
  <2> QED
    BY <2>2, <2>3, <2>4
<1>7. /\ Len(a \o b) = 6 /\ \E S : a \o b \in Seq(S)
  <2> DEFINE S == {Write(UserControl("StreamIsRecorded")), Write(UserControl("StreamBegin")),
                   Write(Command(5, 1, "onStatus", 3))}
  <2>1. a \in Seq(S) /\ b \in Seq(S) /\ Len(a) = 2 /\ Len(b) = 4
    OBVIOUS
  <2> HIDE DEF a, b, S
  <2>2. a \o b \in Seq(S) /\ Len(a \o b) = Len(a) + Len(b)
    BY <2>1, ConcatProperties
  <2> QED
    BY <2>1, <2>2
<1> DEFINE c == a \o b
<1> DEFINE d == Tracks
<1>8. c \o d = [i \in 1..(6 + T) |-> IF i <= 6 THEN c[i] ELSE d[i - 6]]
  <2>1. Len(c) = 6 /\ (\E S : c \in Seq(S)) /\ (\E S : d \in Seq(S)) /\ Len(d) = T
    BY <1>0, <1>7
  <2> HIDE DEF a, b, c, d, T
  <2>2. c \o d = [i \in 1..(Len(c) + Len(d)) |-> IF i <= Len(c) THEN c[i] ELSE d[i - Len(c)]]
    BY <2>1, JoinIs
  <2> QED
    BY <2>1, <2>2
<1>9. \A i \in 1..(6 + T) : F(i) = IF i <= 6 THEN c[i] ELSE d[i - 6]
  <2> TAKE i \in 1..(6 + T)
  <2>1. CASE i <= 6
    <3>1. i \in 1..6
      BY <1>0, <2>1
    <3> QED
      BY <1>5, <2>1, <3>1
  <2>2. CASE i > 6
    <3>1. i - 6 \in 1..T /\ 6 + (i - 6) = i /\ ~(i <= 6)
      BY <1>0, <2>2
    <3>2. F(6 + (i - 6)) = Tracks[i - 6]
      BY <1>6, <3>1
    <3> HIDE DEF F
    <3> QED
      BY <3>1, <3>2
  <2> QED
    BY <1>0, <2>1, <2>2
<1> HIDE DEF F, c, T
<1>10. [i \in 1..(6 + T) |-> F(i)] = [i \in 1..(6 + T) |-> IF i <= 6 THEN c[i] ELSE d[i - 6]]
  BY <1>9
<1> QED
  BY <1>2, <1>3, <1>8, <1>10 DEF c
-----------------------------------------------------------------------------
(* An end that waits reads a message that the other has said: it goes on waiting, or
   goes on. *)
LEMMA WaitSaid ==
  ASSUME Choices, NEW e \in Ends, NEW p \in Waits(e)
  PROVE  /\ Said(e, p + 1) = Said(e, p) /\ p \in Nat /\ p >= 6 /\ p < Last(e)
         /\ p + 1 \in 0..Last(e)
         /\ p + 1 = Last(e) /\ e # Sender => 8 \in Heard(e, p + 1) /\ Heard(e, p + 1) = Nat \ 0..7
<1> DEFINE T == Len(Tracks)
<1> HIDE DEF T
<1>1. publish \in BOOLEAN /\ T \in 0..3
  BY TracksAre DEF Choices, T
<1>2. Last(e) = IF e = "client" THEN IF publish THEN 17 + T ELSE 16
                ELSE IF publish THEN 15 ELSE 20 + T
  BY <1>1 DEF Last, Ends, T
<1>3. CASE e = "client"
  <2>1. p \in (IF publish THEN {10, 14, 16} ELSE {10, 12, 15})
    BY <1>3 DEF Waits
  <2>2. Said(e, p + 1) = Said(e, p)
    BY <1>1, <1>3, <2>1 DEF Said
  <2>3. p + 1 = Last(e) /\ e # Sender => 8 \in Heard(e, p + 1) /\ Heard(e, p + 1) = Nat \ 0..7
    BY <1>1, <1>2, <1>3, <2>1 DEF Heard, Sender
  <2> QED
    BY <1>1, <1>2, <1>3, <2>1, <2>2, <2>3
<1>4. CASE e = "server"
  <2>1. p \in {6, 11, 13}
    BY <1>4 DEF Waits
  <2>2. Said(e, p + 1) = Said(e, p)
    BY <1>1, <1>4, <2>1 DEF Said
  <2>3. p + 1 # Last(e)
    BY <1>1, <1>2, <1>4, <2>1
  <2> QED
    BY <1>1, <1>2, <1>4, <2>1, <2>2, <2>3
<1> QED
  BY <1>3, <1>4 DEF Ends

Heeded(e, p, m) == IF m.type = "command" THEN Answered(Ahead(e, p), m) ELSE Ahead(e, p)

IsOn(e, p, n, td) ==
  \/ n \in Heard(e, p) /\ td = Ahead(e, p)
  \/ n \in Heard(e, p + 1) /\ td = Ahead(e, p + 1)

LEMMA ClientHeeds ==
  ASSUME Choices, NEW p \in Waits("client"), NEW n \in Heard("client", p), NEW m,
         m.type = Says("server", n + 1).type, What(m) = What(Says("server", n + 1))
  PROVE  IsOn("client", p, n + 1, Heeded("client", p, m))
<1> DEFINE e == "client"
<1>0. e \in Ends /\ publish \in BOOLEAN
  BY DEF Ends, Choices
<1>1. /\ p \in 6..(Last(e) - 1) /\ Stop(e, p) \in Nat /\ p + 1 <= Stop(e, p)
      /\ StepAt(e, p + 1) = [do |-> "await", reply |-> Reply(e, p)]
      /\ Stop(e, p + 1) = Stop(e, p)
  BY <1>0, WaitSteps
<1>2. Head(Ahead(e, p)) = StepAt(e, p + 1) /\ Tail(Ahead(e, p)) = Ahead(e, p + 1)
  <2>1. p \in Nat
    BY <1>0, WaitSaid
  <2> QED
    BY <1>1, <2>1, AheadGoesOn
<1>3. Heeded(e, p, m) = IF m.type = "command" /\ What(m) = Reply(e, p) THEN Ahead(e, p + 1)
                        ELSE Ahead(e, p)
  <2>1. Head(Ahead(e, p)).do = "await" /\ Head(Ahead(e, p)).reply = Reply(e, p)
    BY <1>1, <1>2
  <2>2. Answered(Ahead(e, p), m) = IF What(m) = Reply(e, p) THEN Ahead(e, p + 1)
                                   ELSE Ahead(e, p)
    BY <1>2, <2>1 DEF Answered
  <2> QED
    BY <2>2 DEF Heeded
<1>4. p \in (IF publish THEN {10, 14, 16} ELSE {10, 12, 15})
  BY DEF Waits
<1>5. CASE p = 10
  <2>1. n \in 0..3 /\ Reply(e, p) = <<"_result", 1>> /\ Heard(e, p) = 0..3
        /\ Heard(e, p + 1) = 4..4
    BY <1>5 DEF Heard, Reply
  <2>2. CASE n \in 0..2
    <3>1. n + 1 \in 1..3 /\ n + 1 \in Heard(e, p)
      BY <2>1, <2>2
    <3>2. m.type # "command"
      BY <3>1, SaysToClient
    <3> QED
      BY <1>3, <3>1, <3>2 DEF IsOn
  <2>3. CASE n = 3
    <3>1. n + 1 = 4 /\ n + 1 \in Heard(e, p + 1)
      BY <2>1, <2>3
    <3>2. m.type = "command" /\ What(m) = Reply(e, p)
      BY <2>1, <3>1, SaysToClient
    <3> QED
      BY <1>3, <3>1, <3>2 DEF IsOn
  <2> QED
    BY <2>1, <2>2, <2>3
<1>6. CASE publish /\ p = 14
  <2>1. n = 4 /\ n + 1 = 5 /\ Reply(e, p) = <<"_result", 4>> /\ n + 1 \in Heard(e, p + 1)
    BY <1>6 DEF Heard, Reply
  <2>2. m.type = "command" /\ What(m) = Reply(e, p)
    BY <1>6, <2>1, SaysToClient
  <2> QED
    BY <1>3, <2>1, <2>2 DEF IsOn
<1>7. CASE publish /\ p = 16
  <2>1. n = 5 /\ n + 1 = 6 /\ Reply(e, p) = <<"onStatus", 5>> /\ n + 1 \in Heard(e, p + 1)
    BY <1>7 DEF Heard, Reply
  <2>2. m.type = "command" /\ What(m) = Reply(e, p)
    BY <1>7, <2>1, SaysToClient
  <2> QED
    BY <1>3, <2>1, <2>2 DEF IsOn
<1>8. CASE ~publish /\ p = 12
  <2>1. n = 4 /\ n + 1 = 5 /\ Reply(e, p) = <<"_result", 2>> /\ n + 1 \in Heard(e, p + 1)
    BY <1>8 DEF Heard, Reply
  <2>2. m.type = "command" /\ What(m) = Reply(e, p)
    BY <1>8, <2>1, SaysToClient
  <2> QED
    BY <1>3, <2>1, <2>2 DEF IsOn
<1>9. CASE ~publish /\ p = 15
  <2>1. n \in 5..7 /\ Reply(e, p) = <<"onStatus", 3>> /\ Heard(e, p) = 5..7
        /\ Heard(e, p + 1) = Nat \ 0..7
    BY <1>9 DEF Heard, Reply
  <2>2. CASE n \in 5..6
    <3>1. n + 1 \in 6..7 /\ n + 1 \in {6, 7} /\ n + 1 \in 4..8 /\ n + 1 \in Heard(e, p)
      BY <2>1, <2>2
    <3>2. m.type # "command"
      BY <1>9, <3>1, SaysToClient
    <3> QED
      BY <1>3, <3>1, <3>2 DEF IsOn
  <2>3. CASE n = 7
    <3>1. n + 1 = 8 /\ n + 1 \in Heard(e, p + 1)
      BY <2>1, <2>3
    <3>2. m.type = "command" /\ What(m) = Reply(e, p)
      BY <1>9, <2>1, <3>1, SaysToClient
    <3> QED
      BY <1>3, <3>1, <3>2 DEF IsOn
  <2> QED
    BY <2>1, <2>2, <2>3
<1> QED
  BY <1>0, <1>4, <1>5, <1>6, <1>7, <1>8, <1>9

LEMMA ServerHeeds ==
  ASSUME Choices, NEW p \in Waits("server"), NEW n \in Heard("server", p), NEW m,
         m.type = Says("client", n + 1).type, m.cs = Says("client", n + 1).cs,
         m.body = Says("client", n + 1).body
  PROVE  IsOn("server", p, n + 1, Heeded("server", p, m))
<1> DEFINE e == "server"
<1>0. e \in Ends /\ publish \in BOOLEAN
  BY DEF Ends, Choices
<1>1. StepAt(e, p + 1) = Serve /\ Stop(e, p) = p + 1 /\ p \in Nat
  BY <1>0, WaitSteps, WaitSaid
<1>2. Ahead(e, p) = <<Serve>>
  <2> DEFINE F(i) == StepAt(e, p + i)
  <2>1. Ahead(e, p) = [i \in 1..1 |-> F(i)] /\ F(1) = Serve
    BY <1>1 DEF Ahead
  <2> HIDE DEF F
  <2>2. [i \in 1..1 |-> F(i)] = <<F(1)>>
    OBVIOUS
  <2> QED
    BY <2>1, <2>2
<1>3. Heeded(e, p, m) = IF m.type = "command" THEN Served(m) ELSE Ahead(e, p)
  <2>1. Head(<<Serve>>).do = "serve"
    BY DEF Serve
  <2>2. Answered(<<Serve>>, m) = Served(m)
    BY <2>1 DEF Answered
  <2> QED
    BY <1>2, <2>2 DEF Heeded
<1>4. ASSUME NEW cs, NEW len, NEW what, IsMsg(Says("client", n + 1), "command", cs, len, what)
      PROVE  IsMsg(m, "command", cs, len, what)
  BY <1>4 DEF IsMsg, What
<1>5. ASSUME NEW cs, NEW len, NEW name, NEW id,
             name \notin {"connect", "createStream", "play", "publish"},
             IsMsg(m, "command", cs, len, <<name, id>>)
      PROVE  Heeded(e, p, m) = Ahead(e, p)
  <2>1. m.type = "command" /\ What(m)[1] = name
    BY <1>5 DEF IsMsg
  <2>2. Served(m) = <<Serve>>
    BY <1>5, <2>1 DEF Served
  <2> QED
    BY <1>2, <1>3, <2>1, <2>2
<1>6. \A cs, len, what : IsMsg(m, "command", cs, len, what) => Heeded(e, p, m) = Served(m)
  BY <1>3 DEF IsMsg
<1>7. CASE p = 6
  <2>1. n \in 0..3 /\ Heard(e, p) = 0..3 /\ p + 1 = 7 /\ Heard(e, p + 1) = 4..4
    BY <1>7 DEF Heard
  <2>2. CASE n \in 0..2
    <3>1. n + 1 \in 1..3 /\ n + 1 \in Heard(e, p)
      BY <2>1, <2>2
    <3>2. m.type # "command"
      BY <3>1, SaysToServer
    <3> QED
      BY <1>3, <3>1, <3>2 DEF IsOn
  <2>3. CASE n = 3
    <3>1. n + 1 = 4 /\ n + 1 \in Heard(e, p + 1)
      BY <2>1, <2>3
    <3>2. IsMsg(m, "command", 3, 2, <<"connect", 1>>)
      BY <1>4, <3>1, SaysToServer
    <3>3. Heeded(e, p, m) = Ahead(e, p + 1)
      BY <1>6, <2>1, <3>2, ServesConnect
    <3> QED
      BY <3>1, <3>3 DEF IsOn
  <2> QED
    BY <2>1, <2>2, <2>3
<1>8. CASE publish /\ p = 11
  <2>1. n \in 4..6 /\ Heard(e, p) = 4..6 /\ p + 1 = 12 /\ Heard(e, p + 1) = 7..7
    BY <1>8 DEF Heard
  <2>2. CASE n = 4
    <3>1. n + 1 = 5 /\ n + 1 \in Heard(e, p)
      BY <2>1, <2>2
    <3>2. IsMsg(m, "command", 3, 1, <<"releaseStream", 2>>)
      BY <1>4, <1>8, <3>1, SaysToServer
    <3>3. Heeded(e, p, m) = Ahead(e, p)
      BY <1>5, <3>2
    <3> QED
      BY <3>1, <3>3 DEF IsOn
  <2>3. CASE n = 5
    <3>1. n + 1 = 6 /\ n + 1 \in Heard(e, p)
      BY <2>1, <2>3
    <3>2. IsMsg(m, "command", 3, 1, <<"FCPublish", 3>>)
      BY <1>4, <1>8, <3>1, SaysToServer
    <3>3. Heeded(e, p, m) = Ahead(e, p)
      BY <1>5, <3>2
    <3> QED
      BY <3>1, <3>3 DEF IsOn
  <2>4. CASE n = 6
    <3>1. n + 1 = 7 /\ n + 1 \in Heard(e, p + 1)
      BY <2>1, <2>4
    <3>2. IsMsg(m, "command", 3, 1, <<"createStream", 4>>)
      BY <1>4, <1>8, <3>1, SaysToServer
    <3>3. Heeded(e, p, m) = Ahead(e, p + 1)
      BY <1>6, <1>8, <2>1, <3>2, ServesStream
    <3> QED
      BY <3>1, <3>3 DEF IsOn
  <2> QED
    BY <2>1, <2>2, <2>3, <2>4
<1>9. CASE ~publish /\ p = 11
  <2>1. n = 4 /\ p + 1 = 12 /\ n + 1 = 5 /\ n + 1 \in Heard(e, p + 1)
    BY <1>9 DEF Heard
  <2>2. IsMsg(m, "command", 3, 1, <<"createStream", 2>>)
    BY <1>4, <1>9, <2>1, SaysToServer
  <2>3. Heeded(e, p, m) = Ahead(e, p + 1)
    BY <1>6, <1>9, <2>1, <2>2, ServesStream
  <2> QED
    BY <2>1, <2>3 DEF IsOn
<1>10. CASE publish /\ p = 13
  <2>1. n = 7 /\ p + 1 = 14 /\ n + 1 = 8 /\ n + 1 \in Heard(e, p + 1)
    BY <1>10 DEF Heard
  <2>2. IsMsg(m, "command", 4, 1, <<"publish", 5>>)
    BY <1>4, <1>10, <2>1, SaysToServer
  <2>3. Heeded(e, p, m) = Ahead(e, p + 1)
    BY <1>6, <1>10, <2>1, <2>2, ServesPublish
  <2> QED
    BY <2>1, <2>3 DEF IsOn
<1>11. CASE ~publish /\ p = 13
  <2>1. n \in 5..6 /\ Heard(e, p) = 5..6 /\ p + 1 = 14 /\ Heard(e, p + 1) = 7..7
    BY <1>11 DEF Heard
  <2>2. CASE n = 5
    <3>1. n + 1 = 6 /\ n + 1 \in Heard(e, p)
      BY <2>1, <2>2
    <3>2. m.type # "command"
      BY <1>11, <3>1, SaysToServer
    <3> QED
      BY <1>3, <3>1, <3>2 DEF IsOn
  <2>3. CASE n = 6
    <3>1. n + 1 = 7 /\ n + 1 \in Heard(e, p + 1)
      BY <2>1, <2>3
    <3>2. IsMsg(m, "command", 4, 1, <<"play", 3>>)
      BY <1>4, <1>11, <3>1, SaysToServer
    <3>3. Heeded(e, p, m) = Ahead(e, p + 1)
      BY <1>6, <1>11, <2>1, <3>2, ServesPlay
    <3> QED
      BY <3>1, <3>3 DEF IsOn
  <2> QED
    BY <2>1, <2>2, <2>3
<1>12. p \in {6, 11, 13}
  BY DEF Waits
<1> QED
  BY <1>0, <1>7, <1>8, <1>9, <1>10, <1>11, <1>12
-----------------------------------------------------------------------------
(* What the receiving end is told of the tracks, and what it finds. *)
LEMMA HandledIs ==
  ASSUME Shapes, NEW e \in Ends, NEW m, Handled(e, m)
  PROVE  /\ todo[e] = <<>> => Demuxes(m)
         /\ todo[e] # <<>> /\ Head(todo[e]).do = "detect" => Detects(e, Head(todo[e]), m)
         /\ todo[e] # <<>> /\ Head(todo[e]).do \in {"await", "serve"} =>
              /\ UNCHANGED <<found, refused>>
              /\ todo'[e] = IF m.type = "command" THEN Answered(todo[e], m) ELSE todo[e]
<1>1. \/ todo[e] = <<>> /\ Demuxes(m)
      \/ todo[e] # <<>> /\ Head(todo[e]).do = "detect" /\ Detects(e, Head(todo[e]), m)
      \/ /\ todo[e] # <<>> /\ Head(todo[e]).do \in {"await", "serve"}
         /\ todo' = [todo EXCEPT ![e] = IF m.type = "command" THEN Answered(@, m) ELSE @]
         /\ UNCHANGED <<found, refused>>
  BY Zenon DEF Handled, Doing
<1> QED
  BY <1>1 DEF Shapes

Tells(n, m) ==
  /\ n < FirstTrack => m.type = "command" /\ What(m)[1] = "onStatus"
  /\ n = FirstTrack /\ announced # {} => m.type = "data" /\ What(m)[2] = announced
  /\ n > FirstTrack /\ announced # {} => m.type \in tracks

LEMMA SenderTells ==
  ASSUME Choices, NEW o \in Ends, o = Sender, Speech(o), NEW n \in Nat, n >= 9,
         n \in DOMAIN sent[o], NEW m, m.type = sent[o][n].type, m.body = sent[o][n].body
  PROVE  Tells(n, m)
<1> DEFINE T == Len(Tracks)
<1> DEFINE w == sent[o][n]
<1>1. publish \in BOOLEAN /\ T \in 0..3
  BY TracksAre DEF Choices
<1>2. o = IF publish THEN "client" ELSE "server"
  BY DEF Sender
<1>3. FirstTrack \in {9, 12} /\ Words(o) = (FirstTrack - 1) + T
      /\ FirstTrack = IF publish THEN 9 ELSE 12
  BY <1>1, <1>2 DEF FirstTrack, Words
<1>4. What(m) = What(w)
  BY DEF What
<1>5. IF n <= Words(o) THEN w = Says(o, n) ELSE w.type \in tracks
  BY DEF Speech, Beyond
<1>6. ASSUME n < FirstTrack
      PROVE  m.type = "command" /\ What(m)[1] = "onStatus"
  <2>1. ~publish /\ n \in 9..11 /\ o = "server"
    BY <1>1, <1>2, <1>3, <1>6
  <2>2. n <= Words(o)
    BY <1>1, <1>3, <1>6
  <2>3. Says("server", n) = Command(5, 1, "onStatus", 3)
    <3>1. n \notin 1..4 /\ n # 5 /\ n # 6 /\ n # 7 /\ n \in 8..11
      BY <2>1
    <3> QED
      BY <2>1, <3>1 DEF Says, ServerPlays
  <2>4. IsMsg(Command(5, 1, "onStatus", 3), "command", 5,
              IF <<"onStatus", 3>> \in {<<"connect", 1>>, <<"_result", 1>>} THEN 2 ELSE 1,
              <<"onStatus", 3>>)
    BY CommandFields
  <2>5. w.type = "command" /\ What(w) = <<"onStatus", 3>>
    BY <1>5, <2>1, <2>2, <2>3, <2>4 DEF IsMsg
  <2> QED
    BY <1>4, <2>5
<1>7. ASSUME n >= FirstTrack, n <= Words(o)
      PROVE  n - (FirstTrack - 1) \in 1..T /\ w = Tracks[n - (FirstTrack - 1)].msg
  <2>1. n - (FirstTrack - 1) \in 1..T
    BY <1>1, <1>3, <1>7
  <2>2. CASE publish
    <3>1. n \notin 1..8 /\ n - (FirstTrack - 1) = n - 8 /\ o = "client"
      BY <1>2, <1>3, <1>7, <2>2
    <3>2. Says("client", n) = Tracks[n - 8].msg
      <4>1. n # 1 /\ n # 2 /\ n # 3 /\ n # 4 /\ n # 5 /\ n # 6 /\ n # 7 /\ n # 8
        BY <3>1
      <4> QED
        BY <2>2, <4>1 DEF Says, ClientPublishes
    <3> QED
      BY <1>5, <1>7, <2>1, <3>1, <3>2
  <2>3. CASE ~publish
    <3>1. n \notin 1..11 /\ n - (FirstTrack - 1) = n - 11 /\ o = "server"
      BY <1>2, <1>3, <1>7, <2>3
    <3>2. Says("server", n) = Tracks[n - 11].msg
      <4>1. n # 1 /\ n # 2 /\ n # 3 /\ n # 4 /\ n # 5 /\ n # 6 /\ n # 7 /\ n \notin 8..11
        BY <3>1
      <4> QED
        BY <2>3, <4>1 DEF Says, ServerPlays
    <3> QED
      BY <1>5, <1>7, <2>1, <3>1, <3>2
  <2> QED
    BY <1>1, <2>2, <2>3
<1>8. ASSUME n = FirstTrack, announced # {}
      PROVE  m.type = "data" /\ What(m)[2] = announced
  <2>1. T >= 1
    BY <1>8, TracksAre
  <2>2. n <= Words(o) /\ n - (FirstTrack - 1) = 1
    BY <1>1, <1>3, <1>8, <2>1
  <2>3. w = Tracks[1].msg /\ 1 \in 1..T
    BY <1>3, <1>7, <1>8, <2>2
  <2>4. w = Metadata(announced)
    BY <1>8, <2>3, TrackMsgs
  <2>5. w.type = "data" /\ What(w) = <<"onMetaData", announced>>
    BY <2>4, OtherFields DEF IsMsg
  <2> QED
    BY <1>4, <2>5
<1>9. ASSUME n > FirstTrack, announced # {}
      PROVE  m.type \in tracks
  <2>1. CASE n <= Words(o)
    <3> DEFINE k == n - (FirstTrack - 1)
    <3>1. k \in 1..T /\ k # 1 /\ w = Tracks[k].msg
      BY <1>3, <1>7, <1>9, <2>1
    <3> HIDE DEF k
    <3>2. PICK t \in tracks : w = Config(t)
      BY <3>1, TrackMsgs
    <3>3. w.type = t
      BY <3>2, OtherFields DEF IsMsg
    <3> QED
      BY <3>3
  <2>2. CASE ~(n <= Words(o))
    BY <1>5, <2>2
  <2> QED
    BY <2>1, <2>2
<1> QED
  BY <1>6, <1>8, <1>9 DEF Tells

(* Every step that is left is one of finding. *)
AllDetect(td) == \A i \in DOMAIN td : td[i].do = "detect"

LEMMA StillDetects ==
  ASSUME Shapes, NEW e \in Ends, AllSteps(todo[e]), AllDetect(todo[e]), NEW m, Handled(e, m)
  PROVE  AllDetect(todo'[e])
<1>1. CASE todo[e] = <<>>
  <2>1. todo' = todo
    BY <1>1, HandledIs DEF Demuxes
  <2> QED
    BY <2>1
<1>2. CASE todo[e] # <<>>
  <2> DEFINE d == Head(todo[e])
  <2> DEFINE tl == Tail(todo[e])
  <2>1. d.do = "detect" /\ AllDetect(tl)
    <3>1. PICK T : todo[e] \in Seq(T)
      BY DEF AllSteps
    <3>2. 1 \in DOMAIN todo[e] /\ d = todo[e][1]
      BY <1>2, <3>1
    <3>3. \A i \in DOMAIN tl : i + 1 \in DOMAIN todo[e] /\ tl[i] = todo[e][i + 1]
      BY <1>2, <3>1
    <3> QED
      BY <3>2, <3>3 DEF AllDetect
  <2>2. IsDetect(d)
    <3>1. IsStep(d)
      BY <1>2, StepsTail
    <3> QED
      BY <2>1, <3>1 DEF IsStep, IsDetect
  <2>3. Detects(e, d, m)
    BY <1>2, <2>1, HandledIs
  <2> HIDE DEF d, tl
  <2>4. ASSUME NEW x, IsDetect(x)
        PROVE  AllDetect(<<x>>)
    BY <2>4 DEF AllDetect, IsDetect
  <2>5. \/ todo' = todo
        \/ todo' = [todo EXCEPT ![e] = tl]
        \/ \E x : IsDetect(x) /\ todo' = [todo EXCEPT ![e] = <<x>>]
    <3>1. ASSUME NEW f, IsDetect(f), FromMetadata(e, f, m)
          PROVE  \/ todo' = todo
                 \/ todo' = [todo EXCEPT ![e] = tl]
                 \/ \E x : IsDetect(x) /\ todo' = [todo EXCEPT ![e] = <<x>>]
      <4>1. \/ todo' = todo
            \/ todo' = [todo EXCEPT ![e] = Tail(todo[e])]
            \/ todo' = [todo EXCEPT ![e] = <<[f EXCEPT !.mode = "metadata"]>>]
        BY <3>1 DEF FromMetadata
      <4>2. IsDetect([f EXCEPT !.mode = "metadata"])
        BY <3>1, DetectIs
      <4> QED
        BY <4>1, <4>2 DEF tl
    <3>2. ASSUME FromMessages(e, d, m)
          PROVE  \/ todo' = [todo EXCEPT ![e] = tl]
                 \/ \E x : IsDetect(x) /\ todo' = [todo EXCEPT ![e] = <<x>>]
      <4> DEFINE g(y) == [d EXCEPT !.mode = "messages", !.start = y]
      <4>1. \/ todo' = [todo EXCEPT ![e] = Tail(todo[e])]
            \/ \E y : todo' = [todo EXCEPT ![e] = <<g(y)>>]
        BY <3>2 DEF FromMessages
      <4>2. \A y : IsDetect(g(y))
        BY <2>2, DetectIs
      <4> HIDE DEF g
      <4> QED
        BY <4>1, <4>2 DEF tl
    <3>3. IsDetect([d EXCEPT !.has = What(m)[2]])
      BY <2>2, DetectIs
    <3>4. \/ todo' = todo \/ FromMetadata(e, [d EXCEPT !.has = What(m)[2]], m)
          \/ FromMetadata(e, d, m) \/ FromMessages(e, d, m)
      BY <2>3 DEF Detects
    <3> QED
      BY <2>2, <3>1, <3>2, <3>3, <3>4
  <2>6. CASE todo' = [todo EXCEPT ![e] = tl]
    BY <2>1, <2>6 DEF Shapes
  <2>7. ASSUME NEW x, IsDetect(x), todo' = [todo EXCEPT ![e] = <<x>>]
        PROVE  AllDetect(todo'[e])
    <3>1. todo'[e] = <<x>>
      BY <2>7 DEF Shapes
    <3> QED
      BY <2>4, <2>7, <3>1
  <2> QED
    BY <2>5, <2>6, <2>7
<1> QED
  BY <1>1, <1>2

(* If all the tracks are announced, the receiving end finds them, and refuses nothing. *)
LEMMA FindsAnnounced ==
  ASSUME Choices, Shapes, NEW e \in Ends, NEW m, Handled(e, m), AllDetect(todo[e]),
         announced = tracks, tracks # {}, Calm, NEW n \in Nat,
         IF n < FirstTrack THEN todo[e] = <<Detect>>
         ELSE \/ todo[e] = <<>> /\ tracks \subseteq found
              \/ /\ todo[e] # <<>> /\ Tail(todo[e]) = <<>>
                 /\ Head(todo[e]).mode = "metadata" /\ Head(todo[e]).has = tracks,
         AllSteps(todo[e]), Tells(n + 1, m)
  PROVE  /\ Calm'
         /\ IF n + 1 < FirstTrack THEN todo'[e] = <<Detect>>
            ELSE \/ todo'[e] = <<>> /\ tracks \subseteq found'
                 \/ /\ todo'[e] # <<>> /\ Tail(todo'[e]) = <<>>
                    /\ Head(todo'[e]).mode = "metadata" /\ Head(todo'[e]).has = tracks
<1> DEFINE F == FirstTrack
<1>1. F \in Nat /\ tracks \subseteq {"audio", "video"}
  BY DEF FirstTrack, Choices, Kinds
<1>2. \A t \in tracks : t # "command" /\ t # "data"
  BY <1>1
<1>0. \A x : <<x>> # <<>> /\ Head(<<x>>) = x /\ Tail(<<x>>) = <<>>
  OBVIOUS
<1>3. ASSUME NEW d, IsDetect(d), d.has = tracks, todo[e] # <<>>, Tail(todo[e]) = <<>>,
             IsMedia(m) => m.type \in tracks, FromMetadata(e, d, m)
      PROVE  /\ Calm'
             /\ \/ todo'[e] = <<>> /\ tracks \subseteq found'
                \/ /\ todo'[e] # <<>> /\ Tail(todo'[e]) = <<>>
                   /\ Head(todo'[e]).mode = "metadata" /\ Head(todo'[e]).has = tracks
  <2> DEFINE got == IF IsConfig(m) THEN found \cup {m.type} ELSE found
  <2> DEFINE x == [d EXCEPT !.mode = "metadata"]
  <2>1. /\ found' = got /\ refused' = refused
        /\ todo' = [todo EXCEPT ![e] = IF tracks \subseteq got THEN Tail(@) ELSE <<x>>]
    BY <1>3 DEF FromMetadata
  <2>2. Calm'
    BY <2>1, Zenon DEF Calm
  <2>3. todo'[e] = IF tracks \subseteq got THEN <<>> ELSE <<x>>
    BY <1>3, <2>1 DEF Shapes
  <2>4. x.mode = "metadata" /\ x.has = tracks
    BY <1>3 DEF IsDetect
  <2>5. CASE tracks \subseteq got
    BY <2>1, <2>2, <2>3, <2>5
  <2>6. CASE ~(tracks \subseteq got)
    <3>1. todo'[e] = <<x>>
      BY <2>3, <2>6
    <3> HIDE DEF got, x
    <3>2. todo'[e] # <<>> /\ Head(todo'[e]) = x /\ Tail(todo'[e]) = <<>>
      BY <1>0, <3>1, Zenon
    <3> QED
      BY <2>2, <2>4, <3>2
  <2> QED
    BY <2>5, <2>6
<1>4. CASE n < F
  <2>1. todo[e] = <<Detect>> /\ todo[e] # <<>> /\ Head(todo[e]) = Detect /\ Tail(todo[e]) = <<>>
    <3>1. todo[e] = <<Detect>>
      BY <1>4
    <3> QED
      BY <1>0, <3>1, Zenon
  <2>2. Detect.do = "detect" /\ Detect.mode = "first" /\ IsDetect(Detect)
    BY DEF Detect, IsDetect
  <2>3. Detects(e, Detect, m)
    BY <2>1, <2>2, HandledIs
  <2>4. CASE n + 1 < F
    <3>1. m.type = "command" /\ What(m)[1] = "onStatus"
      BY <2>4 DEF Tells
    <3>2. UNCHANGED <<todo, found, refused>>
      BY <2>2, <2>3, <3>1 DEF Detects
    <3>3. Calm'
      BY <3>2, Zenon DEF Calm
    <3> QED
      BY <2>1, <2>4, <3>2, <3>3
  <2>5. CASE n + 1 = F
    <3>1. m.type = "data" /\ What(m)[2] = announced
      BY <2>5 DEF Tells
    <3> DEFINE d == [Detect EXCEPT !.has = What(m)[2]]
    <3>2. FromMetadata(e, d, m)
      BY <2>2, <2>3, <3>1 DEF Detects
    <3>3. IsDetect(d) /\ d.has = tracks
      <4>1. d = [do |-> "detect", mode |-> "first", has |-> tracks, start |-> None]
        BY <3>1 DEF Detect
      <4> QED
        BY <4>1 DEF IsDetect
    <3>4. ~IsMedia(m)
      BY <3>1 DEF IsMedia
    <3> HIDE DEF d
    <3> QED
      BY <1>1, <1>3, <2>1, <2>5, <3>2, <3>3, <3>4
  <2> QED
    BY <1>1, <1>4, <2>4, <2>5
<1>5. CASE ~(n < F)
  <2>1. ~(n + 1 < F) /\ n + 1 > F
    BY <1>1, <1>5
  <2>2. m.type \in tracks
    BY <2>1 DEF Tells
  <2>3. CASE todo[e] = <<>> /\ tracks \subseteq found
    <3>1. Demuxes(m)
      BY <2>3, HandledIs
    <3>2. m.type \in found /\ UNCHANGED <<todo, found>>
      BY <2>2, <2>3, <3>1 DEF Demuxes
    <3>3. refused' = ""
      BY <3>1, <3>2, Zenon DEF Demuxes
    <3>4. Calm'
      BY <3>3, Zenon DEF Calm
    <3> QED
      BY <2>1, <2>3, <3>2, <3>4
  <2>4. CASE /\ todo[e] # <<>> /\ Tail(todo[e]) = <<>>
             /\ Head(todo[e]).mode = "metadata" /\ Head(todo[e]).has = tracks
    <3> DEFINE d == Head(todo[e])
    <3>1. d.do = "detect"
      <4>1. 1 \in DOMAIN todo[e] /\ d = todo[e][1]
        BY <2>4 DEF AllSteps
      <4> QED
        BY <4>1 DEF AllDetect
    <3>2. IsDetect(d)
      <4>1. IsStep(d)
        BY <2>4, StepsTail
      <4> QED
        BY <3>1, <4>1 DEF IsStep, IsDetect
    <3>3. FromMetadata(e, d, m)
      <4>1. Detects(e, d, m)
        BY <2>4, <3>1, HandledIs
      <4> QED
        BY <2>4, <4>1 DEF Detects
    <3> HIDE DEF d
    <3>4. d.has = tracks
      BY <2>4 DEF d
    <3> QED
      BY <1>3, <2>1, <2>2, <2>4, <3>2, <3>3, <3>4
  <2> QED
    BY <1>5, <2>3, <2>4
<1> QED
  BY <1>4, <1>5

LEMMA FindsOn ==
  ASSUME Choices, Shapes, NEW e \in Ends, NEW m, Handled(e, m), NEW n \in Nat,
         Finds(n, todo[e], found), AllSteps(todo[e]), tracks # {}, Tells(n + 1, m),
         announced = tracks => Calm
  PROVE  Finds(n + 1, todo'[e], found') /\ (announced = tracks => Calm')
<1>1. AllDetect(todo[e])
  BY DEF Finds, AllDetect
<1>2. AllDetect(todo'[e])
  BY <1>1, StillDetects
<1>3. ASSUME announced = tracks
      PROVE  /\ Calm'
             /\ IF n + 1 < FirstTrack THEN todo'[e] = <<Detect>>
                ELSE \/ todo'[e] = <<>> /\ tracks \subseteq found'
                     \/ /\ todo'[e] # <<>> /\ Tail(todo'[e]) = <<>>
                        /\ Head(todo'[e]).mode = "metadata" /\ Head(todo'[e]).has = tracks
  BY <1>1, <1>3, FindsAnnounced DEF Finds
<1> QED
  BY <1>2, <1>3 DEF Finds, AllDetect
-----------------------------------------------------------------------------
(* An end reads a chunk. If it cannot, everything else stays as it is. *)
LEMMA TalkFault ==
  ASSUME LinkInv, TalkInv, NEW e \in Ends, ReadChunk(e), NEW c, c = Head(wire[Peer(e)]),
         ~IsReadable(reader[e], c)
  PROVE  TalkInv'
<1> DEFINE o == Peer(e)
<1>0. o \in Ends /\ o # e
  BY EndsAre
<1>1. /\ Open /\ wire[o] # <<>> /\ UNCHANGED choices /\ refused' = Refusal(reader[e], c)
      /\ todo[e] = <<>> \/ Head(todo[e]).do \in {"await", "serve", "detect"}
  BY ReadChunkIs DEF IsFault
<1>2. UNCHANGED <<reader, todo, found, sent, received>>
  BY Zenon DEF ReadChunk, IsReadable
<1>3. PICK h \in [Ends -> 0..6] : \A y \in Ends : Goes(h, y)
  BY <1>1 DEF LinkInv, Steady
<1>4. /\ h[e] \in 0..6 /\ h[o] \in 0..6 /\ Program(e, h[e], todo[e])
      /\ InFlight(h, o) = Puts(o, h[o]) - Gets(e, h[e])
      /\ Linked(InFlight(h, o), wire[o], writer[o], reader[e], sent[o], received[e])
  BY <1>3, SteadyIs
<1>5. h[e] = 6
  BY <1>1, <1>4, ProgramIsSteps
<1>6. InFlight(h, o) = 0
  <2>1. InFlight(h, o) \in Nat
    BY <1>4 DEF Linked, OnWire
  <2>2. Puts(o, h[o]) \in 0..3 /\ Gets(e, h[e]) = 3
    BY <1>0, <1>4, <1>5, HandshakeCounts
  <2> QED
    BY <1>4, <2>1, <2>2
<1>7. IsFirstChunk(reader[e], sent[o], received[e], c)
  BY <1>1, <1>4, <1>6, LinkFirst
<1>8. refused' = "without previous chunk"
  BY <1>1, <1>7, Zenon DEF IsFirstChunk, IsReadable
<1>9. Calm'
  BY <1>8, Zenon DEF Calm
<1>10. Talks(e) /\ Talks(o)
  BY <1>0 DEF TalkInv
<1>11. Talks(e)' /\ Talks(o)'
  BY <1>0, <1>1, <1>2, <1>10, OthersStay
<1> QED
  BY <1>1, <1>9, <1>11, TalkGoesOn

(* Where an end is that reads the chunk c, and of which message. *)
LEMMA ReadsWord ==
  ASSUME Choices, NEW e \in Ends, NEW p \in Nat, At(e, p), \E T : todo[e] \in Seq(T),
         todo[e] = <<>> => e # Sender,
         todo[e] = <<>> \/ Head(todo[e]).do \in {"await", "serve", "detect"},
         Speech(Peer(e)), NEW n, n = Len(received[e]), n + 1 \in DOMAIN sent[Peer(e)]
  PROVE  /\ p >= 6 /\ n \in Nat /\ n \in Heard(e, p)
         /\ p \in Waits(e) \/ (p = Last(e) /\ e # Sender)
         /\ n < 8 <=> p \in Waits(e)
         /\ n < 8 => /\ n + 1 <= Words(Peer(e))
                     /\ sent[Peer(e)][n + 1] = Says(Peer(e), n + 1)
<1>1. p \in Waits(e) \/ (p = Last(e) /\ e # Sender)
  BY ReadsAt
<1>2. Last(e) \in 15..23 /\ Waits(e) \subseteq 6..(Last(e) - 1)
  BY LastIs
<1>3. n \in Heard(e, p)
  BY DEF At
<1>4. /\ p \in Waits(e) => n \in 0..7 /\ n + 1 <= Words(Peer(e))
      /\ p = Last(e) /\ e # Sender => n \in Nat /\ n >= 8
  BY <1>3, NextWord
<1>5. ASSUME n + 1 <= Words(Peer(e))
      PROVE  sent[Peer(e)][n + 1] = Says(Peer(e), n + 1)
  BY <1>5 DEF Speech
<1>6. p >= 6 /\ ~(p \in Waits(e) /\ p = Last(e))
  BY <1>1, <1>2
<1>7. n \in Nat /\ (n < 8 <=> p \in Waits(e))
  <2>1. CASE p \in Waits(e)
    <3>1. n \in 0..7
      BY <1>4, <2>1
    <3>2. \A k \in 0..7 : k \in Nat /\ k < 8
      OBVIOUS
    <3>3. n \in Nat /\ n < 8
      BY <3>1, <3>2, Zenon
    <3> QED
      BY <2>1, <3>3
  <2>2. CASE p \notin Waits(e)
    <3>1. n \in Nat /\ ~(n < 8)
      BY <1>1, <1>4, <2>2
    <3> QED
      BY <2>2, <3>1
  <2> QED
    BY <2>1, <2>2
<1> QED
  BY <1>1, <1>3, <1>4, <1>5, <1>6, <1>7

(* What it writes meanwhile: an acknowledgement at most, and when all else is said. *)
LEMMA ReadsSays ==
  ASSUME Shapes, UNCHANGED choices, NEW e \in Ends, NEW c, NEW r, NEW a, NEW wires,
         IsReadBy(e, c, r, a, wires),
         r.count \in Nat, sent[e] \in Seq(Messages(Parts)), Speech(e), Words(e) \in Nat,
         AckNeeded(r) => Len(sent[e]) >= Words(e) /\ e # Sender
  PROVE  /\ sent'[e] = IF AckNeeded(r) THEN Append(sent[e], Acknowledge(r.count)) ELSE sent[e]
         /\ sent'[Peer(e)] = sent[Peer(e)] /\ Speech(e)'
         /\ Len(sent'[e]) = IF AckNeeded(r) THEN Len(sent[e]) + 1 ELSE Len(sent[e])
<1> DEFINE o == Peer(e)
<1> DEFINE k == Acknowledge(r.count)
<1>0. o \in Ends /\ o # e
  BY EndsAre
<1>1. k \in Messages(Parts) /\ k.type = "Acknowledge"
  <2>1. r.count \in Int
    OBVIOUS
  <2> QED
    BY <2>1, AcknowledgeIsSound DEF Sound
<1>2. CASE AckNeeded(r)
  <2>1. sent' = [sent EXCEPT ![e] = Append(@, k)]
    BY <1>2 DEF IsReadBy, Writes
  <2> HIDE DEF k
  <2>2. sent'[e] = Append(sent[e], k) /\ sent'[o] = sent[o]
    BY <1>0, <2>1 DEF Shapes
  <2>3. IF Len(sent[e]) + 1 <= Words(e) THEN k = Says(e, Len(sent[e]) + 1) ELSE Beyond(e, k)
    <3>1. ~(Len(sent[e]) + 1 <= Words(e))
      BY <1>2
    <3>2. Beyond(e, k)
      BY <1>1, <1>2 DEF Beyond
    <3> QED
      BY <3>1, <3>2
  <2>4. Speech(e)'
    BY <1>1, <2>2, <2>3, SpeechGoesOn
  <2>5. Len(sent'[e]) = Len(sent[e]) + 1
    BY <1>1, <2>2
  <2> QED
    BY <1>2, <2>2, <2>4, <2>5 DEF k
<1>3. CASE ~AckNeeded(r)
  <2>1. sent' = sent
    BY <1>3 DEF IsReadBy
  <2>2. Speech(e)'
    BY <2>1, SpeechStays
  <2> QED
    BY <1>3, <2>1, <2>2
<1> QED
  BY <1>2, <1>3

(* The step before which an end waits is one of waiting. *)
LEMMA WaitsTodo ==
  ASSUME Choices, NEW e \in Ends, NEW p \in Waits(e), At(e, p)
  PROVE  /\ todo[e] = Ahead(e, p) /\ todo[e] # <<>>
         /\ Head(todo[e]).do \in {"await", "serve"}
<1>1. p \in Nat /\ p < Last(e) /\ Last(e) \in 15..23
  BY WaitSaid, LastIs
<1>2. todo[e] = Ahead(e, p)
  BY <1>1 DEF At
<1>3. /\ Stop(e, p) \in Nat /\ p + 1 <= Stop(e, p)
      /\ StepAt(e, p + 1).do \in {"await", "serve"}
  BY WaitSteps
<1> DEFINE F(i) == StepAt(e, p + i)
<1> DEFINE n == Stop(e, p) - p
<1>4. Ahead(e, p) = [i \in 1..n |-> F(i)] /\ n \in Nat \ {0} /\ F(1) = StepAt(e, p + 1)
  BY <1>1, <1>3 DEF Ahead
<1> HIDE DEF F, n
<1>5. Ahead(e, p) # <<>> /\ Head(Ahead(e, p)) = StepAt(e, p + 1)
  BY <1>4
<1> QED
  BY <1>2, <1>3, <1>5

LEMMA ReceiverHears ==
  ASSUME Choices, NEW e \in Ends, e # Sender
  PROVE  Heard(e, Last(e)) = Nat \ 0..7
<1> DEFINE T == Len(Tracks)
<1> HIDE DEF T
<1>1. publish \in BOOLEAN /\ T \in 0..3
  BY TracksAre DEF Choices, T
<1>2. Last(e) = IF e = "client" THEN IF publish THEN 17 + T ELSE 16
                ELSE IF publish THEN 15 ELSE 20 + T
  BY <1>1 DEF Last, Ends, T
<1>3. e = IF publish THEN "server" ELSE "client"
  BY DEF Sender, Ends
<1>4. CASE publish
  <2>1. Last(e) = 15 /\ e = "server"
    BY <1>2, <1>3, <1>4
  <2> QED
    BY <1>4, <2>1 DEF Heard
<1>5. CASE ~publish
  <2>1. Last(e) = 16 /\ e = "client"
    BY <1>1, <1>2, <1>3, <1>5
  <2> QED
    BY <1>5, <2>1 DEF Heard
<1> QED
  BY <1>4, <1>5

(* A chunk that does not complete its message, and one that does. *)
LEMMA ReadsOnAt ==
  ASSUME Choices, UNCHANGED choices, NEW e \in Ends, NEW p \in Nat, At(e, p), NEW n,
         n = Len(received[e]), NEW y, y \in {Len(sent[e]), Len(sent[e]) + 1},
         Len(sent[e]) \in Nat, p \in Waits(e) => y = Len(sent[e]),
         p \in Waits(e) \/ (p = Last(e) /\ e # Sender), Len(sent'[e]) = y,
         received'[e] = received[e], todo'[e] = todo[e], found' = found
  PROVE  At(e, p)'
<1>1. /\ p \in 0..Last(e) /\ n \in Heard(e, p)
      /\ IF p = Last(e) THEN Len(sent[e]) >= Words(e) ELSE Len(sent[e]) = Said(e, p)
      /\ IF e # Sender /\ p = Last(e) THEN Finds(n, todo[e], found) ELSE todo[e] = Ahead(e, p)
  BY DEF At
<1>2. Words(e) \in Nat
  <2>1. Words(e) \in 6..14
    BY LastIs
  <2> QED
    BY <2>1
<1>3. IF p = Last(e) THEN y >= Words(e) ELSE y = Said(e, p)
  BY <1>1, <1>2
<1> QED
  BY <1>1, <1>3, AtNext

LEMMA ReadsLastAt ==
  ASSUME Choices, Shapes, UNCHANGED choices, NEW e \in Ends, NEW p \in Waits(e), At(e, p),
         NEW n, n = Len(received[e]), n \in Nat, NEW m, Handled(e, m),
         m.type = Says(Peer(e), n + 1).type, m.cs = Says(Peer(e), n + 1).cs,
         m.body = Says(Peer(e), n + 1).body, Len(received'[e]) = n + 1, sent'[e] = sent[e]
  PROVE  /\ \E q \in Nat : q >= 6 /\ At(e, q)'
         /\ found' = found /\ refused' = refused
<1>1. /\ todo[e] = Ahead(e, p) /\ todo[e] # <<>>
      /\ Head(todo[e]).do \in {"await", "serve"}
  BY WaitsTodo
<1>2. todo'[e] = Heeded(e, p, m) /\ found' = found /\ refused' = refused
  BY <1>1, HandledIs DEF Heeded
<1>3. /\ Said(e, p + 1) = Said(e, p) /\ p \in Nat /\ p >= 6 /\ p < Last(e)
      /\ p + 1 \in 0..Last(e)
      /\ p + 1 = Last(e) /\ e # Sender => 8 \in Heard(e, p + 1) /\ Heard(e, p + 1) = Nat \ 0..7
  BY WaitSaid
<1>4. n \in Heard(e, p) /\ Len(sent[e]) = Said(e, p)
  BY <1>3, LastIs DEF At
<1>5. IsOn(e, p, n + 1, Heeded(e, p, m))
  <2>1. What(m) = What(Says(Peer(e), n + 1))
    BY DEF What
  <2>2. CASE e = "client"
    <3>1. Peer(e) = "server"
      BY <2>2 DEF Peer
    <3> QED
      BY <1>4, <2>1, <2>2, <3>1, ClientHeeds
  <2>3. CASE e = "server"
    <3>1. Peer(e) = "client"
      BY <2>3 DEF Peer
    <3> QED
      BY <1>4, <2>3, <3>1, ServerHeeds
  <2> QED
    BY <2>2, <2>3 DEF Ends
<1>6. CASE n + 1 \in Heard(e, p) /\ todo'[e] = Ahead(e, p)
  <2>1. p \in 0..Last(e) /\ p # Last(e)
    <3>1. Last(e) \in 15..23
      BY LastIs
    <3>2. p \in 0..Last(e)
      BY DEF At
    <3> QED
      BY <1>3, <3>1, <3>2
  <2>2. At(e, p)'
    BY <1>4, <1>6, <2>1, AtNext
  <2> QED
    BY <1>2, <1>3, <2>2
<1>7. CASE n + 1 \in Heard(e, p + 1) /\ todo'[e] = Ahead(e, p + 1)
  <2> DEFINE q == p + 1
  <2>1. q \in 0..Last(e) /\ n + 1 \in Heard(e, q) /\ Len(sent'[e]) = Said(e, q) /\ q >= 6
        /\ q \in Nat /\ todo'[e] = Ahead(e, q)
    BY <1>3, <1>4, <1>7
  <2>2. IF q = Last(e) THEN Len(sent'[e]) >= Words(e) ELSE Len(sent'[e]) = Said(e, q)
    <3>1. Said(e, Last(e)) = Words(e) /\ Words(e) \in 6..14
      BY LastIs
    <3> QED
      BY <2>1, <3>1
  <2>3. IF e # Sender /\ q = Last(e) THEN Finds(n + 1, todo'[e], found')
        ELSE todo'[e] = Ahead(e, q)
    <3>1. CASE e # Sender /\ q = Last(e)
      <4>1. todo'[e] = <<Detect>>
        BY <2>1, <3>1, ReceiverEnds
      <4>2. n + 1 = 8
        <5>1. n < 8
          BY <1>4, NextWord
        <5>2. n + 1 \in Nat \ 0..7
          BY <1>3, <2>1, <3>1
        <5> QED
          BY SMTT(30), <5>1, <5>2
      <4> QED
        BY <3>1, <4>1, <4>2, ReceiverEnds
    <3>2. CASE ~(e # Sender /\ q = Last(e))
      BY <2>1, <3>2
    <3> QED
      BY <3>1, <3>2
  <2> HIDE DEF q
  <2>4. At(e, q)'
    BY <2>1, <2>2, <2>3, AtNext
  <2> QED
    BY <1>2, <2>1, <2>4
<1> QED
  BY <1>2, <1>5, <1>6, <1>7 DEF IsOn

LEMMA ReadsFound ==
  ASSUME Choices, Shapes, UNCHANGED choices, NEW e \in Ends, e # Sender, NEW p, p = Last(e),
         At(e, p), NEW n, n = Len(received[e]), n \in Nat, n >= 8, NEW m, Handled(e, m),
         tracks # {}, AllSteps(todo[e]), announced = tracks => Calm,
         Speech(Peer(e)), n + 1 \in DOMAIN sent[Peer(e)],
         m.type = sent[Peer(e)][n + 1].type, m.body = sent[Peer(e)][n + 1].body,
         Len(received'[e]) = n + 1, Len(sent'[e]) >= Words(e)
  PROVE  At(e, p)' /\ (announced = tracks => Calm')
<1>1. Peer(e) \in Ends /\ Peer(e) = Sender
  BY EndsAre DEF Sender, Ends, Peer
<1>2. Tells(n + 1, m)
  <2>1. n + 1 \in Nat /\ n + 1 >= 9
    OBVIOUS
  <2> QED
    BY <1>1, <2>1, SenderTells
<1>3. Finds(n, todo[e], found)
  BY DEF At
<1>4. Finds(n + 1, todo'[e], found') /\ (announced = tracks => Calm')
  BY <1>2, <1>3, FindsOn
<1>5. p \in 0..Last(e) /\ n + 1 \in Heard(e, p)
  <2>1. Last(e) \in 15..23
    BY LastIs
  <2>2. n + 1 \in Nat \ 0..7
    OBVIOUS
  <2> QED
    BY SMTT(30), <2>1, <2>2, ReceiverHears
<1>6. At(e, p)'
  BY <1>4, <1>5, AtNext
<1> QED
  BY <1>4, <1>6

LEMMA TalkReads ==
  ASSUME LinkInv, TalkInv, NEW e \in Ends, ReadChunk(e), NEW c, c = Head(wire[Peer(e)]),
         IsReadable(reader[e], c)
  PROVE  TalkInv'
<1> DEFINE o == Peer(e)
<1> DEFINE r == Counted(Read(reader[e], c), Weight(c))
<1> DEFINE a == AckedOf(r)
<1> DEFINE n == Len(received[e])
<1> DEFINE m == sent[o][n + 1]
<1> DEFINE wires == [wire EXCEPT ![o] = Tail(@)]
<1> DEFINE msg == Message(a, c)
<1> DEFINE rd2 == Applied(Taken(a, c), msg)
<1> DEFINE s2 == IF AckNeeded(r) THEN Append(sent[e], Acknowledge(r.count)) ELSE sent[e]
<1>0. o \in Ends /\ o # e
  BY EndsAre
<1>1. /\ Open /\ wire[o] # <<>> /\ UNCHANGED choices
      /\ todo[e] = <<>> \/ Head(todo[e]).do \in {"await", "serve", "detect"}
  BY ReadChunkIs
<1>2. todo[e] = <<>> => e # Sender
  BY Zenon DEF ReadChunk, Reading, Doing
<1>3. /\ Choices /\ Shapes /\ \E T : todo[e] \in Seq(T)
      /\ reader[e] \in Readers(Parts) /\ sent[e] \in Seq(Messages(Parts))
      /\ received[e] \in Seq(Messages(Parts)) /\ AllSound(sent[e])
  BY <1>1, EndIs
<1>s. /\ r = Counted(Read(reader[e], c), Weight(c)) /\ a = AckedOf(r)
      /\ n = Len(received[e]) /\ m = sent[o][n + 1]
      /\ m = sent[o][Len(received[e]) + 1] /\ s2 = Acks(sent[e], r)
      /\ s2 = IF AckNeeded(r) THEN Append(sent[e], Acknowledge(r.count)) ELSE sent[e]
  BY DEF Acks
<1> HIDE DEF r, a, m, n, wires, msg, rd2, s2
<1>4. /\ IsPart(e, c, n, m, r, a)
      /\ IsReadBy(e, c, r, a, wires)
      /\ Linked(0, wire[o], writer[o], reader[e], sent[o], received[e])
      /\ a \in Readers(Parts) /\ a.streams = Read(reader[e], c).streams
      /\ a.chunkSize = reader[e].chunkSize
      /\ Complete(r, c) <=> Complete(a, c)
      /\ r.count \in Nat
  BY SMTT(30), <1>s, ReadsPart DEF wires
<1>5. Talks(e) /\ Talks(o) /\ tracks # {} /\ (announced = tracks => Calm)
  BY <1>0 DEF TalkInv
<1>6. PICK p \in Nat : At(e, p) /\ Tally(e, p)
  BY <1>5 DEF Talks
<1>7. /\ n + 1 \in DOMAIN sent[o] /\ Speech(o) /\ Speech(e)
  BY <1>4, <1>5 DEF IsPart, Talks
<1>8. /\ p >= 6 /\ n \in Nat /\ n \in Heard(e, p)
      /\ p \in Waits(e) \/ (p = Last(e) /\ e # Sender)
      /\ n < 8 <=> p \in Waits(e)
      /\ n < 8 => n + 1 <= Words(o) /\ m = Says(o, n + 1)
  BY <1>1, <1>2, <1>3, <1>6, <1>7, <1>s, ReadsWord
<1>9. AllSteps(todo[e])
  <2>1. PICK h \in [Ends -> 0..6] : \A y \in Ends : Goes(h, y)
    BY <1>1 DEF LinkInv, Steady
  <2>2. h[e] \in 0..6 /\ Program(e, h[e], todo[e])
    BY <2>1, SteadyIs
  <2>3. h[e] = 6
    BY <1>1, <2>2, ProgramIsSteps
  <2> QED
    BY <2>2, <2>3, ProgramIsSteps
<1>10. ASSUME NEW n2, NEW x, NEW q \in Nat, q >= 6, HasRead(c, n, m, r, a, n2, x)
       PROVE  AcksLate(r, n) /\ HasTally(e, q, x, s2, n2)
  <2>1. IsWord(e, n, m)
    BY <1>8 DEF IsWord
  <2> QED
    BY <1>3, <1>4, <1>6, <1>8, <1>10, <1>s, <2>1, TallyReads
<1>on. HasRead(c, n, m, r, a, n, a)
  BY DEF HasRead
<1>late. AckNeeded(r) => n >= 8
  BY <1>8, <1>10, <1>on DEF AcksLate
<1>11. AckNeeded(r) => Len(sent[e]) >= Words(e) /\ e # Sender /\ p = Last(e)
  <2> SUFFICES ASSUME AckNeeded(r) PROVE Len(sent[e]) >= Words(e) /\ e # Sender /\ p = Last(e)
    OBVIOUS
  <2>1. ~(n < 8)
    BY <1>8, <1>late
  <2>2. p = Last(e) /\ e # Sender
    BY <1>8, <2>1
  <2> QED
    BY <1>6, <2>2 DEF At
<1>12. /\ sent'[e] = s2 /\ sent'[o] = sent[o] /\ Speech(e)'
       /\ Len(sent'[e]) = IF AckNeeded(r) THEN Len(sent[e]) + 1 ELSE Len(sent[e])
  <2>1. Words(e) \in Nat
    <3>1. Words(e) \in 6..14
      BY <1>3, LastIs
    <3> QED
      BY <3>1
  <2> QED
    BY <1>1, <1>3, <1>4, <1>7, <1>11, <1>s, <2>1, ReadsSays
<1>13. p \in Waits(e) => ~AckNeeded(r)
  BY <1>8, <1>late
<1>14. ASSUME ~Complete(r, c)
       PROVE  TalkInv'
  <2>1. reader' = [reader EXCEPT ![e] = a] /\ UNCHANGED <<todo, found, received, refused>>
    BY <1>4, <1>14 DEF IsReadBy
  <2>2. reader'[e] = a /\ reader'[o] = reader[o]
    BY <1>0, <1>3, <2>1 DEF Shapes
  <2>3. At(e, p)'
    <3> DEFINE y == Len(sent'[e])
    <3>1. y \in {Len(sent[e]), Len(sent[e]) + 1} /\ (p \in Waits(e) => y = Len(sent[e]))
          /\ Len(sent[e]) \in Nat
      BY <1>3, <1>12, <1>13
    <3>2. Len(sent'[e]) = y
      OBVIOUS
    <3> HIDE DEF y
    <3> QED
      BY <1>1, <1>3, <1>6, <1>8, <2>1, <3>1, <3>2, ReadsOnAt
  <2>4. \E N, A, V \in Nat : IsTally(e, p, a, s2, n, N, A, V)
    BY <1>8, <1>10, <1>on DEF HasTally
  <2>5. Tally(e, p)'
    <3>1. PICK N \in Nat, A \in Nat, V \in Nat : IsTally(e, p, a, s2, n, N, A, V)
      BY <2>4
    <3>2. IsTally(e, p, reader'[e], sent'[e], Len(received'[e]), N, A, V)
      BY <1>12, <1>s, <2>1, <2>2, <3>1
    <3> QED
      BY <3>2 DEF Tally
  <2>6. Talks(e)'
    BY <1>12, <2>3, <2>5 DEF Talks
  <2>7. Talks(o)'
    BY <1>0, <1>1, <1>5, <1>12, <2>1, <2>2, OthersStay
  <2>8. announced = tracks => Calm'
    BY <1>5, <2>1, Zenon DEF Calm
  <2> QED
    BY <1>1, <2>6, <2>7, <2>8, TalkGoesOn
<1>15. ASSUME Complete(r, c)
       PROVE  TalkInv'
  <2>1. /\ reader' = [reader EXCEPT ![e] = rd2]
        /\ received' = [received EXCEPT ![e] = Append(@, msg)]
        /\ Handled(e, msg)
    BY <1>4, <1>15 DEF IsReadBy, rd2, msg
  <2>2. /\ reader'[e] = rd2 /\ reader'[o] = reader[o]
        /\ received'[e] = Append(received[e], msg) /\ received'[o] = received[o]
    BY <1>0, <1>3, <2>1 DEF Shapes
  <2>3. /\ IsReceived(msg, m, rd2)
        /\ rd2.count = a.count /\ rd2.lastAck = a.lastAck
        /\ rd2.chunkSize \in {a.chunkSize, ChunkSize}
        /\ rd2.window = IF msg.type = "SetWindowAckSize" THEN Window ELSE a.window
        /\ \A cs \in ChunkStreams : rd2.streams[cs].body = <<>>
    <3>1. Complete(a, c)
      BY <1>4, <1>15
    <3>2. c = Head(wire[o]) /\ msg = Message(a, Head(wire[o]))
          /\ rd2 = Applied(Taken(a, Head(wire[o])), msg)
          /\ IsReadable(reader[e], Head(wire[o])) /\ Complete(a, Head(wire[o]))
          /\ a.streams = Read(reader[e], Head(wire[o])).streams
      BY <1>4, <3>1 DEF msg, rd2
    <3>3. /\ IsReceived(msg, sent[o][Len(received[e]) + 1], rd2)
          /\ rd2.count = a.count /\ rd2.lastAck = a.lastAck
          /\ rd2.chunkSize \in {a.chunkSize, ChunkSize}
          /\ rd2.window = IF msg.type = "SetWindowAckSize" THEN Window ELSE a.window
          /\ \A cs \in ChunkStreams : rd2.streams[cs].body = <<>>
      BY <1>1, <1>4, <3>2, LinkReadsLast
    <3> QED
      BY <1>s, <3>3
  <2>4. Sound(msg) /\ msg.type = m.type /\ msg.cs = m.cs /\ msg.body = m.body
    BY <2>3 DEF IsReceived
  <2>5. Len(received'[e]) = n + 1
    <3>1. msg \in Messages(Parts)
      BY <2>4 DEF Sound
    <3> QED
      BY <1>3, <1>s, <2>2, <3>1
  <2>6. todo'[o] = todo[o]
    <3>1. GoesOn(e)
      BY <1>1, <1>3, <1>9, <2>1, <2>4, HandledGoesOn
    <3> QED
      BY <3>1 DEF GoesOn
  <2>7. ASSUME NEW q \in Nat, q >= 6
        PROVE  Tally(e, q)'
    <3>1. rd2.window = IF m.type = "SetWindowAckSize" THEN Window ELSE a.window
      BY <2>3, <2>4
    <3>2. \E N, A, V \in Nat : IsTally(e, q, rd2, s2, n + 1, N, A, V)
      <4> DEFINE n2 == n + 1
      <4>1. HasRead(c, n, m, r, a, n2, rd2)
        BY <1>15, <2>3, <3>1 DEF HasRead
      <4> HIDE DEF n2
      <4>2. HasTally(e, q, rd2, s2, n2)
        BY <1>10, <2>7, <4>1
      <4> QED
        BY <4>2 DEF HasTally, n2
    <3>3. PICK N \in Nat, A \in Nat, V \in Nat : IsTally(e, q, rd2, s2, n + 1, N, A, V)
      BY <3>2
    <3>4. IsTally(e, q, reader'[e], sent'[e], Len(received'[e]), N, A, V)
      BY <1>12, <2>2, <2>5, <3>3
    <3> QED
      BY <3>4 DEF Tally
  <2>8. CASE p \in Waits(e)
    <3>1. sent'[e] = sent[e]
      BY <1>12, <1>13, <1>s, <2>8
    <3>2. m = Says(o, n + 1)
      BY <1>8, <2>8
    <3>3. /\ \E q \in Nat : q >= 6 /\ At(e, q)'
          /\ found' = found /\ refused' = refused
      <4>1. msg.type = Says(o, n + 1).type /\ msg.cs = Says(o, n + 1).cs
            /\ msg.body = Says(o, n + 1).body
        BY <2>4, <3>2
      <4> QED
        BY <1>1, <1>3, <1>6, <1>8, <2>1, <2>5, <2>8, <3>1, <4>1, <1>s, ReadsLastAt
    <3>4. Talks(e)'
      <4>1. PICK q \in Nat : q >= 6 /\ At(e, q)'
        BY <3>3
      <4>2. Tally(e, q)'
        BY <2>7, <4>1
      <4> QED
        BY <1>12, <4>1, <4>2 DEF Talks
    <3>5. Talks(o)'
      BY <1>0, <1>1, <1>5, <1>12, <2>2, <2>6, <3>3, OthersStay
    <3>6. announced = tracks => Calm'
      BY <1>5, <3>3, Zenon DEF Calm
    <3> QED
      BY <1>1, <3>4, <3>5, <3>6, TalkGoesOn
  <2>9. CASE p = Last(e) /\ e # Sender /\ p \notin Waits(e)
    <3>1. n >= 8
      BY <1>8, <2>9
    <3>2. Len(sent'[e]) >= Words(e)
      <4>1. Len(sent[e]) >= Words(e)
        BY <1>6, <2>9 DEF At
      <4>2. Len(sent[e]) \in Nat /\ Words(e) \in 6..14
        BY <1>3, LastIs
      <4> QED
        BY <1>12, <4>1, <4>2
    <3>3. At(e, p)' /\ (announced = tracks => Calm')
      <4>1. msg.type = sent[o][n + 1].type /\ msg.body = sent[o][n + 1].body
        BY <1>s, <2>4
      <4> QED
        BY <1>1, <1>3, <1>5, <1>6, <1>7, <1>8, <1>9, <1>s, <2>1, <2>5, <2>9, <3>1, <3>2, <4>1,
           ReadsFound
    <3>4. Talks(e)'
      <4>1. Tally(e, p)'
        BY <1>8, <2>7
      <4> QED
        BY <1>12, <3>3, <4>1 DEF Talks
    <3>5. Talks(o)'
      <4>1. o = Sender
        BY <2>9 DEF Sender, Peer, Ends
      <4> QED
        BY <1>0, <1>1, <1>5, <1>12, <2>2, <2>6, <4>1, OthersStay
    <3> QED
      BY <1>1, <3>3, <3>4, <3>5, TalkGoesOn
  <2> QED
    BY <1>8, <2>8, <2>9
<1> QED
  BY <1>14, <1>15
-----------------------------------------------------------------------------
(* How it starts: what both have to do is what lies ahead of them from the start. *)
Runs(e, s, p, n) ==
  /\ \E S : s \in Seq(S)
  /\ Len(s) = n /\ \A i \in 1..n : s[i] = StepAt(e, p + i)

LEMMA RunsJoin ==
  ASSUME NEW e, NEW a, NEW b, NEW p \in Nat, NEW n \in Nat, NEW k \in Nat,
         Runs(e, a, p, n), Runs(e, b, p + n, k)
  PROVE  Runs(e, a \o b, p, n + k)
<1> DEFINE s == a \o b
<1>1. /\ s = [i \in 1..(n + k) |-> IF i <= n THEN a[i] ELSE b[i - n]]
      /\ \E S : s \in Seq(S)
      /\ Len(s) = n + k
  <2>1. (\E S : a \in Seq(S)) /\ (\E S : b \in Seq(S))
    BY DEF Runs
  <2>2. Len(a) = n /\ Len(b) = k
    BY DEF Runs
  <2>3. /\ a \o b = [i \in 1..(Len(a) + Len(b)) |->
                     IF i <= Len(a) THEN a[i] ELSE b[i - Len(a)]]
        /\ \E S : a \o b \in Seq(S)
        /\ Len(a \o b) = Len(a) + Len(b) /\ Len(a) \in Nat /\ Len(b) \in Nat
    BY <2>1, JoinIs
  <2> QED
    BY <2>2, <2>3
<1> HIDE DEF s
<1>2. ASSUME NEW i \in 1..(n + k)
      PROVE  s[i] = StepAt(e, p + i)
  <2>1. CASE i <= n
    <3>1. i \in 1..n /\ s[i] = a[i]
      BY <1>1, <2>1
    <3> QED
      BY <3>1 DEF Runs
  <2>2. CASE ~(i <= n)
    <3>1. i - n \in 1..k /\ s[i] = b[i - n] /\ (p + n) + (i - n) = p + i
      BY <1>1, <2>2
    <3>2. b[i - n] = StepAt(e, (p + n) + (i - n))
      BY <3>1 DEF Runs
    <3> QED
      BY <3>1, <3>2
  <2> QED
    BY <2>1, <2>2
<1>3. Runs(e, s, p, n + k)
  BY <1>1, <1>2 DEF Runs
<1> QED
  BY <1>3 DEF s

LEMMA RunsAhead ==
  ASSUME NEW e, NEW s, NEW p \in Nat, NEW n \in Nat, Runs(e, s, p, n), Stop(e, p) - p = n
  PROVE  s = Ahead(e, p)
<1> DEFINE F(i) == StepAt(e, p + i)
<1>1. /\ \E S : s \in Seq(S)
      /\ Len(s) = n /\ \A i \in 1..n : s[i] = F(i)
  BY DEF Runs
<1>2. Ahead(e, p) = [i \in 1..n |-> F(i)]
  BY DEF Ahead
<1> HIDE DEF F
<1>3. PICK S : s \in Seq(S)
  BY <1>1
<1>4. s \in [1..n -> S]
  BY <1>1, <1>3
<1>5. s = [i \in 1..n |-> F(i)]
  BY <1>1, <1>4
<1> QED
  BY <1>2, <1>5

LEMMA HandshakesRun ==
  ASSUME Choices
  PROVE  Runs("client", ClientHandshake, 0, 6) /\ Runs("server", ServerHandshake, 0, 6)
<1>1. \A j \in 1..6 : /\ StepAt("client", 0 + j) = ClientHandshake[j]
                      /\ StepAt("server", 0 + j) = ServerHandshake[j]
  <2>1. ASSUME NEW e \in Ends, NEW p \in 0..5
        PROVE  StepAt(e, p + 1) = IF e = "client" THEN ClientHandshake[p + 1]
                                  ELSE ServerHandshake[p + 1]
    <3>1. Last(e) \in 15..23
      BY LastIs
    <3> QED
      BY <3>1 DEF StepAt
  <2>2. "client" \in Ends /\ "server" \in Ends
    BY DEF Ends
  <2>3. \A j \in 1..6 : j - 1 \in 0..5 /\ (j - 1) + 1 = j /\ 0 + j = j
    OBVIOUS
  <2>4. \A j \in 1..6 : /\ StepAt("client", (j - 1) + 1) = ClientHandshake[(j - 1) + 1]
                        /\ StepAt("server", (j - 1) + 1) = ServerHandshake[(j - 1) + 1]
    BY <2>1, <2>2, <2>3
  <2> QED
    BY <2>3, <2>4
<1>2. ClientHandshake \in Seq({Put("C0"), Put("C1"), Get("S0"), Get("S1"), Get("S2"), Put("C2")})
      /\ Len(ClientHandshake) = 6
  <2> DEFINE a == Put("C0")
  <2> DEFINE b == Put("C1")
  <2> DEFINE c == Get("S0")
  <2> DEFINE d == Get("S1")
  <2> DEFINE f == Get("S2")
  <2> DEFINE g == Put("C2")
  <2>1. ClientHandshake = <<a, b, c, d, f, g>>
    BY DEF ClientHandshake
  <2> HIDE DEF a, b, c, d, f, g
  <2>2. <<a, b, c, d, f, g>> \in Seq({a, b, c, d, f, g}) /\ Len(<<a, b, c, d, f, g>>) = 6
    OBVIOUS
  <2> QED
    BY <2>1, <2>2 DEF a, b, c, d, f, g
<1>3. ServerHandshake \in Seq({Get("C0"), Get("C1"), Put("S0"), Put("S1"), Put("S2"), Get("C2")})
      /\ Len(ServerHandshake) = 6
  <2> DEFINE a == Get("C0")
  <2> DEFINE b == Get("C1")
  <2> DEFINE c == Put("S0")
  <2> DEFINE d == Put("S1")
  <2> DEFINE f == Put("S2")
  <2> DEFINE g == Get("C2")
  <2>1. ServerHandshake = <<a, b, c, d, f, g>>
    BY DEF ServerHandshake
  <2> HIDE DEF a, b, c, d, f, g
  <2>2. <<a, b, c, d, f, g>> \in Seq({a, b, c, d, f, g}) /\ Len(<<a, b, c, d, f, g>>) = 6
    OBVIOUS
  <2> QED
    BY <2>1, <2>2 DEF a, b, c, d, f, g
<1> QED
  BY <1>1, <1>2, <1>3 DEF Runs

LEMMA ConnectRuns ==
  ASSUME Choices
  PROVE  Runs("client", Connect, 0, 11)
<1> DEFINE T == Len(Tracks)
<1>1. publish \in BOOLEAN /\ T \in 0..3
  BY TracksAre DEF Choices
<1>2. Last("client") \in 15..23
  BY LastIs DEF Ends
<1>3. \A j \in 7..10 : StepAt("client", j) = Write(Says("client", j - 6))
  BY SMTT(30), <1>1, <1>2 DEF StepAt, Said
<1>4. StepAt("client", 11) = Await("_result", 1)
  BY <1>1, <1>2 DEF StepAt
<1>5. /\ Says("client", 1) = SetWindowAckSize /\ Says("client", 2) = SetPeerBandwidth
      /\ Says("client", 3) = SetChunkSize /\ Says("client", 4) = Command(3, 0, "connect", 1)
  BY DEF Says
<1>6. Runs("client", Settings, 6, 3)
  <2> DEFINE a == Write(SetWindowAckSize)
  <2> DEFINE b == Write(SetPeerBandwidth)
  <2> DEFINE c == Write(SetChunkSize)
  <2>1. Settings = <<a, b, c>>
    BY DEF Settings
  <2>2. StepAt("client", 7) = a /\ StepAt("client", 8) = b /\ StepAt("client", 9) = c
    BY <1>3, <1>5
  <2> HIDE DEF a, b, c
  <2>3. <<a, b, c>> \in Seq({a, b, c}) /\ Len(<<a, b, c>>) = 3
        /\ <<a, b, c>>[1] = a /\ <<a, b, c>>[2] = b /\ <<a, b, c>>[3] = c
    OBVIOUS
  <2>4. \A i \in 1..3 : Settings[i] = StepAt("client", 6 + i)
    BY <2>1, <2>2, <2>3
  <2> QED
    BY <2>1, <2>3, <2>4 DEF Runs
<1>7. Runs("client", <<Write(Command(3, 0, "connect", 1)), Await("_result", 1)>>, 9, 2)
  <2> DEFINE a == Write(Command(3, 0, "connect", 1))
  <2> DEFINE b == Await("_result", 1)
  <2>2. StepAt("client", 10) = a /\ StepAt("client", 11) = b
    BY <1>3, <1>4, <1>5
  <2> HIDE DEF a, b
  <2>3. <<a, b>> \in Seq({a, b}) /\ Len(<<a, b>>) = 2 /\ <<a, b>>[1] = a /\ <<a, b>>[2] = b
    OBVIOUS
  <2>4. \A i \in 1..2 : <<a, b>>[i] = StepAt("client", 9 + i)
    BY <2>2, <2>3
  <2>5. Runs("client", <<a, b>>, 9, 2)
    BY <2>3, <2>4 DEF Runs
  <2> QED
    BY <2>5 DEF a, b
<1>8. Runs("client", ClientHandshake \o Settings, 0, 6 + 3)
  <2>1. Runs("client", ClientHandshake, 0, 6) /\ Runs("client", Settings, 0 + 6, 3)
    BY <1>6, HandshakesRun
  <2> QED
    BY <2>1, RunsJoin
<1> DEFINE x == ClientHandshake \o Settings
<1> DEFINE y == <<Write(Command(3, 0, "connect", 1)), Await("_result", 1)>>
<1>9. Connect = x \o y
  BY DEF Connect
<1>10. Runs("client", x, 0, 9) /\ Runs("client", y, 0 + 9, 2)
  BY <1>7, <1>8
<1> HIDE DEF x, y
<1>11. Runs("client", x \o y, 0, 9 + 2)
  BY <1>10, RunsJoin
<1> QED
  BY <1>9, <1>11

LEMMA PublishRuns ==
  ASSUME Choices, publish
  PROVE  Runs("client", Publish, 11, 6) /\ Runs("client", Tracks, 17, Len(Tracks))
<1> DEFINE T == Len(Tracks)
<1>1. T \in 0..3 /\ Last("client") = 17 + T /\ Sender = "client" /\ \E S : Tracks \in Seq(S)
  BY TracksAre DEF Last, Sender
<1>2. \A j \in 12..14 : StepAt("client", j) = Write(Says("client", j - 7))
  BY <1>1 DEF StepAt, Said
<1>3. StepAt("client", 15) = Await("_result", 4) /\ StepAt("client", 17) = Await("onStatus", 5)
  BY <1>1 DEF StepAt
<1>4. StepAt("client", 16) = Write(Says("client", 8))
  <2>1. \A p \in 15..16 : Said("client", p) = p - 8
    BY DEF Said
  <2>2. Said("client", 16) = 8
    BY <2>1
  <2>3. StepAt("client", 16) = Write(Says("client", Said("client", 16)))
    BY <1>1 DEF StepAt
  <2> QED
    BY <2>2, <2>3
<1>5. ASSUME NEW k \in 1..T
      PROVE  StepAt("client", 17 + k) = Tracks[k]
  <2>1. Said("client", 17 + k) = 8 + k
    <3>1. \A p \in Nat : p > 16 => Said("client", p) = p - 9
      BY SMTT(30) DEF Said
    <3>2. 17 + k \in Nat /\ 17 + k > 16 /\ (17 + k) - 9 = 8 + k
      BY <1>1
    <3> QED
      BY <3>1, <3>2
  <2>2. StepAt("client", 17 + k) = Write(Says("client", Said("client", 17 + k)))
    <3>1. \A j \in Nat : j > 17 => StepAt("client", j) = Write(Says("client", Said("client", j)))
      BY <1>1 DEF StepAt
    <3>2. 17 + k \in Nat /\ 17 + k > 17
      BY <1>1
    <3> QED
      BY <3>1, <3>2
  <2>3. Says("client", 8 + k) = Tracks[k].msg
    <3>1. \A i \in Nat : i > 8 => Says("client", i) = Tracks[i - 8].msg
      BY DEF Says, ClientPublishes
    <3>2. 8 + k \in Nat /\ 8 + k > 8 /\ (8 + k) - 8 = k
      BY <1>1
    <3> QED
      BY <3>1, <3>2
  <2>4. Tracks[k] = Write(Tracks[k].msg)
    BY TrackMsgs
  <2> QED
    BY <2>1, <2>2, <2>3, <2>4
<1>6. Runs("client", Tracks, 17, T)
  BY <1>1, <1>5 DEF Runs
<1>7. Runs("client", Publish, 11, 6)
  <2> DEFINE a == Write(Command(3, 0, "releaseStream", 2))
  <2> DEFINE b == Write(Command(3, 0, "FCPublish", 3))
  <2> DEFINE c == Write(Command(3, 0, "createStream", 4))
  <2> DEFINE d == Await("_result", 4)
  <2> DEFINE f == Write(Command(4, 1, "publish", 5))
  <2> DEFINE g == Await("onStatus", 5)
  <2>0. /\ Says("client", 5) = Command(3, 0, "releaseStream", 2)
        /\ Says("client", 6) = Command(3, 0, "FCPublish", 3)
        /\ Says("client", 7) = Command(3, 0, "createStream", 4)
        /\ Says("client", 8) = Command(4, 1, "publish", 5)
    BY DEF Says, ClientPublishes
  <2>1. Publish = <<a, b, c, d, f, g>>
    BY DEF Publish
  <2>2. /\ StepAt("client", 12) = a /\ StepAt("client", 13) = b /\ StepAt("client", 14) = c
        /\ StepAt("client", 15) = d /\ StepAt("client", 16) = f /\ StepAt("client", 17) = g
    BY <1>2, <1>3, <1>4, <2>0
  <2> HIDE DEF a, b, c, d, f, g
  <2>3. <<a, b, c, d, f, g>> \in Seq({a, b, c, d, f, g}) /\ Len(<<a, b, c, d, f, g>>) = 6
    OBVIOUS
  <2>4. \A i \in 1..6 : <<a, b, c, d, f, g>>[i] = StepAt("client", 11 + i)
    BY <2>2
  <2> QED
    BY <2>1, <2>3, <2>4 DEF Runs
<1> QED
  BY <1>6, <1>7

LEMMA PlayRuns ==
  ASSUME Choices, ~publish
  PROVE  Runs("client", Play, 11, 6)
<1>1. Last("client") = 16 /\ Sender = "server"
  BY DEF Last, Sender
<1>2. Said("client", 12) = 5 /\ Said("client", 14) = 6 /\ Said("client", 15) = 7
  <2>1. \A p \in 11..12 : Said("client", p) = p - 7
    BY DEF Said
  <2>2. \A p \in 13..14 : Said("client", p) = p - 8
    BY DEF Said
  <2>3. \A p \in 15..16 : Said("client", p) = 7
    BY DEF Said
  <2> QED
    BY <2>1, <2>2, <2>3
<1>3. \A j \in {12, 14, 15} : StepAt("client", j) = Write(Says("client", Said("client", j)))
  BY <1>1 DEF StepAt
<1>4. /\ StepAt("client", 13) = Await("_result", 2) /\ StepAt("client", 16) = Await("onStatus", 3)
      /\ StepAt("client", 17) = Detect
  BY <1>1 DEF StepAt
<1>5. /\ Says("client", 5) = Command(3, 0, "createStream", 2)
      /\ Says("client", 6) = UserControl("SetBufferLength")
      /\ Says("client", 7) = Command(4, 1, "play", 3)
  BY DEF Says, ClientPlays
<1> DEFINE a == Write(Command(3, 0, "createStream", 2))
<1> DEFINE b == Await("_result", 2)
<1> DEFINE c == Write(UserControl("SetBufferLength"))
<1> DEFINE d == Write(Command(4, 1, "play", 3))
<1> DEFINE f == Await("onStatus", 3)
<1> DEFINE g == Detect
<1>6. Play = <<a, b, c, d, f, g>>
  BY DEF Play
<1>7. /\ StepAt("client", 12) = a /\ StepAt("client", 13) = b /\ StepAt("client", 14) = c
      /\ StepAt("client", 15) = d /\ StepAt("client", 16) = f /\ StepAt("client", 17) = g
  BY <1>2, <1>3, <1>4, <1>5
<1> HIDE DEF a, b, c, d, f, g
<1>8. <<a, b, c, d, f, g>> \in Seq({a, b, c, d, f, g}) /\ Len(<<a, b, c, d, f, g>>) = 6
  OBVIOUS
<1>9. \A i \in 1..6 : <<a, b, c, d, f, g>>[i] = StepAt("client", 11 + i)
  BY <1>7
<1> QED
  BY <1>6, <1>8, <1>9 DEF Runs

(* Before anything is said, both are at the start of their programs. *)
LEMMA TalkInit ==
  ASSUME Init
  PROVE  TalkInv
<1>1. Choices
  BY DEF Init, Choices, Kinds
<1>2. tracks # {}
  <2>1. tracks \in (SUBSET {"audio", "video"}) \ {{}}
    BY Zenon DEF Init
  <2> QED
    BY <2>1
<1>3. Calm
  BY Zenon DEF Init, Calm
<1>4. ASSUME NEW e \in Ends
      PROVE  /\ sent[e] = <<>> /\ received[e] = <<>> /\ reader[e] = NewReader
             /\ todo[e] = IF e = "server" THEN ServerHandshake \o <<Serve>>
                          ELSE IF publish THEN Connect \o Publish \o Tracks
                          ELSE Connect \o Play
  BY <1>4 DEF Init
<1>5. ASSUME NEW e \in Ends
      PROVE  todo[e] = Ahead(e, 0)
  <2>0. "client" \in Ends /\ "server" \in Ends
    BY DEF Ends
  <2>1. CASE e = "server"
    <3>1. Runs("server", ServerHandshake, 0, 6)
      BY <1>1, HandshakesRun
    <3>2. Runs("server", <<Serve>>, 0 + 6, 1)
      <4>1. StepAt("server", 7) = Serve
        BY <1>1, ServerSteps
      <4>2. \A x : <<x>> \in Seq({x}) /\ Len(<<x>>) = 1 /\ <<x>>[1] = x
        OBVIOUS
      <4>3. \A i \in 1..1 : <<Serve>>[i] = StepAt("server", (0 + 6) + i)
        <5>1. \A i \in 1..1 : i = 1 /\ (0 + 6) + i = 7
          OBVIOUS
        <5>2. <<Serve>>[1] = Serve
          BY <4>2, Zenon
        <5> QED
          BY <4>1, <5>1, <5>2
      <4>4. <<Serve>> \in Seq({Serve}) /\ Len(<<Serve>>) = 1
        BY <4>2, Zenon
      <4> QED
        BY <4>3, <4>4 DEF Runs
    <3>3. Runs("server", ServerHandshake \o <<Serve>>, 0, 6 + 1)
      BY <3>1, <3>2, RunsJoin
    <3>4. Stop("server", 0) = 7
      BY DEF Stop
    <3>5. todo[e] = ServerHandshake \o <<Serve>>
      BY <1>4, <2>1
    <3>6. ServerHandshake \o <<Serve>> = Ahead("server", 0)
      <4>1. Stop("server", 0) - 0 = 6 + 1 /\ 6 + 1 \in Nat /\ 0 \in Nat
        BY <3>4
      <4> QED
        BY <3>3, <4>1, RunsAhead
    <3> QED
      BY <2>1, <3>5, <3>6
  <2>2. CASE e = "client" /\ publish
    <3> DEFINE T == Len(Tracks)
    <3>1. T \in Nat
      BY <1>1, TracksAre
    <3> DEFINE x == Connect \o Publish
    <3>2. Runs("client", x, 0, 11 + 6)
      <4>1. Runs("client", Connect, 0, 11) /\ Runs("client", Publish, 0 + 11, 6)
        BY <1>1, <2>2, ConnectRuns, PublishRuns
      <4> QED
        BY <4>1, RunsJoin
    <3>3. Runs("client", x, 0, 17) /\ Runs("client", Tracks, 0 + 17, T)
      BY <1>1, <2>2, <3>2, PublishRuns
    <3>4. todo[e] = x \o Tracks
      BY <1>4, <2>2
    <3>5. Stop("client", 0) = 17 + T
      BY <2>2 DEF Stop, Sender, Last
    <3> HIDE DEF T, x
    <3>6. Runs("client", x \o Tracks, 0, 17 + T)
      BY <3>1, <3>3, RunsJoin
    <3>7. x \o Tracks = Ahead("client", 0)
      <4>1. Stop("client", 0) - 0 = 17 + T /\ 17 + T \in Nat /\ 0 \in Nat
        BY <3>1, <3>5
      <4> QED
        BY <3>6, <4>1, RunsAhead
    <3> QED
      BY <2>2, <3>4, <3>7
  <2>3. CASE e = "client" /\ ~publish
    <3>1. Runs("client", Connect, 0, 11) /\ Runs("client", Play, 0 + 11, 6)
      BY <1>1, <2>3, ConnectRuns, PlayRuns
    <3>2. Runs("client", Connect \o Play, 0, 11 + 6)
      BY <3>1, RunsJoin
    <3>3. todo[e] = Connect \o Play
      BY <1>4, <2>3
    <3>4. Stop("client", 0) = 17
      BY <2>3 DEF Stop, Sender, Last
    <3>5. Connect \o Play = Ahead("client", 0)
      <4>1. Stop("client", 0) - 0 = 11 + 6 /\ 11 + 6 \in Nat /\ 0 \in Nat
        BY <3>4
      <4> QED
        BY <3>2, <4>1, RunsAhead
    <3> QED
      BY <2>3, <3>3, <3>5
  <2> QED
    BY <2>1, <2>2, <2>3, <1>1 DEF Ends, Choices
<1>6. ASSUME NEW e \in Ends
      PROVE  At(e, 0)
  <2>1. Last(e) \in 15..23 /\ Said(e, 0) = 0 /\ Heard(e, 0) = 0..0
    BY <1>1, LastIs
  <2>2. Len(sent[e]) = 0 /\ Len(received[e]) = 0
    BY <1>4
  <2>3. 0 \in 0..Last(e) /\ 0 # Last(e) /\ 0 \in 0..0
    BY <2>1
  <2>4. todo[e] = Ahead(e, 0)
    BY <1>5
  <2> QED
    BY <2>1, <2>2, <2>3, <2>4 DEF At
<1>7. ASSUME NEW e \in Ends
      PROVE  Tally(e, 0)
  <2>1. LastAck(<<>>, 0)
    BY DEF LastAck
  <2>2. NewReader.count = 0 /\ NewReader.lastAck = 0 /\ NewReader.window = 0
        /\ NewReader.chunkSize = InitialChunkSize
    BY DEF NewReader
  <2>3. Gets(e, 0) = 0
    BY HandshakeCounts
  <2>4. 0 % CountMod = 0 /\ Window \in Nat
    BY ChunkAssumption, LinkAssumption
  <2>5. IsCounted(NewReader, <<>>, 0, 0, 0)
    BY <2>1, <2>2, <2>4 DEF IsCounted
  <2>6. IsTally(e, 0, NewReader, <<>>, 0, 0, 0, 0)
    BY <2>2, <2>3, <2>5 DEF IsTally
  <2>7. reader[e] = NewReader /\ sent[e] = <<>> /\ Len(received[e]) = 0
    BY <1>4
  <2>8. IsTally(e, 0, reader[e], sent[e], Len(received[e]), 0, 0, 0)
    BY <2>6, <2>7, Zenon
  <2> QED
    BY <2>8 DEF Tally
<1>8. ASSUME NEW e \in Ends
      PROVE  Talks(e)
  <2>1. Speech(e)
    BY <1>4 DEF Speech
  <2> QED
    BY <1>6, <1>7, <2>1 DEF Talks
<1> QED
  BY <1>2, <1>3, <1>8 DEF TalkInv

-----------------------------------------------------------------------------
(* Every step of the connection keeps both to their programs. *)
LEMMA TalkNext ==
  ASSUME LinkInv, TalkInv, [Next]_vars
  PROVE  TalkInv'
<1>1. ASSUME NEW e \in Ends, PutPart(e)
      PROVE  TalkInv'
  BY <1>1, TalkPut
<1>2. ASSUME NEW e \in Ends, GetPart(e)
      PROVE  TalkInv'
  BY <1>2, TalkGet
<1>3. ASSUME NEW e \in Ends, WriteMessage(e)
      PROVE  TalkInv'
  BY <1>3, TalkWrite
<1>4. ASSUME NEW e \in Ends, ReadChunk(e)
      PROVE  TalkInv'
  <2>1. PICK c : c = Head(wire[Peer(e)])
    OBVIOUS
  <2>2. CASE IsReadable(reader[e], c)
    BY <1>4, <2>1, <2>2, TalkReads
  <2>3. CASE ~IsReadable(reader[e], c)
    BY <1>4, <2>1, <2>3, TalkFault
  <2> QED
    BY <2>2, <2>3
<1>5. CASE WriteUnit
  <2>1. PICK e \in Ends : e = Sender
    BY DEF Ends, Sender
  <2> QED
    BY <1>5, <2>1, TalkUnit
<1>6. CASE UNCHANGED vars
  <2>1. UNCHANGED <<publish, tracks, late, announced, wire, writer, reader, todo, found, sent,
                    received, refused>>
    BY <1>6 DEF vars, choices
  <2>2. UNCHANGED choices
    BY <2>1 DEF choices
  <2>3. \A e \in Ends : Talks(e)
    BY DEF TalkInv
  <2>4. ASSUME NEW e \in Ends
        PROVE  Talks(e)'
    BY <2>1, <2>2, <2>3, OthersStay
  <2>5. Calm' = Calm
    BY <2>1, Zenon DEF Calm
  <2>6. announced = tracks => Calm
    BY DEF TalkInv
  <2>7. tracks' # {} /\ (announced' = tracks' => Calm')
    BY <2>1, <2>5, <2>6 DEF TalkInv
  <2> QED
    BY <2>4, <2>7 DEF TalkInv
<1> QED
  BY <1>1, <1>2, <1>3, <1>4, <1>5, <1>6 DEF Next

(* Where a chunk is refused whose difference of times was left out, a time of the sending
   end had gone back; and only a sender that did not announce its tracks can make the
   other give up on them (rawmessage/reader.go:206, rtmp/reader.go). *)
THEOREM LinkRefusalsAreKnown == Spec => []RefusalsAreKnown
<1>1. Init => LinkInv /\ TalkInv
  BY LinkInit, TalkInit
<1>2. (LinkInv /\ TalkInv) /\ [Next]_vars => (LinkInv /\ TalkInv)'
  BY LinkNextKeeps, TalkNext
<1>3. LinkInv /\ TalkInv => RefusalsAreKnown
  <2> SUFFICES ASSUME LinkInv, TalkInv PROVE RefusalsAreKnown
    OBVIOUS
  <2>1. refused = "without previous chunk" => WentBack
    BY Zenon DEF LinkInv
  <2>2. announced = tracks => Calm
    BY DEF TalkInv
  <2> QED
    BY <2>1, <2>2, Zenon DEF RefusalsAreKnown, WentBack, Calm
<1> QED
  BY <1>1, <1>2, <1>3, PTL DEF Spec

(* For every window and every width of the counters: the last acknowledgement of an end is
   never more than a window behind what it has read, the counters having wrapped round or
   not (bytecounter/reader.go, rawmessage/reader.go). *)
THEOREM LinkAcknowledgedInTime == Spec => []AcknowledgedInTime
<1>1. Init => LinkInv /\ TalkInv
  BY LinkInit, TalkInit
<1>2. (LinkInv /\ TalkInv) /\ [Next]_vars => (LinkInv /\ TalkInv)'
  BY LinkNextKeeps, TalkNext
<1>3. LinkInv /\ TalkInv => AcknowledgedInTime
  <2> SUFFICES ASSUME LinkInv, TalkInv PROVE AcknowledgedInTime
    OBVIOUS
  <2> SUFFICES ASSUME NEW e \in Ends
               PROVE  LET acks == {i \in DOMAIN sent[e] : sent[e][i].type = "Acknowledge"}
                      IN  /\ acks = {} => reader[e].count <= Window
                          /\ \A i \in acks : (\A k \in acks : k <= i)
                               => (reader[e].count - What(sent[e][i])[2]) % CountMod <= Window
    BY DEF AcknowledgedInTime
  <2>1. PICK N \in Nat, A \in Nat, V \in Nat : IsCounted(reader[e], sent[e], N, A, V)
    <3>1. PICK p \in Nat : Tally(e, p)
      BY DEF TalkInv, Talks
    <3> QED
      BY <3>1 DEF Tally, IsTally
  <2>2. Window \in Nat /\ Window < CountMod /\ CountMod \in Nat \ {0}
    BY ChunkAssumption, LinkAssumption
  <2>3. reader[e].count = N % CountMod /\ V <= N /\ N - V <= Window
        /\ A <= V /\ N - A <= Window /\ LastAck(sent[e], V)
    BY <2>1, <2>2 DEF IsCounted
  <2>4. ((N % CountMod) - (V % CountMod)) % CountMod <= Window
    <3>1. N - V < CountMod
      BY <2>2, <2>3
    <3>2. ((N % CountMod) - (V % CountMod)) % CountMod = N - V
      BY <2>2, <2>3, <3>1, ModMinus
    <3> QED
      BY <2>3, <3>2
  <2> DEFINE acks == {i \in DOMAIN sent[e] : sent[e][i].type = "Acknowledge"}
  <2>5. (acks = {} => V = 0) /\ \A i \in acks : (\A k \in acks : k <= i)
                                  => What(sent[e][i])[2] = V % CountMod
    BY <2>3 DEF LastAck
  <2>6. V = 0 => N % CountMod <= Window
    <3>1. ASSUME V = 0 PROVE N % CountMod = N /\ N <= Window
      <4>1. N \in Nat /\ N <= Window /\ N < CountMod
        BY <2>2, <2>3, <3>1
      <4> QED
        BY <2>2, <4>1
    <3> QED
      BY <3>1
  <2> QED
    BY <2>3, <2>4, <2>5, <2>6
<1> QED
  BY <1>1, <1>2, <1>3, PTL DEF Spec
=============================================================================
