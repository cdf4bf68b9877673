--------------------------- MODULE RtmpLinkProofs ----------------------------
(***************************************************************************)
(* RtmpLink: the messages of a connection arrive as they were written.     *)
(* First, what is written as chunks is read as it was: a writer and a      *)
(* reader of a chunk stream agree when what each keeps of the message      *)
(* before says the same. Then one direction of a connection: what is on    *)
(* the wire belongs to what was sent and not yet read, and the reader      *)
(* knows what the writer knew then. Then both, and the handshake before    *)
(* them: the invariant LinkInv.                                            *)
(***************************************************************************)
EXTENDS RtmpLink, SequenceTheorems, TLAPS

MessageTypes ==
  {"", "SetChunkSize", "Acknowledge", "SetWindowAckSize", "SetPeerBandwidth", "UserControl",
   "command", "data", "audio", "video"}

Messages(S) ==
  [type: MessageTypes, cs: ChunkStreams, sid: Nat, ts: Nat,
   body: {b \in Seq(S) : Len(b) \in 1..MaxBodySize}]

WriterStreams ==
  [fresh: BOOLEAN, sid: Nat, type: MessageTypes, len: Nat, ts: Nat, delta: Nat \cup {None}]

Writers == [chunkSize: 1..MaxBodySize, streams: [ChunkStreams -> WriterStreams]]

ReaderStreams(S) ==
  [started: BOOLEAN, ts: Nat, type: MessageTypes, sid: Nat, len: Nat, body: Seq(S),
   delta: Nat \cup {None}]

Readers(S) ==
  [chunkSize: 1..MaxBodySize, window: Nat, count: Nat, lastAck: Nat,
   streams: [ChunkStreams -> ReaderStreams(S)]]

(* The reader has the first pieces of a body, and of the message before what the
   writer has; but for the difference of times, if some time went back. *)
Follows(rs, ws, body, back) ==
  /\ rs.body = body
  /\ ws.fresh => ~rs.started /\ rs.delta = None /\ ws.delta = None
  /\ ~ws.fresh =>
       /\ rs.started /\ rs.type = ws.type /\ rs.sid = ws.sid /\ rs.len = ws.len
       /\ rs.ts % TimeMod = ws.ts % TimeMod
       /\ \/ rs.delta = None /\ (ws.delta # None => back)
          \/ ws.delta # None /\ rs.delta = ws.delta % TimeMod

Pieces(w, m, j) == Least(j * w.chunkSize, Len(m.body))
-----------------------------------------------------------------------------
(* Arithmetic: the rest of a division, and how many chunks a body takes. *)
LEMMA ModOf ==
  ASSUME NEW a \in Nat, NEW T \in Nat \ {0}
  PROVE  /\ a % T \in 0..(T - 1) /\ a \div T \in Nat
         /\ a = T * (a \div T) + (a % T)
         /\ (a % T) % T = a % T
  OBVIOUS

LEMMA ModUnique ==
  ASSUME NEW q \in Nat, NEW r \in Nat, NEW T \in Nat \ {0}, r < T
  PROVE  (T * q + r) % T = r
  OBVIOUS

LEMMA ModPlus ==
  ASSUME NEW a \in Nat, NEW q \in Nat, NEW T \in Nat \ {0}
  PROVE  (T * q + a) % T = a % T
<1> DEFINE k == a \div T
<1> DEFINE r == a % T
<1>1. k \in Nat /\ r \in Nat /\ r < T /\ a = T * k + r
  BY ModOf
<1> HIDE DEF k, r
<1>2. T * q + a = T * (q + k) + r
  BY <1>1
<1>3. q + k \in Nat
  BY <1>1
<1>4. (T * (q + k) + r) % T = r
  BY <1>1, <1>3, ModUnique
<1> QED
  BY <1>2, <1>4 DEF r

LEMMA ModAdd ==
  ASSUME NEW a \in Nat, NEW b \in Nat, NEW T \in Nat \ {0}
  PROVE  /\ (a + (b % T)) % T = (a + b) % T
         /\ ((a % T) + b) % T = (a + b) % T
<1>1. \A x, y \in Nat : (x + (y % T)) % T = (x + y) % T
  <2> SUFFICES ASSUME NEW x \in Nat, NEW y \in Nat
               PROVE  (x + (y % T)) % T = (x + y) % T
    OBVIOUS
  <2> DEFINE k == y \div T
  <2> DEFINE r == y % T
  <2>1. k \in Nat /\ r \in Nat /\ y = T * k + r
    BY ModOf
  <2> HIDE DEF k
  <2>2. x + y = T * k + (x + r) /\ x + r \in Nat
    BY <2>1
  <2>3. (T * k + (x + r)) % T = (x + r) % T
    BY <2>1, <2>2, ModPlus
  <2> QED
    BY <2>2, <2>3
<1>2. a % T \in Nat
  BY ModOf
<1>3. (a % T) + b = b + (a % T) /\ b + a = a + b
  BY <1>2
<1> QED
  BY ZenonT(60), <1>1, <1>3

LEMMA ModSame ==
  ASSUME NEW T \in Nat \ {0}
  PROVE  \A a, b, c \in Nat : a % T = b % T => (a + (c % T)) % T = (b + c) % T
<1> SUFFICES ASSUME NEW a \in Nat, NEW b \in Nat, NEW c \in Nat, a % T = b % T
             PROVE  (a + (c % T)) % T = (b + c) % T
  OBVIOUS
<1>1. (a + (c % T)) % T = (a + c) % T /\ ((a % T) + c) % T = (a + c) % T
      /\ ((b % T) + c) % T = (b + c) % T
  BY ModAdd
<1> QED
  BY <1>1

LEMMA ChunkCount ==
  ASSUME NEW len \in Nat \ {0}, NEW size \in Nat \ {0}
  PROVE  LET n == (len + size - 1) \div size
         IN  /\ n \in Nat \ {0} /\ n * size >= len /\ (n - 1) * size < len
  OBVIOUS

LEMMA TimesMonotone ==
  ASSUME NEW a \in Nat, NEW b \in Nat, NEW size \in Nat, a <= b
  PROVE  a * size \in Nat /\ b * size \in Nat /\ a * size <= b * size
<1>1. PICK d \in Nat : b = a + d
  BY b - a \in Nat, b = a + (b - a)
<1>2. b * size = a * size + d * size
  BY <1>1
<1>3. a * size \in Nat /\ d * size \in Nat
  BY <1>1
<1> QED
  BY <1>2, <1>3

(* How far the chunks of a body reach. *)
LEMMA ChunkBounds ==
  ASSUME NEW len \in Nat \ {0}, NEW size \in Nat \ {0}, NEW n \in Nat \ {0},
         n * size >= len, (n - 1) * size < len, NEW j \in 1..n
  PROVE  /\ (j - 1) * size \in Nat /\ j * size \in Nat
         /\ (j - 1) * size + size = j * size
         /\ (j - 1) * size < len /\ (j < n => j * size < len) /\ (j = n => len <= j * size)
         /\ (j > 1 => (j - 1) * size > 0)
<1>1. (j - 1) * size \in Nat /\ j * size \in Nat /\ (n - 1) * size \in Nat
      /\ (j - 1) * size <= (n - 1) * size
  BY TimesMonotone, j - 1 \in Nat, n - 1 \in Nat, j - 1 <= n - 1
<1>2. (j - 1) * size + size = j * size
  BY j \in Int, size \in Int
<1>3. j < n => j * size <= (n - 1) * size
  BY TimesMonotone, n - 1 \in Nat, j < n => j <= n - 1
<1>4. j > 1 => 1 * size <= (j - 1) * size
  BY TimesMonotone, j - 1 \in Nat, j > 1 => 1 <= j - 1
<1> QED
  BY <1>1, <1>2, <1>3, <1>4

IsCount(len, size, n) == n * size >= len /\ (n - 1) * size < len

IsPiece(len, size, j, from, to) == from = (j - 1) * size /\ to = Least(j * size, len)

LEMMA CutBounds ==
  ASSUME NEW len \in Nat \ {0}, NEW size \in Nat \ {0}, NEW n \in Nat \ {0},
         IsCount(len, size, n), NEW j \in 1..n,
         NEW from, NEW to, IsPiece(len, size, j, from, to)
  PROVE  /\ from \in Nat /\ to \in Nat /\ from < len /\ (j = 1 <=> from = 0)
         /\ to > from /\ to <= len /\ (to = len <=> j = n)
         /\ to - from = Least(len - from, size) /\ to - from \in 1..size
         /\ Least(from, len) = from
<1> USE DEF IsCount, IsPiece
<1> DEFINE end == j * size
<1>1. /\ from \in Nat /\ end \in Nat /\ from + size = end /\ from < len
      /\ (j < n => end < len) /\ (j = n => len <= end) /\ (j > 1 => from > 0)
  BY ChunkBounds
<1>2. j = 1 => from = 0
  OBVIOUS
<1>4. to = Least(end, len)
  OBVIOUS
<1> HIDE DEF end
<1>3. /\ (j = 1 <=> from = 0)
      /\ Least(end, len) \in Nat /\ Least(end, len) > from /\ Least(end, len) <= len
      /\ (Least(end, len) = len <=> j = n)
      /\ Least(end, len) - from = Least(len - from, size)
      /\ Least(end, len) - from \in 1..size /\ Least(from, len) = from
  BY <1>1, <1>2 DEF Least
<1> QED
  BY <1>1, <1>3, <1>4

(* The chunks of a message, one after the other. *)
LEMMA ChunksAre ==
  ASSUME NEW S, NEW w \in Writers, NEW m \in Messages(S)
  PROVE  LET n == Len(ChunksOf(w, m))
         IN  /\ n \in Nat \ {0} /\ n * w.chunkSize >= Len(m.body)
             /\ (n - 1) * w.chunkSize < Len(m.body)
             /\ ChunksOf(w, m) =
                  [i \in 1..n |->
                     [cs   |-> m.cs,
                      head |-> IF i = 1 THEN FirstHead(w, m) ELSE [fmt |-> 3],
                      body |-> SubSeq(m.body, (i - 1) * w.chunkSize + 1, Pieces(w, m, i))]]
<1> DEFINE size == w.chunkSize
<1> DEFINE len == Len(m.body)
<1> DEFINE n == (len + size - 1) \div size
<1>1. size \in Nat \ {0} /\ len \in Nat \ {0} /\ m.body # <<>>
  BY ChunkAssumption DEF Writers, Messages
<1>2. n \in Nat \ {0} /\ n * size >= len /\ (n - 1) * size < len
  BY <1>1, ChunkCount
<1>3. ChunksOf(w, m) =
        [i \in 1..n |->
           [cs   |-> m.cs,
            head |-> IF i = 1 THEN FirstHead(w, m) ELSE [fmt |-> 3],
            body |-> SubSeq(m.body, (i - 1) * size + 1, Pieces(w, m, i))]]
  BY <1>1 DEF ChunksOf, Pieces
<1> HIDE DEF n
<1>4. Len(ChunksOf(w, m)) = n
  BY <1>2, <1>3
<1> QED
  BY <1>2, <1>3, <1>4

LEMMA ChunksAreSeq ==
  ASSUME NEW S, NEW w \in Writers, NEW m \in Messages(S)
  PROVE  \E T : ChunksOf(w, m) \in Seq(T)
<1> DEFINE len == Len(m.body)
<1> DEFINE n == IF m.body = <<>> THEN 1 ELSE (len + w.chunkSize - 1) \div w.chunkSize
<1>1. w.chunkSize \in Nat \ {0} /\ len \in Nat \ {0} /\ m.body # <<>>
  BY ChunkAssumption DEF Writers, Messages
<1>2. n \in Nat
  BY <1>1, ChunkCount
<1>3. ChunksOf(w, m) =
        [i \in 1..n |->
           [cs   |-> m.cs,
            head |-> IF i = 1 THEN FirstHead(w, m) ELSE [fmt |-> 3],
            body |-> SubSeq(m.body, (i - 1) * w.chunkSize + 1, Pieces(w, m, i))]]
  BY DEF ChunksOf, Pieces
<1> HIDE DEF n
<1> DEFINE f == ChunksOf(w, m)
<1>4. f = [i \in 1..n |-> f[i]]
  BY <1>3
<1> HIDE DEF f
<1>5. f \in [1..n -> {f[i] : i \in 1..n}]
  BY <1>4
<1>6. f \in Seq({f[i] : i \in 1..n})
  BY <1>2, <1>5
<1> QED
  BY <1>6 DEF f

(* One of them, and what has been read before it and with it. *)
IsCut(S, w, m, j, c) ==
  /\ c.cs = m.cs /\ c.cs \in ChunkStreams
  /\ c.head = IF j = 1 THEN FirstHead(w, m) ELSE [fmt |-> 3]
  /\ c.body \in Seq(S) /\ Len(c.body) = Pieces(w, m, j) - Pieces(w, m, j - 1)
  /\ Len(c.body) = Least(Len(m.body) - Pieces(w, m, j - 1), w.chunkSize)
  /\ Len(c.body) \in 1..w.chunkSize
  /\ SubSeq(m.body, 1, Pieces(w, m, j - 1)) \o c.body = SubSeq(m.body, 1, Pieces(w, m, j))
  /\ Pieces(w, m, j - 1) \in Nat /\ Pieces(w, m, j) \in 1..Len(m.body)
  /\ Pieces(w, m, j - 1) < Len(m.body)
  /\ Pieces(w, m, j) = Len(m.body) <=> j = Len(ChunksOf(w, m))
  /\ j = 1 <=> Pieces(w, m, j - 1) = 0

LEMMA ChunkIs ==
  ASSUME NEW S, NEW w \in Writers, NEW m \in Messages(S), NEW j \in 1..Len(ChunksOf(w, m))
  PROVE  IsCut(S, w, m, j, ChunksOf(w, m)[j])
<1> DEFINE size == w.chunkSize
<1> DEFINE len == Len(m.body)
<1> DEFINE n == Len(ChunksOf(w, m))
<1> DEFINE c == ChunksOf(w, m)[j]
<1> DEFINE from == (j - 1) * size
<1> DEFINE to == Pieces(w, m, j)
<1>1. size \in Nat \ {0} /\ len \in Nat \ {0} /\ m.body \in Seq(S) /\ m.cs \in ChunkStreams
  BY ChunkAssumption DEF Writers, Messages
<1>2. n \in Nat \ {0} /\ n * size >= len /\ (n - 1) * size < len
      /\ c.cs = m.cs /\ c.head = (IF j = 1 THEN FirstHead(w, m) ELSE [fmt |-> 3])
      /\ c.body = SubSeq(m.body, from + 1, to)
  BY ChunksAre
<1> HIDE DEF n, c
<1>3. /\ from \in Nat /\ to \in Nat /\ from < len /\ (j = 1 <=> from = 0)
      /\ to > from /\ to <= len /\ (to = len <=> j = n)
      /\ to - from = Least(len - from, size) /\ to - from \in 1..size
      /\ Pieces(w, m, j - 1) = from
  <2>1. j \in 1..n
    BY DEF n
  <2>3. size \in Nat \ {0} /\ len \in Nat \ {0}
    BY <1>1
  <2>4. n \in Nat \ {0} /\ IsCount(len, size, n)
    BY <1>2 DEF IsCount
  <2> HIDE DEF size, len
  <2>5. IsPiece(len, size, j, from, to)
    BY DEF Pieces, size, len, IsPiece
  <2>6. Pieces(w, m, j - 1) = Least(from, len)
    BY DEF Pieces, size, len
  <2> HIDE DEF from, to
  <2>7. /\ from \in Nat /\ to \in Nat /\ from < len /\ (j = 1 <=> from = 0)
        /\ to > from /\ to <= len /\ (to = len <=> j = n)
        /\ to - from = Least(len - from, size) /\ to - from \in 1..size
        /\ Least(from, len) = from
    BY <2>1, <2>3, <2>4, <2>5, CutBounds
  <2> QED
    BY <2>6, <2>7
<1> HIDE DEF from, to
<1>6. c.body \in Seq(S) /\ Len(c.body) = to - from
  <2>1. \A i \in (from + 1)..to : m.body[i] \in S
    BY <1>1, <1>3
  <2> QED
    BY <1>2, <1>3, <2>1, SubSeqProperties
<1>7. SubSeq(m.body, 1, from) \o c.body = SubSeq(m.body, 1, to)
  <2>1. 1 \in 1..(len + 1) /\ from \in (1 - 1)..len /\ to \in from..len
    BY <1>1, <1>3
  <2>2. SubSeq(m.body, 1, from) \o SubSeq(m.body, from + 1, to) = SubSeq(m.body, 1, to)
    BY <1>1, <2>1, ConcatAdjacentSubSeq
  <2> QED
    BY <1>2, <2>2
<1>8. /\ c.cs = m.cs /\ c.cs \in ChunkStreams
      /\ c.head = (IF j = 1 THEN FirstHead(w, m) ELSE [fmt |-> 3])
      /\ c.body \in Seq(S) /\ Len(c.body) = to - from
      /\ Len(c.body) = Least(len - from, size) /\ Len(c.body) \in 1..size
      /\ SubSeq(m.body, 1, from) \o c.body = SubSeq(m.body, 1, to)
      /\ from \in Nat /\ to \in 1..len /\ from < len
      /\ (to = len <=> j = n) /\ (j = 1 <=> from = 0)
  <2>1. c.cs = m.cs /\ c.cs \in ChunkStreams
    BY <1>1, <1>2
  <2>2. to \in 1..len /\ len \in Nat
    BY <1>1, <1>3
  <2>3. Len(c.body) = Least(len - from, size) /\ Len(c.body) \in 1..size
    BY <1>3, <1>6
  <2> QED
    BY <1>2, <1>3, <1>6, <1>7, <2>1, <2>2, <2>3
<1> QED
  BY <1>3, <1>8 DEF n, c, to, IsCut

-----------------------------------------------------------------------------
LEMMA WrittenStream ==
  ASSUME NEW S, NEW w \in Writers, NEW m \in Messages(S)
  PROVE  /\ Written(w, m) \in Writers /\ Written(w, m).chunkSize = w.chunkSize
         /\ Written(w, m).streams[m.cs] =
              [fresh |-> FALSE, sid |-> m.sid, type |-> m.type, len |-> Len(m.body),
               ts |-> m.ts,
               delta |-> IF Delta(w, m) = None THEN w.streams[m.cs].delta ELSE Delta(w, m)]
         /\ \A cs \in ChunkStreams \ {m.cs} : Written(w, m).streams[cs] = w.streams[cs]
         /\ Delta(w, m) \in Nat \cup {None}
<1>1. w.streams \in [ChunkStreams -> WriterStreams] /\ m.cs \in ChunkStreams
      /\ w.streams[m.cs] \in WriterStreams /\ m.ts \in Nat /\ m.sid \in Nat
      /\ m.type \in MessageTypes /\ Len(m.body) \in Nat
  BY DEF Writers, Messages
<1>2. Delta(w, m) \in Nat \cup {None}
  BY <1>1 DEF Delta, WriterStreams
<1>3. [fresh |-> FALSE, sid |-> m.sid, type |-> m.type, len |-> Len(m.body), ts |-> m.ts,
       delta |-> IF Delta(w, m) = None THEN w.streams[m.cs].delta ELSE Delta(w, m)]
        \in WriterStreams
  BY <1>1, <1>2 DEF WriterStreams
<1> QED
  BY <1>1, <1>2, <1>3 DEF Written, Writers

LEMMA WrittenOthers ==
  ASSUME NEW S, NEW w \in Writers, NEW m \in Messages(S), NEW cs \in ChunkStreams, cs # m.cs
  PROVE  Written(w, m).streams[cs] = w.streams[cs]
  BY DEF Written, Writers, Messages

(* What a header says follows from what the writer had, and can be read unless some
   time went back. *)
LEMMA HeadIsRead ==
  ASSUME NEW S, NEW w \in Writers, NEW m \in Messages(S), NEW rs \in ReaderStreams(S),
         NEW back \in BOOLEAN, Follows(rs, w.streams[m.cs], <<>>, back),
         ~w.streams[m.cs].fresh => /\ w.streams[m.cs].sid = m.sid
                                   /\ m.ts < w.streams[m.cs].ts => back
  PROVE  LET h == FirstHead(w, m)
             t == Headed(rs, h)
         IN  /\ h.fmt \in {1, 2} => rs.started
             /\ h.fmt \in {0, 1} => h.len <= MaxBodySize
             /\ h.fmt = 3 /\ rs.delta = None => back
             /\ ~(h.fmt = 3 /\ rs.delta = None) =>
                  /\ t \in ReaderStreams(S)
                  /\ Follows(t, Written(w, m).streams[m.cs], <<>>, back)
<1> DEFINE s == w.streams[m.cs]
<1> DEFINE d == Delta(w, m)
<1> DEFINE h == FirstHead(w, m)
<1> DEFINE t == Headed(rs, h)
<1> DEFINE v == Written(w, m).streams[m.cs]
<1>1. /\ s \in WriterStreams /\ m.ts \in Nat /\ m.sid \in Nat /\ m.type \in MessageTypes
      /\ Len(m.body) \in Nat /\ Len(m.body) <= MaxBodySize /\ d \in Nat \cup {None}
      /\ v = [fresh |-> FALSE, sid |-> m.sid, type |-> m.type, len |-> Len(m.body),
              ts |-> m.ts, delta |-> IF d = None THEN s.delta ELSE d]
      /\ None \notin Nat /\ TimeMod \in Nat \ {0}
  BY SMTT(30), WrittenStream, ChunkAssumption DEF Messages, Writers, None
<1>2. /\ rs.body = <<>>
      /\ s.fresh => ~rs.started /\ rs.delta = None /\ s.delta = None
      /\ ~s.fresh => /\ rs.started /\ rs.type = s.type /\ rs.sid = s.sid /\ rs.len = s.len
                     /\ rs.ts % TimeMod = s.ts % TimeMod
                     /\ \/ rs.delta = None /\ (s.delta # None => back)
                        \/ s.delta # None /\ rs.delta = s.delta % TimeMod
  BY DEF Follows
<1>3. d = IF s.fresh \/ m.ts < s.ts THEN None ELSE m.ts - s.ts
  BY DEF Delta
<1>4. m.ts % TimeMod \in Nat /\ (d # None => d % TimeMod \in Nat)
      /\ (m.ts % TimeMod) % TimeMod = m.ts % TimeMod
  <2> HIDE DEF d
  <2>1. TimeMod \in Nat \ {0}
    BY <1>1
  <2>2. \A a \in Nat : a % TimeMod \in 0..(TimeMod - 1)
                      /\ (a % TimeMod) % TimeMod = a % TimeMod
    BY <2>1, ModOf, Zenon
  <2>3. \A a \in Nat : a % TimeMod \in Nat
    BY <2>1, <2>2
  <2> QED
    BY <1>1, <2>2, <2>3
<1>5. CASE d = None
  <2>1. h = [fmt |-> 0, ts |-> m.ts % TimeMod, type |-> m.type, sid |-> m.sid,
             len |-> Len(m.body)]
    BY <1>5 DEF FirstHead
  <2>2. t = [rs EXCEPT !.started = TRUE, !.ts = m.ts % TimeMod, !.type = m.type,
                       !.sid = m.sid, !.len = Len(m.body), !.delta = None]
    BY <2>1 DEF Headed
  <2>3. s.delta # None => back
    BY <1>2, <1>3, <1>5, <1>1 DEF WriterStreams
  <2>4. t \in ReaderStreams(S)
    BY <2>2, <1>1, <1>4 DEF ReaderStreams
  <2>5. Follows(t, v, <<>>, back)
    BY <2>2, <2>3, <1>1, <1>2, <1>4, <1>5 DEF Follows, ReaderStreams
  <2> QED
    BY <2>1, <2>4, <2>5, <1>1
<1>6. CASE d # None
  <2>1. ~s.fresh /\ s.sid = m.sid /\ d = m.ts - s.ts /\ d \in Nat /\ s.ts \in Nat
    BY <1>1, <1>3, <1>6 DEF WriterStreams
  <2>2. (rs.ts + (d % TimeMod)) % TimeMod = m.ts % TimeMod
        /\ rs.ts + (d % TimeMod) \in Nat
    <3>1. rs.ts \in Nat /\ rs.ts % TimeMod = s.ts % TimeMod
      BY <1>2, <2>1 DEF ReaderStreams
    <3>2. (rs.ts + (d % TimeMod)) % TimeMod = (s.ts + d) % TimeMod
      <4> HIDE DEF d
      <4>1. \A a, b, c \in Nat : a % TimeMod = b % TimeMod
                                => (a + (c % TimeMod)) % TimeMod = (b + c) % TimeMod
        <5>1. TimeMod \in Nat \ {0}
          BY <1>1
        <5> QED
          BY <5>1, ModSame, Zenon
      <4> QED
        BY <3>1, <2>1, <4>1
    <3>3. s.ts + d = m.ts
      BY <2>1, <1>1
    <3> QED
      BY <3>1, <3>2, <3>3, <1>4, <1>6
  <2>3. CASE s.type # m.type \/ s.len # Len(m.body)
    <3>1. h = [fmt |-> 1, delta |-> d % TimeMod, type |-> m.type, len |-> Len(m.body)]
      BY <1>6, <2>1, <2>3 DEF FirstHead
    <3>2. t = [rs EXCEPT !.ts = @ + (d % TimeMod), !.type = m.type, !.len = Len(m.body),
                         !.delta = d % TimeMod]
      BY <3>1 DEF Headed
    <3>3. t \in ReaderStreams(S)
      BY <3>2, <2>2, <1>1, <1>4, <1>6 DEF ReaderStreams
    <3>4. Follows(t, v, <<>>, back)
      <4>1. /\ t.body = <<>> /\ t.started /\ t.type = m.type /\ t.sid = m.sid
            /\ t.len = Len(m.body) /\ t.ts = rs.ts + (d % TimeMod) /\ t.delta = d % TimeMod
        BY <3>2, <2>1, <1>2 DEF ReaderStreams
      <4>2. /\ ~v.fresh /\ v.type = m.type /\ v.sid = m.sid /\ v.len = Len(m.body)
            /\ v.ts = m.ts /\ v.delta = d
        BY <1>1, <1>6
      <4>3. t.ts % TimeMod = m.ts % TimeMod
        BY <2>2, <4>1
      <4> HIDE DEF t, v, d
      <4> QED
        BY <4>1, <4>2, <4>3, <1>6 DEF Follows
    <3> QED
      <4>1. h.fmt = 1 /\ h.len = Len(m.body)
        BY <3>1
      <4>2. rs.started
        BY <2>1, <1>2
      <4>3. Len(m.body) <= MaxBodySize
        BY <1>1
      <4>4. 1 # 3 /\ 1 # 0
        OBVIOUS
      <4> QED
        BY <4>1, <4>2, <4>3, <4>4, <3>3, <3>4, ZenonT(30)
  <2>4. CASE s.type = m.type /\ s.len = Len(m.body) /\ s.delta # d
    <3>1. h = [fmt |-> 2, delta |-> d % TimeMod]
      BY <1>6, <2>1, <2>4 DEF FirstHead
    <3>2. t = [rs EXCEPT !.ts = @ + (d % TimeMod), !.delta = d % TimeMod]
      BY <3>1 DEF Headed
    <3>3. t \in ReaderStreams(S)
      BY <3>2, <2>2, <1>1, <1>4, <1>6 DEF ReaderStreams
    <3>4. Follows(t, v, <<>>, back)
      <4>1. /\ t.body = <<>> /\ t.started /\ t.type = m.type /\ t.sid = m.sid
            /\ t.len = Len(m.body) /\ t.ts = rs.ts + (d % TimeMod) /\ t.delta = d % TimeMod
        BY <3>2, <2>4, <2>1, <1>2 DEF ReaderStreams
      <4>2. /\ ~v.fresh /\ v.type = m.type /\ v.sid = m.sid /\ v.len = Len(m.body)
            /\ v.ts = m.ts /\ v.delta = d
        BY <1>1, <1>6
      <4>3. t.ts % TimeMod = m.ts % TimeMod
        BY <2>2, <4>1
      <4> HIDE DEF t, v, d
      <4> QED
        BY <4>1, <4>2, <4>3, <1>6 DEF Follows
    <3> QED
      BY SMTT(30), <3>1, <3>3, <3>4, <2>1, <1>1, <1>2
  <2>5. CASE s.type = m.type /\ s.len = Len(m.body) /\ s.delta = d
    <3>1. h = [fmt |-> 3]
      BY <1>6, <2>1, <2>5 DEF FirstHead
    <3>2. rs.delta = None => back
      BY <1>2, <1>6, <2>1, <2>5, <1>1, <1>4
    <3>3. ASSUME rs.delta # None
          PROVE  t \in ReaderStreams(S) /\ Follows(t, v, <<>>, back)
      <4>1. t = [rs EXCEPT !.ts = @ + rs.delta] /\ rs.delta = d % TimeMod
        BY <3>1, <3>3, <1>2, <2>1, <2>5 DEF Headed
      <4>2. t \in ReaderStreams(S)
        BY <4>1, <2>2 DEF ReaderStreams
      <4>3. Follows(t, v, <<>>, back)
        BY <4>1, <2>1, <2>2, <2>5, <1>1, <1>2, <1>6 DEF Follows, ReaderStreams
      <4> QED
        BY <4>2, <4>3
    <3> QED
      BY <3>1, <3>2, <3>3
  <2> QED
    BY <2>3, <2>4, <2>5
<1> QED
  BY <1>5, <1>6

(* A chunk is read as the writer meant it, or refused because a time went back. *)
IsRead(S, w, m, j, r, back, c) ==
  /\ Refusal(r, c) = "" \/ (Refusal(r, c) = "without previous chunk" /\ back)
  /\ Refusal(r, c) = "" =>
       /\ Framed(r, c) /\ Read(r, c) \in Readers(S)
       /\ Follows(Read(r, c).streams[m.cs], Written(w, m).streams[m.cs],
                  SubSeq(m.body, 1, Pieces(w, m, j)), back)
       /\ \A cs \in ChunkStreams \ {m.cs} : Read(r, c).streams[cs] = r.streams[cs]
       /\ Read(r, c) = [r EXCEPT !.streams = Read(r, c).streams]

(* The message it completes, if it is the last, is as it was but for its time. *)
IsTaken(S, w, m, j, r, back, c) ==
  /\ Complete(r, c) <=> j = Len(ChunksOf(w, m))
  /\ Complete(r, c) =>
       /\ Message(r, c) = [m EXCEPT !.ts = Message(r, c).ts]
       /\ Message(r, c).ts % TimeMod = m.ts % TimeMod
       /\ Message(r, c) \in Messages(S)
       /\ Taken(r, c) \in Readers(S)
       /\ Follows(Taken(r, c).streams[m.cs], Written(w, m).streams[m.cs], <<>>, back)
       /\ \A cs \in ChunkStreams \ {m.cs} : Taken(r, c).streams[cs] = r.streams[cs]
       /\ Taken(r, c) = [r EXCEPT !.streams = Taken(r, c).streams]

(* The chunks of a message are read one by one. *)
LEMMA ChunkIsRead ==
  ASSUME NEW S, NEW w \in Writers, NEW m \in Messages(S), NEW r \in Readers(S),
         NEW back \in BOOLEAN, NEW j \in 1..Len(ChunksOf(w, m)),
         r.chunkSize = w.chunkSize,
         ~w.streams[m.cs].fresh => /\ w.streams[m.cs].sid = m.sid
                                   /\ m.ts < w.streams[m.cs].ts => back,
         IF j = 1 THEN Follows(r.streams[m.cs], w.streams[m.cs], <<>>, back)
         ELSE Follows(r.streams[m.cs], Written(w, m).streams[m.cs],
                      SubSeq(m.body, 1, Pieces(w, m, j - 1)), back)
  PROVE  IsRead(S, w, m, j, r, back, ChunksOf(w, m)[j])
<1> DEFINE c == ChunksOf(w, m)[j]
<1> DEFINE s == r.streams[m.cs]
<1> DEFINE v == Written(w, m).streams[m.cs]
<1> DEFINE before == SubSeq(m.body, 1, Pieces(w, m, j - 1))
<1> DEFINE h == c.head
<1> DEFINE t == Headed(s, h)
<1>1. /\ c.cs = m.cs /\ c.cs \in ChunkStreams
      /\ c.head = (IF j = 1 THEN FirstHead(w, m) ELSE [fmt |-> 3])
      /\ c.body \in Seq(S) /\ Len(c.body) = Least(Len(m.body) - Pieces(w, m, j - 1), w.chunkSize)
      /\ Len(c.body) \in 1..w.chunkSize
      /\ SubSeq(m.body, 1, Pieces(w, m, j - 1)) \o c.body =
           SubSeq(m.body, 1, Pieces(w, m, j))
      /\ Pieces(w, m, j - 1) \in Nat /\ Pieces(w, m, j) \in 1..Len(m.body)
      /\ Pieces(w, m, j - 1) < Len(m.body)
      /\ (Pieces(w, m, j) = Len(m.body) <=> j = Len(ChunksOf(w, m)))
      /\ (j = 1 <=> Pieces(w, m, j - 1) = 0)
  <2>1. IsCut(S, w, m, j, c)
    BY ChunkIs
  <2> QED
    BY <2>1 DEF IsCut
<1>2. /\ before \in Seq(S) /\ Len(before) = Pieces(w, m, j - 1)
      /\ (j = 1 <=> before = <<>>)
  <2>1. m.body \in Seq(S)
    BY DEF Messages
  <2>2. \A i \in 1..Pieces(w, m, j - 1) : m.body[i] \in S
    BY SMTT(30), <1>1, <2>1
  <2>3. before \in Seq(S) /\ Len(before) = Pieces(w, m, j - 1)
    BY <1>1, <2>2, SubSeqProperties
  <2> QED
    BY <1>1, <2>3, EmptySeq
<1>3. s \in ReaderStreams(S) /\ v.fresh = FALSE /\ v.len = Len(m.body)
  <2>1. v = [fresh |-> FALSE, sid |-> m.sid, type |-> m.type, len |-> Len(m.body),
             ts |-> m.ts,
             delta |-> IF Delta(w, m) = None THEN w.streams[m.cs].delta ELSE Delta(w, m)]
    BY WrittenStream
  <2> QED
    BY <1>1, <2>1 DEF Readers
<1> HIDE DEF c, before
<1>4. /\ Refusal(r, c) = "" \/ (Refusal(r, c) = "without previous chunk" /\ back)
      /\ Refusal(r, c) = "" =>
           t \in ReaderStreams(S) /\ t.body = before /\ Follows(t, v, before, back)
  <2>1. CASE j = 1
    <3>1. h = FirstHead(w, m) /\ before = <<>> /\ s.body = <<>>
      BY <1>1, <1>2, <2>1 DEF Follows
    <3>2. /\ h.fmt \in {1, 2} => s.started
          /\ h.fmt \in {0, 1} => h.len <= MaxBodySize
          /\ h.fmt = 3 /\ s.delta = None => back
          /\ ~(h.fmt = 3 /\ s.delta = None) =>
               /\ t \in ReaderStreams(S) /\ Follows(t, v, <<>>, back)
      BY <1>3, <2>1, <3>1, HeadIsRead
    <3>3. h.fmt \in {0, 1} => ~(h.len > MaxBodySize)
      <4>1. h.fmt \in {0, 1} => h.len \in Nat
        BY <3>1 DEF FirstHead, Messages
      <4> QED
        BY <3>2, <4>1, ChunkAssumption
    <3>4. /\ Refusal(r, c) \in {"", "without previous chunk"}
          /\ Refusal(r, c) # "" <=> h.fmt = 3 /\ s.delta = None
      BY <1>1, <3>1, <3>2, <3>3 DEF Refusal
    <3>5. Follows(t, v, <<>>, back) => t.body = <<>>
      BY DEF Follows
    <3> QED
      BY <3>1, <3>2, <3>4, <3>5
  <2>2. CASE j # 1
    <3>1. h = [fmt |-> 3] /\ before # <<>> /\ Follows(s, v, before, back)
          /\ s.body = before
      BY <1>1, <1>2, <2>2 DEF before, Follows
    <3>2. Refusal(r, c) = "" /\ t = s
      <4>1. c.cs = m.cs
        BY <1>1
      <4> QED
        BY <3>1, <4>1 DEF Refusal, Headed
    <3> QED
      BY <1>3, <3>1, <3>2
  <2> QED
    BY <2>1, <2>2
<1>5. ASSUME Refusal(r, c) = ""
      PROVE  /\ Framed(r, c) /\ Read(r, c) \in Readers(S)
             /\ Follows(Read(r, c).streams[m.cs], v,
                        SubSeq(m.body, 1, Pieces(w, m, j)), back)
             /\ \A cs \in ChunkStreams \ {m.cs} :
                  Read(r, c).streams[cs] = r.streams[cs]
             /\ Read(r, c) = [r EXCEPT !.streams = Read(r, c).streams]
  <2>1. t \in ReaderStreams(S) /\ t.body = before /\ Follows(t, v, before, back)
        /\ t.len = Len(m.body)
    BY <1>3, <1>4, <1>5 DEF Follows
  <2>2. Framed(r, c)
    BY <1>1, <1>2, <2>1 DEF Framed
  <2> DEFINE u == [t EXCEPT !.body = @ \o c.body]
  <2>3. Read(r, c) = [r EXCEPT !.streams[m.cs] = u]
    BY <1>1 DEF Read
  <2>4. u \in ReaderStreams(S) /\ u.body = before \o c.body
    <3>1. before \o c.body \in Seq(S)
      BY <1>1, <1>2, ConcatProperties
    <3> QED
      BY <2>1, <3>1 DEF ReaderStreams
  <2>5. Follows(u, v, before \o c.body, back)
    BY <2>1, <2>4 DEF Follows, ReaderStreams
  <2> HIDE DEF u
  <2>6. /\ Read(r, c) \in Readers(S) /\ Read(r, c).streams[m.cs] = u
        /\ \A cs \in ChunkStreams \ {m.cs} : Read(r, c).streams[cs] = r.streams[cs]
        /\ Read(r, c) = [r EXCEPT !.streams = Read(r, c).streams]
    <3>1. m.cs \in ChunkStreams
      BY <1>1
    <3> QED
      BY <2>3, <2>4, <3>1 DEF Readers
  <2>7. before \o c.body = SubSeq(m.body, 1, Pieces(w, m, j))
    BY <1>1 DEF before
  <2> QED
    BY <2>2, <2>5, <2>6, <2>7
<1> QED
  BY <1>4, <1>5 DEF c, IsRead

LEMMA MessageIsRead ==
  ASSUME NEW S, NEW w \in Writers, NEW m \in Messages(S), NEW r \in Readers(S),
         NEW back \in BOOLEAN, NEW j \in 1..Len(ChunksOf(w, m)),
         Follows(r.streams[m.cs], Written(w, m).streams[m.cs],
                 SubSeq(m.body, 1, Pieces(w, m, j)), back)
  PROVE  IsTaken(S, w, m, j, r, back, ChunksOf(w, m)[j])
<1> DEFINE c == ChunksOf(w, m)[j]
<1> DEFINE s == r.streams[m.cs]
<1> DEFINE v == Written(w, m).streams[m.cs]
<1>1. /\ c.cs = m.cs /\ c.cs \in ChunkStreams
      /\ c.head = (IF j = 1 THEN FirstHead(w, m) ELSE [fmt |-> 3])
      /\ c.body \in Seq(S) /\ Len(c.body) = Least(Len(m.body) - Pieces(w, m, j - 1), w.chunkSize)
      /\ Len(c.body) \in 1..w.chunkSize
      /\ SubSeq(m.body, 1, Pieces(w, m, j - 1)) \o c.body =
           SubSeq(m.body, 1, Pieces(w, m, j))
      /\ Pieces(w, m, j - 1) \in Nat /\ Pieces(w, m, j) \in 1..Len(m.body)
      /\ Pieces(w, m, j - 1) < Len(m.body)
      /\ (Pieces(w, m, j) = Len(m.body) <=> j = Len(ChunksOf(w, m)))
      /\ (j = 1 <=> Pieces(w, m, j - 1) = 0)
  <2>1. IsCut(S, w, m, j, c)
    BY ChunkIs
  <2> QED
    BY <2>1 DEF IsCut
<1>2. m.body \in Seq(S) /\ Len(m.body) \in 1..MaxBodySize
  BY DEF Messages
<1>3. Len(SubSeq(m.body, 1, Pieces(w, m, j))) = Pieces(w, m, j)
  <2>1. \A i \in 1..Pieces(w, m, j) : m.body[i] \in S
    BY SMTT(30), <1>1, <1>2
  <2> QED
    BY <1>1, <2>1, SubSeqProperties
<1>4. /\ s \in ReaderStreams(S) /\ s.body = SubSeq(m.body, 1, Pieces(w, m, j))
      /\ s.type = m.type /\ s.sid = m.sid /\ s.len = Len(m.body)
      /\ s.ts % TimeMod = m.ts % TimeMod
  <2>1. v = [fresh |-> FALSE, sid |-> m.sid, type |-> m.type, len |-> Len(m.body),
             ts |-> m.ts,
             delta |-> IF Delta(w, m) = None THEN w.streams[m.cs].delta ELSE Delta(w, m)]
    BY WrittenStream
  <2> QED
    BY SMTT(30), <1>1, <2>1 DEF Follows, Readers
<1> HIDE DEF c
<1>5. Complete(r, c) <=> j = Len(ChunksOf(w, m))
  BY <1>1, <1>3, <1>4 DEF Complete
<1>6. ASSUME Complete(r, c)
      PROVE  /\ Message(r, c) = [m EXCEPT !.ts = Message(r, c).ts]
             /\ Message(r, c).ts % TimeMod = m.ts % TimeMod
             /\ Message(r, c) \in Messages(S)
             /\ Taken(r, c) \in Readers(S)
             /\ Follows(Taken(r, c).streams[m.cs], v, <<>>, back)
             /\ \A cs \in ChunkStreams \ {m.cs} : Taken(r, c).streams[cs] = r.streams[cs]
             /\ Taken(r, c) = [r EXCEPT !.streams = Taken(r, c).streams]
  <2>1. s.body = m.body
    BY <1>1, <1>2, <1>4, <1>5, <1>6, SubSeqFull
  <2>2. Message(r, c) = [type |-> m.type, cs |-> m.cs, sid |-> m.sid, ts |-> s.ts,
                         body |-> m.body]
    BY <1>1, <1>4, <2>1 DEF Message
  <2>3. s.ts \in Nat
    BY <1>4 DEF ReaderStreams
  <2>4. /\ Message(r, c) = [m EXCEPT !.ts = Message(r, c).ts]
        /\ Message(r, c).ts % TimeMod = m.ts % TimeMod
        /\ Message(r, c) \in Messages(S)
    BY <1>4, <2>2, <2>3 DEF Messages
  <2> DEFINE u == [s EXCEPT !.body = <<>>]
  <2>5. Taken(r, c) = [r EXCEPT !.streams[m.cs] = u]
    BY <1>1 DEF Taken, Readers
  <2>6. u \in ReaderStreams(S)
    BY <1>4, EmptySeq DEF ReaderStreams
  <2>7. Follows(u, v, <<>>, back)
    BY <1>4 DEF Follows, ReaderStreams
  <2> HIDE DEF u
  <2>8. /\ Taken(r, c) \in Readers(S) /\ Taken(r, c).streams[m.cs] = u
        /\ \A cs \in ChunkStreams \ {m.cs} : Taken(r, c).streams[cs] = r.streams[cs]
        /\ Taken(r, c) = [r EXCEPT !.streams = Taken(r, c).streams]
    BY ZenonT(60), <1>1, <2>5, <2>6 DEF Readers
  <2> QED
    BY <2>4, <2>7, <2>8
<1> QED
  BY <1>5, <1>6 DEF c, IsTaken

-----------------------------------------------------------------------------
(* What a message may say, and its pieces. *)
Names ==
  {"size", "bytes", "window", "bandwidth", "SetBufferLength", "StreamIsRecorded",
   "StreamBegin", "connect", "_result", "createStream", "releaseStream", "FCPublish", "play",
   "publish", "onStatus", "onMetaData", "config", "unit"}

Whats ==
  {<<a>> : a \in Names} \cup {<<a, n>> : a \in Names, n \in Int}
  \cup {<<a, t>> : a \in Names, t \in SUBSET {"audio", "video"}}

Parts == Whats \X Nat

SidOf(cs) == IF cs \in {2, 3} THEN 0 ELSE 1

(* What all that is written has in common. *)
Sound(m) ==
  /\ m \in Messages(Parts) /\ m.sid = SidOf(m.cs)
  /\ m.type = "SetChunkSize" => What(m)[2] = ChunkSize
  /\ m.type = "SetWindowAckSize" => What(m)[2] = Window
  /\ m.type = "command" =>
       /\ What(m)[1] \in Names /\ What(m)[2] \in Int
       /\ What(m)[1] \in {"connect", "createStream"} => m.cs = 3

AllSound(s) == s \in Seq(Messages(Parts)) /\ \A i \in DOMAIN s : Sound(s[i])

(* A time went back on a chunk stream. *)
Back(s, cs) ==
  \E i, k \in DOMAIN s :
    i < k /\ s[i].cs = cs /\ s[k].cs = cs /\ s[k].ts < s[i].ts

(* What the writer was, and how many chunks there were, after each of the messages. *)
History(W, C, s) ==
  /\ W \in [0..Len(s) -> Writers] /\ C \in [0..Len(s) -> Nat]
  /\ W[0] = NewWriter /\ C[0] = 0
  /\ \A i \in 1..Len(s) :
       /\ W[i] = AfterWriting(Written(W[i - 1], s[i]), s[i])
       /\ C[i] = C[i - 1] + Len(ChunksOf(W[i - 1], s[i]))
  /\ \A i \in 0..Len(s) : C[i] <= C[Len(s)]

(* What a writer knows of a chunk stream is in what it wrote. *)
Remembers(W, s) ==
  \A i \in 0..Len(s) : \A cs \in ChunkStreams :
    ~W[i].streams[cs].fresh =>
      /\ W[i].streams[cs].sid = SidOf(cs)
      /\ \E k \in 1..i : s[k].cs = cs /\ s[k].ts = W[i].streams[cs].ts

(* The wire has n parts of the handshake, then the chunks that come after the first o. *)
OnWire(W, C, o, n, wi, s) ==
  /\ \E T : wi \in Seq(T)
  /\ o \in Nat /\ o <= C[Len(s)] /\ n \in Nat /\ Len(wi) = n + (C[Len(s)] - o)
  /\ \A i \in 1..Len(s) : \A j \in 1..Len(ChunksOf(W[i - 1], s[i])) :
       C[i - 1] + j > o =>
         wi[n + ((C[i - 1] + j) - o)] = ChunksOf(W[i - 1], s[i])[j]

(* The reader has read o chunks: k messages, and perhaps the beginning of another. *)
InStep(W, C, o, rd, s, k) ==
  /\ rd \in Readers(Parts)
  /\ k \in 0..Len(s) /\ C[k] <= o
  /\ (k < Len(s) => o < C[k + 1]) /\ (k = Len(s) => o = C[k])
  /\ rd.chunkSize = W[k].chunkSize
  /\ \A cs \in ChunkStreams :
       IF o > C[k] /\ cs = s[k + 1].cs
         THEN Follows(rd.streams[cs], Written(W[k], s[k + 1]).streams[cs],
                      SubSeq(s[k + 1].body, 1, Pieces(W[k], s[k + 1], o - C[k])),
                      Back(s, cs))
         ELSE Follows(rd.streams[cs], W[k].streams[cs], <<>>, Back(s, cs))

Arrived(rc, s) ==
  /\ rc \in Seq(Messages(Parts)) /\ Len(rc) <= Len(s)
  /\ \A i \in DOMAIN rc : SameMessage(rc[i], s[i])

Linked(n, wi, wr, rd, s, rc) ==
  /\ AllSound(s) /\ Arrived(rc, s)
  /\ \E W, C, o :
       /\ History(W, C, s) /\ Remembers(W, s) /\ wr = W[Len(s)]
       /\ OnWire(W, C, o, n, wi, s) /\ InStep(W, C, o, rd, s, Len(rc))
-----------------------------------------------------------------------------
LEMMA WriterGoesOn ==
  ASSUME NEW w \in Writers, NEW m, Sound(m)
  PROVE  /\ AfterWriting(Written(w, m), m) \in Writers
         /\ AfterWriting(Written(w, m), m).streams = Written(w, m).streams
         /\ AfterWriting(Written(w, m), m).chunkSize =
              IF m.type = "SetChunkSize" THEN ChunkSize ELSE w.chunkSize
<1>1. m \in Messages(Parts) /\ (m.type = "SetChunkSize" => What(m)[2] = ChunkSize)
  BY DEF Sound
<1>2. Written(w, m) \in Writers /\ Written(w, m).chunkSize = w.chunkSize
  BY <1>1, WrittenStream
<1>3. ChunkSize \in 1..MaxBodySize
  BY ChunkAssumption, LinkAssumption
<1> QED
  BY <1>1, <1>2, <1>3 DEF AfterWriting, Writers

LEMMA NewWriterIs ==
  NewWriter \in Writers /\ \A cs \in ChunkStreams : NewWriter.streams[cs].fresh
<1>1. [fresh |-> TRUE, sid |-> 0, type |-> "", len |-> 0, ts |-> 0, delta |-> None]
        \in WriterStreams
  BY DEF WriterStreams, MessageTypes
<1> QED
  BY <1>1, ChunkAssumption DEF NewWriter, Writers

LEMMA LinkStarts ==
  Linked(0, <<>>, NewWriter, NewReader, <<>>, <<>>)
<1> DEFINE W == [i \in 0..0 |-> NewWriter]
<1> DEFINE C == [i \in 0..0 |-> 0]
<1>1. AllSound(<<>>) /\ Arrived(<<>>, <<>>)
  BY DEF AllSound, Arrived
<1>2. W[0] = NewWriter /\ C[0] = 0 /\ W \in [0..0 -> Writers] /\ C \in [0..0 -> Nat]
  BY NewWriterIs
<1>3. NewReader \in Readers(Parts)
  <2>1. [started |-> FALSE, ts |-> 0, type |-> "", sid |-> 0, len |-> 0, body |-> <<>>,
         delta |-> None] \in ReaderStreams(Parts)
    BY EmptySeq DEF ReaderStreams, MessageTypes
  <2> QED
    BY <2>1, ChunkAssumption DEF NewReader, Readers
<1> HIDE DEF W, C
<1>4. History(W, C, <<>>) /\ Remembers(W, <<>>)
  BY <1>2, NewWriterIs DEF History, Remembers
<1>5. OnWire(W, C, 0, 0, <<>>, <<>>)
  BY <1>2, EmptySeq DEF OnWire
<1>6. \A cs \in ChunkStreams : Follows(NewReader.streams[cs], NewWriter.streams[cs], <<>>,
                                       Back(<<>>, cs))
  BY DEF Follows, NewReader, NewWriter, None
<1>7. InStep(W, C, 0, NewReader, <<>>, 0)
  <2>1. NewReader.chunkSize = NewWriter.chunkSize
    BY DEF NewReader, NewWriter
  <2> QED
    BY <1>2, <1>3, <1>6, <2>1 DEF InStep
<1> QED
  BY <1>1, <1>2, <1>4, <1>5, <1>7 DEF Linked

(* A part of the handshake is written, before any message. *)
LEMMA LinkPuts ==
  ASSUME NEW n, NEW wi, NEW wr, NEW rd, NEW rc, NEW x, Linked(n, wi, wr, rd, <<>>, rc)
  PROVE  Linked(n + 1, Append(wi, x), wr, rd, <<>>, rc)
<1>1. PICK W, C, o : /\ History(W, C, <<>>) /\ Remembers(W, <<>>) /\ wr = W[Len(<<>>)]
                     /\ OnWire(W, C, o, n, wi, <<>>) /\ InStep(W, C, o, rd, <<>>, Len(rc))
  BY DEF Linked
<1>2. PICK T : wi \in Seq(T)
  BY <1>1 DEF OnWire
<1>3. Append(wi, x) \in Seq(T \cup {x}) /\ Len(Append(wi, x)) = Len(wi) + 1
  <2>1. wi \in Seq(T \cup {x})
    BY <1>2
  <2> QED
    BY <2>1, AppendProperties
<1>4. o \in Nat /\ n \in Nat /\ C[Len(<<>>)] \in Nat /\ Len(wi) = n + (C[Len(<<>>)] - o)
      /\ o <= C[Len(<<>>)] /\ Len(<<>>) = 0
  BY <1>1 DEF OnWire, History
<1>5. OnWire(W, C, o, n + 1, Append(wi, x), <<>>)
  BY SMTT(30), <1>3, <1>4 DEF OnWire
<1> QED
  BY <1>1, <1>5 DEF Linked

LEMMA ChunkNumber ==
  ASSUME NEW W, NEW C, NEW s, AllSound(s), History(W, C, s),
         NEW i \in 1..Len(s), NEW j \in 1..Len(ChunksOf(W[i - 1], s[i]))
  PROVE  /\ Len(s) \in Nat /\ i - 1 \in 0..Len(s) /\ W[i - 1] \in Writers /\ Sound(s[i])
         /\ s[i] \in Messages(Parts)
         /\ C[i - 1] \in Nat /\ j \in Nat /\ C[i] \in Nat /\ C[Len(s)] \in Nat
         /\ C[i - 1] + j <= C[i] /\ C[i] <= C[Len(s)]
<1>1. Len(s) \in Nat /\ i - 1 \in 0..Len(s) /\ Sound(s[i]) /\ s[i] \in Messages(Parts)
  BY DEF AllSound
<1>2. W[i - 1] \in Writers /\ C[i - 1] \in Nat /\ C[i] \in Nat /\ C[Len(s)] \in Nat
      /\ C[i] <= C[Len(s)] /\ C[i] = C[i - 1] + Len(ChunksOf(W[i - 1], s[i]))
  <2>1. W \in [0..Len(s) -> Writers] /\ C \in [0..Len(s) -> Nat]
    BY DEF History
  <2>2. C[i] = C[i - 1] + Len(ChunksOf(W[i - 1], s[i]))
    BY DEF History
  <2>3. i \in 0..Len(s) /\ Len(s) \in 0..Len(s)
    BY <1>1
  <2>4. C[i] <= C[Len(s)]
    BY <2>3 DEF History
  <2> QED
    BY <1>1, <2>1, <2>2, <2>3, <2>4
<1>3. Len(ChunksOf(W[i - 1], s[i])) \in Nat
  BY <1>1, <1>2, ChunksAre
<1> QED
  BY <1>1, <1>2, <1>3

(* A part of the handshake is read. *)
LEMMA LinkGets ==
  ASSUME NEW n, NEW wi, NEW wr, NEW rd, NEW s, NEW rc, Linked(n, wi, wr, rd, s, rc),
         n > 0, NEW rd2 \in Readers(Parts), rd2.streams = rd.streams,
         rd2.chunkSize = rd.chunkSize
  PROVE  Linked(n - 1, Tail(wi), wr, rd2, s, rc)
<1>1. PICK W, C, o : /\ History(W, C, s) /\ Remembers(W, s) /\ wr = W[Len(s)]
                     /\ OnWire(W, C, o, n, wi, s) /\ InStep(W, C, o, rd, s, Len(rc))
  BY DEF Linked
<1>2. PICK T : wi \in Seq(T)
  BY <1>1 DEF OnWire
<1> DEFINE c == C[Len(s)]
<1>3. /\ AllSound(s) /\ Len(s) \in Nat /\ c \in Nat
      /\ o \in Nat /\ o <= c /\ n \in Nat /\ Len(wi) = n + (c - o)
  <2>1. AllSound(s) /\ Len(s) \in Nat
    BY DEF Linked, AllSound
  <2>2. C \in [0..Len(s) -> Nat]
    BY <1>1 DEF History
  <2>3. o \in Nat /\ o <= c /\ n \in Nat /\ Len(wi) = n + (c - o)
    BY <1>1 DEF OnWire
  <2> QED
    BY <2>1, <2>2, <2>3
<1> HIDE DEF c
<1>4. wi # <<>> /\ Tail(wi) \in Seq(T) /\ Len(Tail(wi)) = (n - 1) + (c - o)
      /\ \A i \in 1..Len(Tail(wi)) : Tail(wi)[i] = wi[i + 1]
  <2>1. Len(wi) > 0
    BY <1>3
  <2>2. wi # <<>>
    BY <2>1
  <2>3. Tail(wi) \in Seq(T) /\ Len(Tail(wi)) = Len(wi) - 1
        /\ \A i \in 1..Len(Tail(wi)) : Tail(wi)[i] = wi[i + 1]
    BY <1>2, <2>2, HeadTailProperties
  <2> QED
    BY <1>3, <2>2, <2>3
<1>5. ASSUME NEW i \in 1..Len(s), NEW j \in 1..Len(ChunksOf(W[i - 1], s[i])),
             C[i - 1] + j > o
      PROVE  Tail(wi)[(n - 1) + ((C[i - 1] + j) - o)] = ChunksOf(W[i - 1], s[i])[j]
  <2>1. C[i - 1] \in Nat /\ j \in Nat /\ C[i - 1] + j <= c
    <3>1. C[i - 1] \in Nat /\ j \in Nat /\ C[i - 1] + j <= C[i] /\ C[i] <= C[Len(s)]
          /\ C[i] \in Nat
      BY <1>1, <1>3, ChunkNumber
    <3> QED
      BY SMTT(30), <1>3, <3>1 DEF c
  <2> DEFINE k == (C[i - 1] + j) - o
  <2>2. k \in 1..(c - o)
    <3> DEFINE a == C[i - 1]
    <3>1. a \in Nat /\ j \in Nat /\ a + j <= c /\ a + j > o /\ k = (a + j) - o
      BY <1>5, <2>1
    <3> HIDE DEF a, k
    <3> QED
      BY SMTT(30), <1>3, <3>1
  <2>3. wi[n + k] = ChunksOf(W[i - 1], s[i])[j]
    BY <1>1, <1>5 DEF OnWire
  <2> HIDE DEF k
  <2>4. (n - 1) + k \in 1..Len(Tail(wi)) /\ ((n - 1) + k) + 1 = n + k
    BY SMTT(30), <1>3, <1>4, <2>2
  <2>5. Tail(wi)[(n - 1) + k] = wi[n + k]
    BY <1>4, <2>4
  <2> QED
    BY <2>3, <2>5 DEF k
<1>6. OnWire(W, C, o, n - 1, Tail(wi), s)
  <2>1. n - 1 \in Nat
    BY <1>3
  <2> QED
    BY <1>3, <1>4, <1>5, <2>1 DEF OnWire, c
<1>7. InStep(W, C, o, rd2, s, Len(rc))
  BY <1>1 DEF InStep
<1> QED
  BY <1>1, <1>6, <1>7 DEF Linked

(* The bytes that were read are counted apart from the messages. *)
LEMMA LinkCounts ==
  ASSUME NEW n, NEW wi, NEW wr, NEW rd, NEW s, NEW rc, Linked(n, wi, wr, rd, s, rc),
         NEW rd2 \in Readers(Parts), rd2.streams = rd.streams, rd2.chunkSize = rd.chunkSize
  PROVE  Linked(n, wi, wr, rd2, s, rc)
  BY DEF Linked, InStep
-----------------------------------------------------------------------------
LEMMA HistoryGrows ==
  ASSUME NEW W, NEW C, NEW s, AllSound(s), History(W, C, s), Remembers(W, s),
         NEW m, Sound(m)
  PROVE  LET n  == Len(s)
             W2 == [i \in 0..(n + 1) |->
                      IF i <= n THEN W[i] ELSE AfterWriting(Written(W[n], m), m)]
             C2 == [i \in 0..(n + 1) |->
                      IF i <= n THEN C[i] ELSE C[n] + Len(ChunksOf(W[n], m))]
         IN  AllSound(Append(s, m)) /\ History(W2, C2, Append(s, m))
             /\ Remembers(W2, Append(s, m))
<1> DEFINE n == Len(s)
<1> DEFINE s2 == Append(s, m)
<1> DEFINE w == AfterWriting(Written(W[n], m), m)
<1> DEFINE l == Len(ChunksOf(W[n], m))
<1> DEFINE W2 == [i \in 0..(n + 1) |-> IF i <= n THEN W[i] ELSE w]
<1> DEFINE C2 == [i \in 0..(n + 1) |-> IF i <= n THEN C[i] ELSE C[n] + l]
<1>1. s \in Seq(Messages(Parts)) /\ n \in Nat /\ m \in Messages(Parts)
      /\ m.cs \in ChunkStreams /\ m.sid = SidOf(m.cs)
  BY DEF AllSound, Sound, Messages
<1>2. s2 \in Seq(Messages(Parts)) /\ Len(s2) = n + 1 /\ s2[n + 1] = m
      /\ \A i \in 1..n : s2[i] = s[i]
  BY <1>1, AppendProperties
<1>3. /\ W \in [0..n -> Writers] /\ C \in [0..n -> Nat] /\ W[0] = NewWriter /\ C[0] = 0
      /\ \A i \in 0..n : C[i] <= C[n]
  BY DEF History
<1>4. W[n] \in Writers /\ C[n] \in Nat
  BY <1>1, <1>3
<1>5. w \in Writers /\ w.streams = Written(W[n], m).streams
  BY <1>4, WriterGoesOn
<1>6. l \in Nat
  BY <1>1, <1>4, ChunksAre
<1> HIDE DEF w, l, s2
<1>7. /\ W2 \in [0..(n + 1) -> Writers] /\ C2 \in [0..(n + 1) -> Nat]
      /\ \A i \in 0..n : W2[i] = W[i] /\ C2[i] = C[i]
      /\ W2[n + 1] = w /\ C2[n + 1] = C[n] + l
  BY <1>1, <1>3, <1>4, <1>5, <1>6
<1> HIDE DEF W2, C2
<1>8. ASSUME NEW i \in 1..(n + 1)
      PROVE  /\ W2[i] = AfterWriting(Written(W2[i - 1], s2[i]), s2[i])
             /\ C2[i] = C2[i - 1] + Len(ChunksOf(W2[i - 1], s2[i]))
  <2>1. CASE i \in 1..n
    <3>1. i \in 0..n /\ i - 1 \in 0..n
      BY <1>1, <2>1
    <3>2. W2[i] = W[i] /\ C2[i] = C[i] /\ W2[i - 1] = W[i - 1] /\ C2[i - 1] = C[i - 1]
          /\ s2[i] = s[i]
      BY <1>2, <1>7, <2>1, <3>1
    <3>3. /\ W[i] = AfterWriting(Written(W[i - 1], s[i]), s[i])
          /\ C[i] = C[i - 1] + Len(ChunksOf(W[i - 1], s[i]))
      BY <2>1 DEF History
    <3> QED
      BY <3>2, <3>3
  <2>2. CASE i = n + 1
    <3>1. i - 1 = n /\ n \in 0..n
      BY <1>1, <2>2
    <3> QED
      BY <1>2, <1>7, <2>2, <3>1 DEF w, l
  <2> QED
    BY <1>1, <2>1, <2>2
<1>9. \A i \in 0..(n + 1) : C2[i] <= C2[n + 1]
  <2> SUFFICES ASSUME NEW i \in 0..(n + 1) PROVE C2[i] <= C2[n + 1]
    OBVIOUS
  <2>1. CASE i \in 0..n
    <3>1. C2[i] = C[i] /\ C[i] \in Nat /\ C[i] <= C[n]
      BY <1>3, <1>7, <2>1
    <3> QED
      BY <1>4, <1>6, <1>7, <3>1
  <2>2. CASE i = n + 1
    BY <1>4, <1>6, <1>7, <2>2
  <2> QED
    BY <1>1, <2>1, <2>2
<1>10. History(W2, C2, s2)
  <2>1. W2[0] = NewWriter /\ C2[0] = 0
    BY <1>1, <1>3, <1>7
  <2> QED
    BY <1>2, <1>7, <1>8, <1>9, <2>1 DEF History
<1>11. Remembers(W2, s2)
  <2> SUFFICES ASSUME NEW i \in 0..(n + 1), NEW cs \in ChunkStreams,
                      ~W2[i].streams[cs].fresh
               PROVE  /\ W2[i].streams[cs].sid = SidOf(cs)
                      /\ \E k \in 1..i : s2[k].cs = cs /\ s2[k].ts = W2[i].streams[cs].ts
    BY <1>2 DEF Remembers
  <2>1. ASSUME NEW a \in 0..n, ~W[a].streams[cs].fresh
        PROVE  /\ W[a].streams[cs].sid = SidOf(cs)
               /\ \E k \in 1..a : s2[k].cs = cs /\ s2[k].ts = W[a].streams[cs].ts
    <3>1. W[a].streams[cs].sid = SidOf(cs)
          /\ \E k \in 1..a : s[k].cs = cs /\ s[k].ts = W[a].streams[cs].ts
      BY <2>1 DEF Remembers
    <3>2. \A k \in 1..a : s2[k] = s[k]
      BY <1>1, <1>2
    <3> QED
      BY <3>1, <3>2
  <2>2. CASE i \in 0..n
    BY <1>7, <2>1, <2>2
  <2>3. CASE i = n + 1
    <3>1. CASE cs = m.cs
      <4>1. w.streams[cs] =
              [fresh |-> FALSE, sid |-> m.sid, type |-> m.type, len |-> Len(m.body),
               ts |-> m.ts, delta |-> IF Delta(W[n], m) = None
                                        THEN W[n].streams[m.cs].delta ELSE Delta(W[n], m)]
        BY <1>1, <1>4, <1>5, <3>1, WrittenStream
      <4>2. w.streams[cs].sid = SidOf(cs) /\ w.streams[cs].ts = m.ts
        BY <1>1, <3>1, <4>1
      <4>3. n + 1 \in 1..i
        BY <1>1, <2>3
      <4> QED
        BY <1>2, <1>7, <2>3, <3>1, <4>2, <4>3
    <3>2. CASE cs # m.cs
      <4>1. w.streams[cs] = W[n].streams[cs]
        <5>1. Written(W[n], m).streams[cs] = W[n].streams[cs]
          BY <1>1, <1>4, <3>2, WrittenOthers
        <5> QED
          BY <1>5, <5>1
      <4>2. /\ W[n].streams[cs].sid = SidOf(cs)
            /\ \E k \in 1..n : s2[k].cs = cs /\ s2[k].ts = W[n].streams[cs].ts
        <5>1. n \in 0..n /\ ~W[n].streams[cs].fresh
          BY <1>1, <1>7, <2>3, <4>1
        <5> QED
          BY <2>1, <5>1
      <4>3. \A k \in 1..n : k \in 1..i
        BY <1>1, <2>3
      <4> QED
        BY <1>7, <2>3, <4>1, <4>2, <4>3
    <3> QED
      BY <3>1, <3>2
  <2> QED
    BY <1>1, <2>2, <2>3
<1>12. AllSound(s2)
  <2> SUFFICES ASSUME NEW i \in DOMAIN s2 PROVE Sound(s2[i])
    BY <1>2 DEF AllSound
  <2>1. i \in 1..(n + 1)
    BY <1>2
  <2>2. \A k \in 1..n : Sound(s[k])
    BY <1>1 DEF AllSound
  <2> QED
    BY <1>1, <1>2, <2>1, <2>2
<1> QED
  BY <1>10, <1>11, <1>12 DEF W2, C2, s2, w, l

LEMMA BackStays ==
  ASSUME NEW s, AllSound(s), NEW m, Sound(m), NEW cs, Back(s, cs)
  PROVE  Back(Append(s, m), cs)
<1>1. s \in Seq(Messages(Parts)) /\ m \in Messages(Parts)
  BY DEF AllSound, Sound
<1>2. DOMAIN s \subseteq DOMAIN Append(s, m) /\ \A i \in DOMAIN s : Append(s, m)[i] = s[i]
  BY <1>1, AppendProperties
<1> QED
  BY <1>2 DEF Back

LEMMA FollowsStill ==
  ASSUME NEW rs, NEW ws, NEW body, NEW b1, NEW b2, b1 => b2, Follows(rs, ws, body, b1)
  PROVE  Follows(rs, ws, body, b2)
  BY DEF Follows

(* A message is written, whole. *)
LEMMA LinkWrites ==
  ASSUME NEW n, NEW wi, NEW wr, NEW rd, NEW s, NEW rc, Linked(n, wi, wr, rd, s, rc),
         NEW m, Sound(m)
  PROVE  /\ wr \in Writers
         /\ Linked(n, wi \o ChunksOf(wr, m), AfterWriting(Written(wr, m), m), rd,
                   Append(s, m), rc)
<1>1. PICK W, C, o : /\ History(W, C, s) /\ Remembers(W, s) /\ wr = W[Len(s)]
                     /\ OnWire(W, C, o, n, wi, s) /\ InStep(W, C, o, rd, s, Len(rc))
  BY DEF Linked
<1> DEFINE q == Len(s)
<1> DEFINE s2 == Append(s, m)
<1> DEFINE w == AfterWriting(Written(W[q], m), m)
<1> DEFINE l == Len(ChunksOf(W[q], m))
<1> DEFINE W2 == [i \in 0..(q + 1) |-> IF i <= q THEN W[i] ELSE w]
<1> DEFINE C2 == [i \in 0..(q + 1) |-> IF i <= q THEN C[i] ELSE C[q] + l]
<1> DEFINE wi2 == wi \o ChunksOf(wr, m)
<1>2. AllSound(s) /\ Arrived(rc, s)
  BY DEF Linked
<1>3. AllSound(s2) /\ History(W2, C2, s2) /\ Remembers(W2, s2)
  BY <1>1, <1>2, HistoryGrows
<1>4. s \in Seq(Messages(Parts)) /\ q \in Nat /\ m \in Messages(Parts)
      /\ Len(s2) = q + 1 /\ s2[q + 1] = m /\ \A i \in 1..q : s2[i] = s[i]
  <2>1. s \in Seq(Messages(Parts)) /\ m \in Messages(Parts)
    BY <1>2 DEF AllSound, Sound
  <2> QED
    BY <2>1, AppendProperties
<1>5. W[q] \in Writers /\ C[q] \in Nat /\ wr = W[q]
  BY <1>1, <1>4 DEF History
<1>6. l \in Nat \ {0}
  BY <1>4, <1>5, ChunksAre
<1>7. /\ \A i \in 0..q : W2[i] = W[i] /\ C2[i] = C[i]
      /\ W2[q + 1] = w /\ C2[q + 1] = C[q] + l
  BY <1>4
<1> HIDE DEF W2, C2, s2, w, l, q
<1>8. OnWire(W2, C2, o, n, wi2, s2)
  <2>1. PICK T : wi \in Seq(T)
    BY <1>1 DEF OnWire
  <2>2. PICK T2 : ChunksOf(wr, m) \in Seq(T2)
    BY <1>4, <1>5, ChunksAreSeq
  <2>3. wi \in Seq(T \cup T2) /\ ChunksOf(wr, m) \in Seq(T \cup T2)
    BY <2>1, <2>2
  <2>4. /\ wi2 \in Seq(T \cup T2) /\ Len(wi2) = Len(wi) + l /\ Len(wi) \in Nat
        /\ \A k \in 1..Len(wi) : wi2[k] = wi[k]
        /\ \A k \in 1..l : wi2[Len(wi) + k] = ChunksOf(wr, m)[k]
    <3>1. Len(ChunksOf(wr, m)) = l /\ Len(wi) \in Nat
      BY <1>5, <2>1 DEF l
    <3>2. /\ wi2 \in Seq(T \cup T2) /\ Len(wi2) = Len(wi) + l
          /\ \A k \in 1..(Len(wi) + l) :
               wi2[k] = IF k <= Len(wi) THEN wi[k] ELSE ChunksOf(wr, m)[k - Len(wi)]
      BY <2>3, <3>1, ConcatProperties
    <3>3. \A k \in 1..Len(wi) : k \in 1..(Len(wi) + l) /\ k <= Len(wi)
      BY <1>6, <3>1
    <3>4. ASSUME NEW k \in 1..l
          PROVE  wi2[Len(wi) + k] = ChunksOf(wr, m)[k]
      <4>1. Len(wi) + k \in 1..(Len(wi) + l) /\ ~(Len(wi) + k <= Len(wi))
            /\ (Len(wi) + k) - Len(wi) = k
        BY <1>6, <3>1
      <4> QED
        BY <3>2, <4>1
    <3> HIDE DEF wi2
    <3> QED
      BY <3>1, <3>2, <3>3, <3>4
  <2>5. o \in Nat /\ o <= C[q] /\ n \in Nat /\ Len(wi) = n + (C[q] - o)
    BY <1>1 DEF OnWire, q
  <2>6. C2[q + 1] \in Nat /\ o <= C2[q + 1] /\ Len(wi2) = n + (C2[q + 1] - o)
    BY SMTT(30), <1>5, <1>6, <1>7, <2>4, <2>5
  <2>7. ASSUME NEW i \in 1..(q + 1), NEW j \in 1..Len(ChunksOf(W2[i - 1], s2[i])),
               C2[i - 1] + j > o
        PROVE  wi2[n + ((C2[i - 1] + j) - o)] = ChunksOf(W2[i - 1], s2[i])[j]
    <3>1. CASE i \in 1..q
      <4>1. i - 1 \in 0..q /\ W2[i - 1] = W[i - 1] /\ C2[i - 1] = C[i - 1] /\ s2[i] = s[i]
        BY <1>4, <1>7, <3>1
      <4>2. j \in 1..Len(ChunksOf(W[i - 1], s[i])) /\ C[i - 1] + j > o
        BY <2>7, <4>1
      <4>3. wi[n + ((C[i - 1] + j) - o)] = ChunksOf(W[i - 1], s[i])[j]
        BY <1>1, <3>1, <4>2 DEF OnWire, q
      <4>4. C[i - 1] \in Nat /\ j \in Nat /\ C[i - 1] + j <= C[q]
        <5>1. C[i - 1] \in Nat /\ j \in Nat /\ C[i - 1] + j <= C[i] /\ C[i] <= C[q]
              /\ C[i] \in Nat
          BY <1>1, <1>2, <3>1, <4>2, ChunkNumber DEF q
        <5> QED
          BY <1>5, <5>1
      <4> DEFINE k == (C[i - 1] + j) - o
      <4>5. n + k \in 1..Len(wi)
        <5>1. \A a, b, c, x, y \in Nat :
                a + b > y /\ a + b <= c /\ x + (c - y) = Len(wi)
                  => x + ((a + b) - y) \in 1..Len(wi)
          BY SMTT(30), <2>4
        <5> QED
          BY <1>5, <2>5, <4>2, <4>4, <5>1
      <4> HIDE DEF k
      <4>6. wi2[n + k] = wi[n + k]
        BY <2>4, <4>5
      <4> QED
        BY <4>1, <4>3, <4>6 DEF k
    <3>2. CASE i = q + 1
      <4>1. i - 1 = q /\ q \in 0..q
        BY <1>4, <3>2
      <4>2. W2[i - 1] = W[q] /\ C2[i - 1] = C[q] /\ s2[i] = m
        BY <1>4, <1>7, <3>2, <4>1
      <4>3. j \in 1..l
        BY <4>2 DEF l
      <4>4. n + ((C[q] + j) - o) = Len(wi) + j
        BY <1>5, <1>6, <2>5, <4>3
      <4> QED
        BY SMTT(30), <1>5, <2>4, <4>2, <4>3, <4>4
    <3>3. i \in 1..q \/ i = q + 1
      BY <1>4
    <3> QED
      BY <3>1, <3>2, <3>3
  <2> QED
    BY <1>4, <2>4, <2>5, <2>6, <2>7 DEF OnWire
<1>9. InStep(W2, C2, o, rd, s2, Len(rc))
  <2> DEFINE k == Len(rc)
  <2>1. /\ rd \in Readers(Parts) /\ k \in 0..q /\ C[k] <= o
        /\ (k < q => o < C[k + 1]) /\ (k = q => o = C[k])
        /\ rd.chunkSize = W[k].chunkSize
    BY <1>1 DEF InStep, q
  <2> HIDE DEF k
  <2>2. W2[k] = W[k] /\ C2[k] = C[k] /\ k \in 0..(q + 1)
    BY <1>4, <1>7, <2>1
  <2>3. k < q => k + 1 \in 0..q /\ k + 1 \in 1..q
    BY <1>4, <2>1
  <2>4. C2[k] <= o /\ (k < q + 1 => o < C2[k + 1]) /\ (k = q + 1 => o = C2[k])
    <3>1. CASE k < q
      BY <1>4, <1>7, <2>1, <2>2, <2>3, <3>1
    <3>2. CASE k = q
      BY <1>4, <1>5, <1>6, <1>7, <2>1, <2>2, <3>2
    <3> QED
      BY <1>4, <2>1, <3>1, <3>2
  <2>5. ASSUME NEW cs \in ChunkStreams
        PROVE  IF o > C2[k] /\ cs = s2[k + 1].cs
                 THEN Follows(rd.streams[cs], Written(W2[k], s2[k + 1]).streams[cs],
                              SubSeq(s2[k + 1].body, 1, Pieces(W2[k], s2[k + 1], o - C2[k])),
                              Back(s2, cs))
                 ELSE Follows(rd.streams[cs], W2[k].streams[cs], <<>>, Back(s2, cs))
    <3>1. Back(s, cs) => Back(s2, cs)
      BY <1>2, BackStays DEF s2
    <3>2. IF o > C[k] /\ cs = s[k + 1].cs
            THEN Follows(rd.streams[cs], Written(W[k], s[k + 1]).streams[cs],
                         SubSeq(s[k + 1].body, 1, Pieces(W[k], s[k + 1], o - C[k])),
                         Back(s, cs))
            ELSE Follows(rd.streams[cs], W[k].streams[cs], <<>>, Back(s, cs))
      BY <1>1 DEF InStep, k
    <3>3. CASE k < q
      <4>1. s2[k + 1] = s[k + 1]
        BY <1>4, <2>3, <3>3
      <4> QED
        BY <2>2, <3>1, <3>2, <4>1, FollowsStill
    <3>4. CASE k = q
      <4>1. ~(o > C[k])
        BY <1>5, <2>1, <3>4
      <4> QED
        BY <2>2, <3>1, <3>2, <4>1, FollowsStill
    <3> QED
      BY <1>4, <2>1, <3>3, <3>4
  <2> QED
    BY <1>4, <2>1, <2>2, <2>4, <2>5 DEF InStep, k
<1>10. Arrived(rc, s2)
  <2>1. rc \in Seq(Messages(Parts)) /\ Len(rc) <= q
        /\ \A i \in DOMAIN rc : SameMessage(rc[i], s[i])
    BY <1>2 DEF Arrived, q
  <2>2. \A i \in DOMAIN rc : i \in 1..q
    BY <1>4, <2>1
  <2>3. Len(rc) <= Len(s2)
    BY <1>4, <2>1
  <2> QED
    BY <1>4, <2>1, <2>2, <2>3 DEF Arrived
<1>11. wr \in Writers /\ AfterWriting(Written(wr, m), m) = W2[Len(s2)]
  BY <1>4, <1>5, <1>7 DEF w
<1> QED
  BY <1>3, <1>8, <1>9, <1>10, <1>11 DEF Linked, s2

-----------------------------------------------------------------------------
(* What comes first on a wire without parts of the handshake: the next chunk of the
   message after those that were read. *)
IsNext(W, C, o, s, k, c) ==
  /\ k < Len(s) /\ k + 1 \in 1..Len(s) /\ k \in 0..Len(s)
  /\ W[k] \in Writers /\ Sound(s[k + 1]) /\ s[k + 1] \in Messages(Parts)
  /\ (o - C[k]) + 1 \in 1..Len(ChunksOf(W[k], s[k + 1]))
  /\ c = ChunksOf(W[k], s[k + 1])[(o - C[k]) + 1]
  /\ o \in Nat /\ C[k] \in Nat /\ C[k + 1] \in Nat /\ C[Len(s)] \in Nat
  /\ C[k] <= o /\ o < C[k + 1] /\ C[k + 1] <= C[Len(s)]
  /\ C[k + 1] = C[k] + Len(ChunksOf(W[k], s[k + 1]))

LEMMA LinkNext ==
  ASSUME NEW W, NEW C, NEW o, NEW wi, NEW rd, NEW s, NEW k,
         AllSound(s), History(W, C, s), OnWire(W, C, o, 0, wi, s), InStep(W, C, o, rd, s, k),
         wi # <<>>
  PROVE  IsNext(W, C, o, s, k, Head(wi))
<1> DEFINE q == Len(s)
<1>1. q \in Nat /\ k \in 0..q /\ C[k] <= o /\ (k < q => o < C[k + 1]) /\ (k = q => o = C[k])
  BY DEF AllSound, InStep
<1>2. /\ (\E T : wi \in Seq(T))
      /\ o \in Nat /\ o <= C[q] /\ Len(wi) = 0 + (C[q] - o)
  BY DEF OnWire
<1>3. W \in [0..q -> Writers] /\ C \in [0..q -> Nat]
  BY DEF History
<1>4. C[k] \in Nat /\ C[q] \in Nat /\ W[k] \in Writers
  BY <1>1, <1>3
<1>5. k < q /\ Len(wi) > 0 /\ Head(wi) = wi[1]
  <2>1. Len(wi) > 0 /\ Head(wi) = wi[1]
    BY <1>2
  <2> QED
    BY <1>1, <1>2, <1>4, <2>1
<1>6. k + 1 \in 1..q /\ (k + 1) - 1 = k /\ k + 1 \in 0..q
  BY <1>1, <1>5
<1>7. Sound(s[k + 1]) /\ s[k + 1] \in Messages(Parts)
  BY <1>6 DEF AllSound
<1>8. C[k + 1] = C[k] + Len(ChunksOf(W[k], s[k + 1]))
  <2>1. \A i \in 1..q : C[i] = C[i - 1] + Len(ChunksOf(W[i - 1], s[i]))
    BY DEF History
  <2> QED
    BY <1>6, <2>1
<1>9. C[k + 1] \in Nat /\ C[k + 1] <= C[q]
  BY <1>3, <1>6 DEF History
<1> DEFINE n == Len(ChunksOf(W[k], s[k + 1]))
<1> DEFINE j == (o - C[k]) + 1
<1>10. n \in Nat
  BY <1>4, <1>7, ChunksAre
<1>11. j \in 1..n /\ C[k] + j > o /\ 0 + ((C[k] + j) - o) = 1
  <2> HIDE DEF n
  <2>1. C[k + 1] = C[k] + n
    BY <1>8 DEF n
  <2> DEFINE a == C[k]
  <2> DEFINE b == C[k + 1]
  <2>2. a \in Nat /\ b \in Nat /\ b = a + n /\ a <= o /\ o < b
    BY <1>1, <1>4, <1>5, <1>9, <2>1
  <2> HIDE DEF a, b
  <2>3. (o - a) + 1 \in 1..n /\ a + ((o - a) + 1) > o /\ 0 + ((a + ((o - a) + 1)) - o) = 1
    BY <1>2, <1>10, <2>2
  <2> QED
    BY <2>3 DEF a
<1>12. wi[1] = ChunksOf(W[k], s[k + 1])[j]
  <2> HIDE DEF j
  <2>1. \A i \in 1..q : \A x \in 1..Len(ChunksOf(W[i - 1], s[i])) :
          C[i - 1] + x > o =>
            wi[0 + ((C[i - 1] + x) - o)] = ChunksOf(W[i - 1], s[i])[x]
    BY DEF OnWire
  <2>2. wi[0 + ((C[(k + 1) - 1] + j) - o)] = ChunksOf(W[(k + 1) - 1], s[k + 1])[j]
    BY <1>6, <1>11, <2>1
  <2> QED
    BY <1>6, <1>11, <2>2
<1> QED
  BY <1>1, <1>2, <1>4, <1>5, <1>6, <1>7, <1>8, <1>9, <1>11, <1>12 DEF IsNext

(* One chunk less on the wire. *)
LEMMA WireShrinks ==
  ASSUME NEW W, NEW C, NEW o, NEW wi, NEW s,
         AllSound(s), History(W, C, s), OnWire(W, C, o, 0, wi, s), wi # <<>>
  PROVE  OnWire(W, C, o + 1, 0, Tail(wi), s)
<1> DEFINE c == C[Len(s)]
<1>1. PICK T : wi \in Seq(T)
  BY DEF OnWire
<1>2. o \in Nat /\ o <= c /\ Len(wi) = 0 + (c - o)
  BY DEF OnWire
<1>3. Len(s) \in Nat /\ c \in Nat
  BY DEF History, AllSound
<1> HIDE DEF c
<1>4. Tail(wi) \in Seq(T) /\ Len(Tail(wi)) = Len(wi) - 1 /\ Len(wi) > 0
      /\ \A i \in 1..Len(Tail(wi)) : Tail(wi)[i] = wi[i + 1]
  BY <1>1, HeadTailProperties
<1>5. o + 1 \in Nat /\ o + 1 <= c /\ Len(Tail(wi)) = 0 + (c - (o + 1))
  BY <1>2, <1>3, <1>4
<1>6. ASSUME NEW i \in 1..Len(s), NEW j \in 1..Len(ChunksOf(W[i - 1], s[i])),
             C[i - 1] + j > o + 1
      PROVE  Tail(wi)[0 + ((C[i - 1] + j) - (o + 1))] = ChunksOf(W[i - 1], s[i])[j]
  <2>1. C[i - 1] \in Nat /\ j \in Nat /\ C[i - 1] + j <= c
    <3>1. C[i - 1] \in Nat /\ j \in Nat /\ C[i - 1] + j <= C[i] /\ C[i] <= C[Len(s)]
          /\ C[i] \in Nat
      BY ChunkNumber
    <3> QED
      BY <1>3, <3>1 DEF c
  <2>2. C[i - 1] + j > o
    BY <1>2, <1>6, <2>1
  <2>3. wi[0 + ((C[i - 1] + j) - o)] = ChunksOf(W[i - 1], s[i])[j]
    BY <2>2 DEF OnWire
  <2> DEFINE x == 0 + ((C[i - 1] + j) - (o + 1))
  <2>4. x \in 1..Len(Tail(wi)) /\ x + 1 = 0 + ((C[i - 1] + j) - o)
    <3> DEFINE a == C[i - 1]
    <3>1. a \in Nat /\ j \in Nat /\ a + j <= c /\ a + j > o + 1
          /\ x = 0 + ((a + j) - (o + 1))
      BY <1>6, <2>1
    <3> HIDE DEF a, x
    <3>2. x \in 1..(c - (o + 1)) /\ x + 1 = 0 + ((a + j) - o)
      BY <1>2, <1>3, <3>1
    <3>3. c - (o + 1) = Len(Tail(wi))
      BY <1>2, <1>3, <1>5
    <3> QED
      BY <3>2, <3>3 DEF a
  <2> HIDE DEF x
  <2>5. Tail(wi)[x] = wi[x + 1]
    BY <1>4, <2>4
  <2> QED
    BY <2>3, <2>4, <2>5 DEF x
<1> QED
  BY <1>4, <1>5, <1>6 DEF OnWire, c

LEMMA NextIsRead ==
  ASSUME NEW W, NEW C, NEW o, NEW rd, NEW s, NEW k, NEW c,
         AllSound(s), Remembers(W, s), InStep(W, C, o, rd, s, k), IsNext(W, C, o, s, k, c)
  PROVE  IsRead(Parts, W[k], s[k + 1], (o - C[k]) + 1, rd, Back(s, s[k + 1].cs), c)
<1> DEFINE w == W[k]
<1> DEFINE m == s[k + 1]
<1> DEFINE j == (o - C[k]) + 1
<1> DEFINE back == Back(s, m.cs)
<1>1. /\ k \in 0..Len(s) /\ k + 1 \in 1..Len(s) /\ Len(s) \in Nat
      /\ w \in Writers /\ Sound(m) /\ m \in Messages(Parts) /\ m.cs \in ChunkStreams
      /\ j \in 1..Len(ChunksOf(w, m)) /\ c = ChunksOf(w, m)[j]
  <2>1. /\ k \in 0..Len(s) /\ k + 1 \in 1..Len(s) /\ w \in Writers /\ Sound(m)
        /\ m \in Messages(Parts) /\ j \in 1..Len(ChunksOf(w, m)) /\ c = ChunksOf(w, m)[j]
    BY DEF IsNext
  <2>2. Len(s) \in Nat
    BY DEF AllSound
  <2> QED
    BY <2>1, <2>2 DEF Messages
<1>2. rd \in Readers(Parts) /\ rd.chunkSize = w.chunkSize
  BY DEF InStep
<1>3. j = 1 <=> ~(o > C[k])
  BY DEF IsNext
<1>4. j - 1 = o - C[k]
  BY DEF IsNext
<1>5. IF o > C[k] /\ m.cs = m.cs
        THEN Follows(rd.streams[m.cs], Written(w, m).streams[m.cs],
                     SubSeq(m.body, 1, Pieces(w, m, o - C[k])), back)
        ELSE Follows(rd.streams[m.cs], w.streams[m.cs], <<>>, back)
  BY <1>1 DEF InStep
<1> HIDE DEF j
<1>6. IF j = 1 THEN Follows(rd.streams[m.cs], w.streams[m.cs], <<>>, back)
      ELSE Follows(rd.streams[m.cs], Written(w, m).streams[m.cs],
                   SubSeq(m.body, 1, Pieces(w, m, j - 1)), back)
  BY <1>3, <1>4, <1>5
<1>7. ASSUME ~w.streams[m.cs].fresh
      PROVE  w.streams[m.cs].sid = m.sid /\ (m.ts < w.streams[m.cs].ts => back)
  <2>1. /\ w.streams[m.cs].sid = SidOf(m.cs)
        /\ \E i \in 1..k : s[i].cs = m.cs /\ s[i].ts = w.streams[m.cs].ts
    BY <1>1, <1>7 DEF Remembers
  <2>2. m.sid = SidOf(m.cs)
    BY <1>1 DEF Sound
  <2>3. ASSUME m.ts < w.streams[m.cs].ts
        PROVE  back
    <3>1. PICK i \in 1..k : s[i].cs = m.cs /\ s[i].ts = w.streams[m.cs].ts
      BY <2>1
    <3>2. i \in DOMAIN s /\ k + 1 \in DOMAIN s /\ i < k + 1
      BY <1>1 DEF AllSound
    <3> QED
      BY <2>3, <3>1, <3>2 DEF Back
  <2> QED
    BY <2>1, <2>2, <2>3
<1>8. back \in BOOLEAN
  BY DEF Back
<1> HIDE DEF w, m, back
<1>9. IsRead(Parts, w, m, j, rd, back, c)
  BY <1>1, <1>2, <1>6, <1>7, <1>8, ChunkIsRead
<1> QED
  BY <1>9 DEF w, m, j, back

(* What is known of the first chunk on the wire: it continues the message after those
   that were read, and can be read unless a time went back. *)
IsFirstChunk(rd, s, rc, c) ==
  LET m == s[Len(rc) + 1]
  IN  /\ Len(rc) \in Nat /\ Len(rc) + 1 \in DOMAIN s /\ Sound(m)
      /\ c.cs = m.cs /\ c.cs \in ChunkStreams
      /\ c.body \in Seq(Parts) /\ Len(c.body) \in 1..rd.chunkSize
      /\ \A cs \in ChunkStreams \ {c.cs} : rd.streams[cs].body = <<>>
      /\ Refusal(rd, c) = "" \/ (Refusal(rd, c) = "without previous chunk" /\ Back(s, c.cs))
      /\ Refusal(rd, c) = "" =>
           /\ Framed(rd, c) /\ Read(rd, c) \in Readers(Parts)
           /\ Read(rd, c) = [rd EXCEPT !.streams = Read(rd, c).streams]
           /\ Len(Read(rd, c).streams[c.cs].body) \in 1..Len(m.body)
           /\ Complete(Read(rd, c), c)
                <=> Len(Read(rd, c).streams[c.cs].body) = Len(m.body)

LEMMA LinkFirst ==
  ASSUME NEW wi, NEW wr, NEW rd, NEW s, NEW rc, Linked(0, wi, wr, rd, s, rc), wi # <<>>
  PROVE  IsFirstChunk(rd, s, rc, Head(wi))
<1>1. PICK W, C, o : /\ History(W, C, s) /\ Remembers(W, s) /\ wr = W[Len(s)]
                     /\ OnWire(W, C, o, 0, wi, s) /\ InStep(W, C, o, rd, s, Len(rc))
  BY DEF Linked
<1> DEFINE c == Head(wi)
<1> DEFINE k == Len(rc)
<1> DEFINE w == W[k]
<1> DEFINE m == s[k + 1]
<1> DEFINE j == (o - C[k]) + 1
<1>2. AllSound(s) /\ Arrived(rc, s)
  BY DEF Linked
<1>3. IsNext(W, C, o, s, k, c)
  BY <1>1, <1>2, LinkNext
<1>4. IsRead(Parts, w, m, j, rd, Back(s, m.cs), c)
  BY <1>1, <1>2, <1>3, NextIsRead
<1>5. /\ k \in Nat /\ k + 1 \in 1..Len(s) /\ Len(s) \in Nat /\ k + 1 \in DOMAIN s
      /\ w \in Writers /\ Sound(m) /\ m \in Messages(Parts) /\ m.cs \in ChunkStreams
      /\ j \in 1..Len(ChunksOf(w, m)) /\ c = ChunksOf(w, m)[j]
  <2>1. /\ k \in 0..Len(s) /\ k + 1 \in 1..Len(s) /\ w \in Writers /\ Sound(m)
        /\ m \in Messages(Parts) /\ j \in 1..Len(ChunksOf(w, m)) /\ c = ChunksOf(w, m)[j]
    BY <1>3 DEF IsNext
  <2>2. Len(s) \in Nat /\ DOMAIN s = 1..Len(s)
    BY <1>2 DEF AllSound
  <2> QED
    BY <2>1, <2>2 DEF Messages
<1>6. rd.chunkSize = w.chunkSize /\ rd \in Readers(Parts)
      /\ \A cs \in ChunkStreams \ {m.cs} : rd.streams[cs].body = <<>>
  <2>1. \A cs \in ChunkStreams \ {m.cs} :
          Follows(rd.streams[cs], W[k].streams[cs], <<>>, Back(s, cs))
    BY <1>1 DEF InStep
  <2> QED
    BY <1>1, <2>1 DEF InStep, Follows
<1> HIDE DEF c, k, w, m, j
<1>7. /\ c.cs = m.cs /\ c.body \in Seq(Parts) /\ Len(c.body) \in 1..rd.chunkSize
      /\ Pieces(w, m, j) \in 1..Len(m.body)
  <2>1. IsCut(Parts, w, m, j, ChunksOf(w, m)[j])
    BY <1>5, ChunkIs
  <2> QED
    BY <1>5, <1>6, <2>1 DEF IsCut
<1>8. ASSUME Refusal(rd, c) = ""
      PROVE  /\ Framed(rd, c) /\ Read(rd, c) \in Readers(Parts)
             /\ Read(rd, c) = [rd EXCEPT !.streams = Read(rd, c).streams]
             /\ Len(Read(rd, c).streams[c.cs].body) \in 1..Len(m.body)
             /\ Complete(Read(rd, c), c)
                  <=> Len(Read(rd, c).streams[c.cs].body) = Len(m.body)
  <2>1. /\ Framed(rd, c) /\ Read(rd, c) \in Readers(Parts)
        /\ Follows(Read(rd, c).streams[m.cs], Written(w, m).streams[m.cs],
                   SubSeq(m.body, 1, Pieces(w, m, j)), Back(s, m.cs))
        /\ Read(rd, c) = [rd EXCEPT !.streams = Read(rd, c).streams]
    BY <1>4, <1>8 DEF IsRead
  <2>2. Read(rd, c).streams[m.cs].body = SubSeq(m.body, 1, Pieces(w, m, j))
        /\ Read(rd, c).streams[m.cs].len = Len(m.body)
    <3>1. Written(w, m).streams[m.cs].fresh = FALSE
          /\ Written(w, m).streams[m.cs].len = Len(m.body)
      <4>1. Written(w, m).streams[m.cs] =
              [fresh |-> FALSE, sid |-> m.sid, type |-> m.type, len |-> Len(m.body),
               ts |-> m.ts, delta |-> IF Delta(w, m) = None
                                        THEN w.streams[m.cs].delta ELSE Delta(w, m)]
        BY <1>5, WrittenStream
      <4> QED
        BY <4>1
    <3> QED
      BY <2>1, <3>1 DEF Follows
  <2>3. Len(SubSeq(m.body, 1, Pieces(w, m, j))) = Pieces(w, m, j)
    <3>1. m.body \in Seq(Parts)
      BY <1>5 DEF Messages
    <3>2. \A i \in 1..Pieces(w, m, j) : m.body[i] \in Parts
      BY <1>7, <3>1
    <3> QED
      BY <1>7, <3>2, SubSeqProperties
  <2> QED
    BY <1>7, <2>1, <2>2, <2>3 DEF Complete
<1>9. Refusal(rd, c) = "" \/ (Refusal(rd, c) = "without previous chunk" /\ Back(s, m.cs))
  BY <1>4 DEF IsRead
<1>10. IsFirstChunk(rd, s, rc, c)
  BY <1>5, <1>6, <1>7, <1>8, <1>9 DEF IsFirstChunk, k, m
<1> QED
  BY <1>10 DEF c

(* The message that a chunk completed, and the reader it leaves. *)
IsReceived(msg, m, rd) ==
  /\ SameMessage(msg, m) /\ Sound(msg) /\ msg.type = m.type /\ msg.cs = m.cs
  /\ msg.body = m.body /\ rd \in Readers(Parts)

LEMMA Received ==
  ASSUME NEW m, Sound(m), NEW msg \in Messages(Parts), msg = [m EXCEPT !.ts = msg.ts],
         msg.ts % TimeMod = m.ts % TimeMod, NEW rd \in Readers(Parts)
  PROVE  /\ IsReceived(msg, m, Applied(rd, msg))
         /\ Applied(rd, msg).chunkSize =
              IF m.type = "SetChunkSize" THEN ChunkSize ELSE rd.chunkSize
         /\ Applied(rd, msg).window =
              IF m.type = "SetWindowAckSize" THEN Window ELSE rd.window
         /\ Applied(rd, msg).streams = rd.streams
         /\ Applied(rd, msg).count = rd.count /\ Applied(rd, msg).lastAck = rd.lastAck
<1>1. m \in Messages(Parts)
  BY DEF Sound
<1>2. msg.type = m.type /\ msg.cs = m.cs /\ msg.sid = m.sid /\ msg.body = m.body
  BY <1>1 DEF Messages
<1>3. What(msg) = What(m)
  BY <1>2 DEF What
<1>4. Sound(msg)
  BY <1>2, <1>3 DEF Sound
<1>5. SameMessage(msg, m)
  BY DEF SameMessage
<1>6. ChunkSize \in 1..MaxBodySize /\ Window \in Nat
  BY ChunkAssumption, LinkAssumption
<1>7. CASE m.type = "SetChunkSize"
  <2>1. Applied(rd, msg) = [rd EXCEPT !.chunkSize = ChunkSize]
    BY <1>2, <1>3, <1>7 DEF Applied, Sound
  <2> QED
    BY <1>2, <1>4, <1>5, <1>6, <1>7, <2>1 DEF IsReceived, Readers
<1>8. CASE m.type = "SetWindowAckSize"
  <2>1. Applied(rd, msg) = [rd EXCEPT !.window = Window]
    BY <1>2, <1>3, <1>8 DEF Applied, Sound
  <2> QED
    BY <1>2, <1>4, <1>5, <1>6, <1>8, <2>1 DEF IsReceived, Readers
<1>9. CASE m.type \notin {"SetChunkSize", "SetWindowAckSize"}
  <2>1. Applied(rd, msg) = rd
    BY <1>2, <1>9 DEF Applied
  <2> QED
    BY <1>2, <1>4, <1>5, <1>9, <2>1 DEF IsReceived
<1> QED
  BY <1>7, <1>8, <1>9

IsReadable(rd, c) == Refusal(rd, c) = ""

(* A chunk is read that does not complete its message. *)
LEMMA StepOn ==
  ASSUME NEW W, NEW C, NEW o, NEW rd, NEW s, NEW k, NEW c,
         AllSound(s), Remembers(W, s), InStep(W, C, o, rd, s, k), IsNext(W, C, o, s, k, c),
         IsReadable(rd, c), NEW r \in Readers(Parts), r.streams = Read(rd, c).streams,
         r.chunkSize = rd.chunkSize, ~Complete(r, c)
  PROVE  InStep(W, C, o + 1, r, s, k)
<1> DEFINE w == W[k]
<1> DEFINE m == s[k + 1]
<1> DEFINE n == Len(ChunksOf(w, m))
<1> DEFINE a == C[k]
<1> DEFINE b == C[k + 1]
<1> DEFINE j == (o - a) + 1
<1> DEFINE q == Len(s)
<1>4. IsRead(Parts, w, m, j, rd, Back(s, m.cs), c)
  BY NextIsRead
<1>5. /\ w \in Writers /\ m \in Messages(Parts) /\ k \in 0..q /\ k < q
      /\ j \in 1..n /\ c = ChunksOf(w, m)[j]
      /\ o \in Nat /\ a \in Nat /\ b \in Nat /\ a <= o /\ o < b /\ b = a + n
  BY DEF IsNext
<1>6. Back(s, m.cs) \in BOOLEAN
  BY DEF Back
<1>7. /\ Follows(r.streams[m.cs], Written(w, m).streams[m.cs],
                 SubSeq(m.body, 1, Pieces(w, m, j)), Back(s, m.cs))
      /\ \A cs \in ChunkStreams \ {m.cs} : r.streams[cs] = rd.streams[cs]
  BY <1>4 DEF IsRead, IsReadable
<1>8. k \in Int /\ 0 <= k /\ k <= q /\ k < q /\ n \in Nat /\ q \in Nat
      /\ o \in Nat /\ a \in Nat /\ b \in Nat /\ a <= o /\ o < b /\ b = a + n
      /\ j = (o - a) + 1
  <2>1. n \in Nat
    <3> HIDE DEF w, m
    <3> QED
      BY <1>5, ChunksAre
  <2>2. q \in Nat
    BY DEF AllSound
  <2> HIDE DEF n, q, a, b
  <2> QED
    BY <1>5, <2>1, <2>2
<1>9. r.chunkSize = w.chunkSize
  BY DEF InStep
<1>10. \A cs \in ChunkStreams \ {m.cs} :
         Follows(rd.streams[cs], w.streams[cs], <<>>, Back(s, cs))
  BY DEF InStep
<1>11. j # n
  <2> HIDE DEF w, m, j
  <2>1. IsTaken(Parts, w, m, j, r, Back(s, m.cs), ChunksOf(w, m)[j])
    BY <1>5, <1>6, <1>7, MessageIsRead
  <2> QED
    BY <1>5, <2>1 DEF IsTaken
<1>12. a <= o + 1 /\ o + 1 < b /\ o + 1 > a /\ (o + 1) - a = j /\ k # q
  <2> HIDE DEF a, b, n, q, j
  <2> QED
    BY <1>8, <1>11
<1>13. ASSUME NEW cs \in ChunkStreams
       PROVE  IF o + 1 > a /\ cs = m.cs
                THEN Follows(r.streams[cs], Written(w, m).streams[cs],
                             SubSeq(m.body, 1, Pieces(w, m, (o + 1) - a)), Back(s, cs))
                ELSE Follows(r.streams[cs], w.streams[cs], <<>>, Back(s, cs))
  <2> HIDE DEF a, b, w, m, j
  <2>1. CASE cs = m.cs
    BY <1>7, <1>12, <2>1
  <2>2. CASE cs # m.cs
    BY <1>7, <1>10, <2>2
  <2> QED
    BY <2>1, <2>2
<1> QED
  BY <1>5, <1>9, <1>12, <1>13 DEF InStep

LEMMA LinkReadsOn ==
  ASSUME NEW wi, NEW wr, NEW rd, NEW s, NEW rc, Linked(0, wi, wr, rd, s, rc), wi # <<>>,
         IsReadable(rd, Head(wi)), NEW r \in Readers(Parts),
         r.streams = Read(rd, Head(wi)).streams, r.chunkSize = rd.chunkSize,
         ~Complete(r, Head(wi))
  PROVE  Linked(0, Tail(wi), wr, r, s, rc)
<1>1. PICK W, C, o : /\ History(W, C, s) /\ Remembers(W, s) /\ wr = W[Len(s)]
                     /\ OnWire(W, C, o, 0, wi, s) /\ InStep(W, C, o, rd, s, Len(rc))
  BY DEF Linked
<1>2. AllSound(s) /\ Arrived(rc, s)
  BY DEF Linked
<1>3. IsNext(W, C, o, s, Len(rc), Head(wi))
  BY <1>1, <1>2, LinkNext
<1>4. InStep(W, C, o + 1, r, s, Len(rc))
  BY <1>1, <1>2, <1>3, StepOn
<1>5. OnWire(W, C, o + 1, 0, Tail(wi), s)
  BY <1>1, <1>2, WireShrinks
<1> QED
  BY <1>1, <1>2, <1>4, <1>5 DEF Linked

(* A chunk is read that completes its message, msg. *)
LEMMA StepLast ==
  ASSUME NEW W, NEW C, NEW o, NEW rd, NEW s, NEW k, NEW c,
         AllSound(s), History(W, C, s), Remembers(W, s), InStep(W, C, o, rd, s, k),
         IsNext(W, C, o, s, k, c),
         IsReadable(rd, c), NEW r \in Readers(Parts), r.streams = Read(rd, c).streams,
         r.chunkSize = rd.chunkSize, Complete(r, c),
         NEW msg, msg = Message(r, c), NEW rd2, rd2 = Applied(Taken(r, c), msg)
  PROVE  /\ IsReceived(msg, s[k + 1], rd2) /\ msg \in Messages(Parts)
         /\ rd2.count = r.count /\ rd2.lastAck = r.lastAck
         /\ rd2.chunkSize \in {r.chunkSize, ChunkSize}
         /\ rd2.window = IF msg.type = "SetWindowAckSize" THEN Window ELSE r.window
         /\ \A cs \in ChunkStreams : rd2.streams[cs].body = <<>>
         /\ InStep(W, C, o + 1, rd2, s, k + 1)
<1> DEFINE w == W[k]
<1> DEFINE m == s[k + 1]
<1> DEFINE n == Len(ChunksOf(w, m))
<1> DEFINE a == C[k]
<1> DEFINE b == C[k + 1]
<1> DEFINE j == (o - a) + 1
<1> DEFINE q == Len(s)
<1> DEFINE rd1 == Taken(r, c)
<1>4. IsRead(Parts, w, m, j, rd, Back(s, m.cs), c)
  BY NextIsRead
<1>5. /\ w \in Writers /\ m \in Messages(Parts) /\ k \in 0..q /\ k < q /\ k + 1 \in 1..q
      /\ j \in 1..n /\ c = ChunksOf(w, m)[j] /\ Sound(m)
      /\ o \in Nat /\ a \in Nat /\ b \in Nat /\ a <= o /\ o < b /\ b = a + n
  BY DEF IsNext
<1>6. Back(s, m.cs) \in BOOLEAN
  BY DEF Back
<1>7. /\ Follows(r.streams[m.cs], Written(w, m).streams[m.cs],
                 SubSeq(m.body, 1, Pieces(w, m, j)), Back(s, m.cs))
      /\ \A cs \in ChunkStreams \ {m.cs} : r.streams[cs] = rd.streams[cs]
  BY <1>4 DEF IsRead, IsReadable
<1>8. k \in Int /\ 0 <= k /\ k <= q /\ k < q /\ n \in Nat /\ q \in Nat
      /\ o \in Nat /\ a \in Nat /\ b \in Nat /\ a <= o /\ o < b /\ b = a + n
      /\ j = (o - a) + 1
  <2>1. n \in Nat
    <3> HIDE DEF w, m
    <3> QED
      BY <1>5, ChunksAre
  <2>2. q \in Nat
    BY DEF AllSound
  <2> HIDE DEF n, q, a, b
  <2> QED
    BY <1>5, <2>1, <2>2
<1>9. rd.chunkSize = w.chunkSize
  BY DEF InStep
<1>10. \A cs \in ChunkStreams \ {m.cs} :
         Follows(rd.streams[cs], w.streams[cs], <<>>, Back(s, cs))
  BY DEF InStep
<1>11. /\ j = n /\ msg \in Messages(Parts) /\ msg = [m EXCEPT !.ts = msg.ts]
       /\ msg.ts % TimeMod = m.ts % TimeMod /\ rd1 \in Readers(Parts)
       /\ Follows(rd1.streams[m.cs], Written(w, m).streams[m.cs], <<>>, Back(s, m.cs))
       /\ \A cs \in ChunkStreams \ {m.cs} : rd1.streams[cs] = r.streams[cs]
       /\ rd1 = [r EXCEPT !.streams = rd1.streams]
  <2> HIDE DEF w, m, j
  <2>1. IsTaken(Parts, w, m, j, r, Back(s, m.cs), ChunksOf(w, m)[j])
    BY <1>5, <1>6, <1>7, MessageIsRead
  <2> QED
    BY <1>5, <2>1 DEF IsTaken
<1> HIDE DEF rd1
<1>12. rd1.chunkSize = r.chunkSize /\ rd1.window = r.window
       /\ rd1.count = r.count /\ rd1.lastAck = r.lastAck
  BY <1>11 DEF Readers
<1>13. /\ IsReceived(msg, m, rd2)
       /\ rd2.chunkSize = (IF m.type = "SetChunkSize" THEN ChunkSize ELSE rd1.chunkSize)
       /\ rd2.window = (IF m.type = "SetWindowAckSize" THEN Window ELSE rd1.window)
       /\ rd2.streams = rd1.streams
       /\ rd2.count = rd1.count /\ rd2.lastAck = rd1.lastAck
  <2>1. rd2 = Applied(rd1, msg)
    BY DEF rd1
  <2> HIDE DEF m
  <2>2. Sound(m) /\ msg \in Messages(Parts) /\ msg = [m EXCEPT !.ts = msg.ts]
        /\ msg.ts % TimeMod = m.ts % TimeMod /\ rd1 \in Readers(Parts)
    BY <1>5, <1>11
  <2> QED
    BY <2>1, <2>2, Received
<1>14. msg.type = m.type
  BY <1>13 DEF IsReceived
<1>15. o + 1 = b
  <2> HIDE DEF a, b, n, j, q
  <2> QED
    BY <1>8, <1>11
<1>16. W[k + 1] = AfterWriting(Written(w, m), m)
  <2>1. (k + 1) - 1 = k
    BY <1>8
  <2>2. \A i \in 1..q : W[i] = AfterWriting(Written(W[i - 1], s[i]), s[i])
    BY DEF History
  <2> QED
    BY <1>5, <2>1, <2>2
<1>17. W[k + 1].streams = Written(w, m).streams
       /\ W[k + 1].chunkSize = IF m.type = "SetChunkSize" THEN ChunkSize ELSE w.chunkSize
  <2>1. w \in Writers /\ Sound(m)
    BY <1>5
  <2> HIDE DEF w, m
  <2> QED
    BY <1>16, <2>1, WriterGoesOn
<1>18. k + 1 < q => o + 1 < C[(k + 1) + 1]
  <2> SUFFICES ASSUME k + 1 < q PROVE o + 1 < C[(k + 1) + 1]
    OBVIOUS
  <2> DEFINE i == (k + 1) + 1
  <2> DEFINE l == Len(ChunksOf(W[i - 1], s[i]))
  <2>1. i \in 1..q /\ i - 1 = k + 1 /\ k + 1 \in 0..q
    <3> HIDE DEF q
    <3> QED
      BY <1>8
  <2>2. C[i] = C[i - 1] + l
    BY <2>1 DEF History
  <2>3. W[i - 1] \in Writers /\ s[i] \in Messages(Parts)
    <3>1. W \in [0..q -> Writers]
      BY DEF History
    <3>2. DOMAIN s = 1..q /\ \A x \in DOMAIN s : Sound(s[x])
      BY DEF AllSound
    <3>3. k + 1 \in 0..q /\ i \in DOMAIN s
      BY <2>1, <3>2
    <3>4. W[k + 1] \in Writers
      BY <3>1, <3>3
    <3> HIDE DEF q, i
    <3>5. s[i] \in Messages(Parts)
      BY <3>2, <3>3 DEF Sound
    <3> QED
      BY <2>1, <3>4, <3>5
  <2>4. l \in Nat \ {0}
    BY <2>3, ChunksAre
  <2>5. C[i] = b + l
    BY <2>1, <2>2
  <2> HIDE DEF l, i, b
  <2>6. o + 1 < C[i]
    BY <1>8, <1>15, <2>4, <2>5
  <2> QED
    BY <2>6 DEF i
<1>19. ASSUME NEW cs \in ChunkStreams
       PROVE  Follows(rd2.streams[cs], W[k + 1].streams[cs], <<>>, Back(s, cs))
  <2> HIDE DEF w, m
  <2>1. CASE cs = m.cs
    BY <1>11, <1>13, <1>17, <2>1
  <2>2. CASE cs # m.cs
    <3>1. Written(w, m).streams[cs] = w.streams[cs]
      BY <1>5, <2>2, WrittenOthers
    <3>2. rd2.streams[cs] = rd.streams[cs]
      BY <1>7, <1>11, <1>13, <2>2
    <3> QED
      BY <1>10, <1>17, <2>2, <3>1, <3>2
  <2> QED
    BY <2>1, <2>2
<1>20. rd2.chunkSize = W[k + 1].chunkSize
  BY <1>9, <1>12, <1>13, <1>17
<1>21. rd2 \in Readers(Parts)
  BY <1>13 DEF IsReceived
<1>22. C[k + 1] <= o + 1 /\ ~(o + 1 > C[k + 1]) /\ k + 1 \in 0..q
       /\ (k + 1 = q => o + 1 = C[k + 1])
  <2>1. b <= o + 1 /\ ~(o + 1 > b) /\ k + 1 \in 0..q /\ o + 1 = b
    <3> HIDE DEF a, b, q, n, j
    <3> QED
      BY <1>8, <1>15
  <2> QED
    BY <2>1
<1>23. InStep(W, C, o + 1, rd2, s, k + 1)
  <2> DEFINE kk == k + 1
  <2>1. /\ rd2 \in Readers(Parts) /\ kk \in 0..q /\ C[kk] <= o + 1
        /\ (kk < q => o + 1 < C[kk + 1]) /\ (kk = q => o + 1 = C[kk])
        /\ ~(o + 1 > C[kk]) /\ rd2.chunkSize = W[kk].chunkSize
        /\ \A cs \in ChunkStreams : Follows(rd2.streams[cs], W[kk].streams[cs], <<>>, Back(s, cs))
    BY <1>18, <1>19, <1>20, <1>21, <1>22
  <2> HIDE DEF kk
  <2>2. InStep(W, C, o + 1, rd2, s, kk)
    BY <2>1 DEF InStep
  <2> QED
    BY <2>2 DEF kk
<1>24. \A cs \in ChunkStreams : rd2.streams[cs].body = <<>>
  BY <1>19 DEF Follows
<1>25. rd2.chunkSize \in {r.chunkSize, ChunkSize}
  BY <1>12, <1>13
<1> QED
  BY <1>11, <1>12, <1>13, <1>14, <1>23, <1>24, <1>25

LEMMA LinkReadsLast ==
  ASSUME NEW wi, NEW wr, NEW rd, NEW s, NEW rc, Linked(0, wi, wr, rd, s, rc), wi # <<>>,
         IsReadable(rd, Head(wi)), NEW r \in Readers(Parts),
         r.streams = Read(rd, Head(wi)).streams, r.chunkSize = rd.chunkSize,
         Complete(r, Head(wi)),
         NEW msg, msg = Message(r, Head(wi)),
         NEW rd2, rd2 = Applied(Taken(r, Head(wi)), msg)
  PROVE  /\ IsReceived(msg, s[Len(rc) + 1], rd2)
         /\ rd2.count = r.count /\ rd2.lastAck = r.lastAck
         /\ rd2.chunkSize \in {r.chunkSize, ChunkSize}
         /\ rd2.window = IF msg.type = "SetWindowAckSize" THEN Window ELSE r.window
         /\ \A cs \in ChunkStreams : rd2.streams[cs].body = <<>>
         /\ Linked(0, Tail(wi), wr, rd2, s, Append(rc, msg))
<1>1. PICK W, C, o : /\ History(W, C, s) /\ Remembers(W, s) /\ wr = W[Len(s)]
                     /\ OnWire(W, C, o, 0, wi, s) /\ InStep(W, C, o, rd, s, Len(rc))
  BY DEF Linked
<1> DEFINE k == Len(rc)
<1> DEFINE rc2 == Append(rc, msg)
<1>2. AllSound(s) /\ Arrived(rc, s)
  BY DEF Linked
<1>3. IsNext(W, C, o, s, k, Head(wi))
  BY <1>1, <1>2, LinkNext
<1>4. /\ IsReceived(msg, s[k + 1], rd2) /\ msg \in Messages(Parts)
      /\ rd2.count = r.count /\ rd2.lastAck = r.lastAck
      /\ rd2.chunkSize \in {r.chunkSize, ChunkSize}
      /\ rd2.window = (IF msg.type = "SetWindowAckSize" THEN Window ELSE r.window)
      /\ \A cs \in ChunkStreams : rd2.streams[cs].body = <<>>
      /\ InStep(W, C, o + 1, rd2, s, k + 1)
  <2>1. InStep(W, C, o, rd, s, k)
    BY <1>1
  <2> HIDE DEF k
  <2> QED
    BY <1>1, <1>2, <1>3, <2>1, StepLast
<1>5. rc \in Seq(Messages(Parts)) /\ k \in Nat /\ DOMAIN rc = 1..k
      /\ \A i \in DOMAIN rc : SameMessage(rc[i], s[i])
  <2>1. rc \in Seq(Messages(Parts)) /\ \A i \in DOMAIN rc : SameMessage(rc[i], s[i])
    BY <1>2 DEF Arrived
  <2> QED
    BY <2>1
<1>6. rc2 \in Seq(Messages(Parts)) /\ Len(rc2) = k + 1 /\ rc2[k + 1] = msg
      /\ \A i \in 1..k : rc2[i] = rc[i]
  <2>1. rc \in Seq(Messages(Parts)) /\ msg \in Messages(Parts)
    BY <1>4, <1>5
  <2> QED
    BY <2>1, AppendProperties
<1>7. k + 1 <= Len(s)
  <2>1. k + 1 \in 1..Len(s)
    BY <1>3 DEF IsNext
  <2> HIDE DEF k
  <2> QED
    BY <1>5, <2>1
<1>8. SameMessage(msg, s[k + 1])
  BY <1>4 DEF IsReceived
<1> HIDE DEF rc2, k
<1>9. Arrived(rc2, s)
  <2>1. Len(rc2) <= Len(s)
    BY <1>6, <1>7
  <2>2. ASSUME NEW i \in DOMAIN rc2
        PROVE  SameMessage(rc2[i], s[i])
    <3>0. DOMAIN rc2 = 1..(k + 1) /\ k \in Nat
      BY <1>5, <1>6
    <3>1. i \in 1..k \/ i = k + 1
      BY <3>0
    <3> QED
      BY <1>5, <1>6, <1>8, <3>1
  <2> QED
    BY <1>6, <2>1, <2>2 DEF Arrived
<1>10. OnWire(W, C, o + 1, 0, Tail(wi), s)
  BY <1>1, <1>2, WireShrinks
<1>11. Linked(0, Tail(wi), wr, rd2, s, rc2)
  BY <1>1, <1>2, <1>4, <1>6, <1>9, <1>10 DEF Linked
<1> QED
  BY <1>4, <1>11 DEF k, rc2

-----------------------------------------------------------------------------
(* What a step of a program may be, after the handshake. *)
IsStep(st) ==
  /\ st.do \in {"write", "await", "serve", "detect"}
  /\ st.do = "write" => Sound(st.msg) /\ st.msg.ts = 0
  /\ st.do = "detect" =>
       st = [do |-> "detect", mode |-> st.mode, has |-> st.has, start |-> st.start]

AllSteps(td) == (\E T : td \in Seq(T)) /\ \A i \in DOMAIN td : IsStep(td[i])
-----------------------------------------------------------------------------
(* The messages of this connection are sound. *)
LEMMA MsgIs ==
  ASSUME NEW type \in MessageTypes, NEW cs \in ChunkStreams, NEW ts \in Nat,
         NEW len \in 1..MaxBodySize, NEW what \in Whats, NEW sid \in Nat
  PROVE  LET m == Msg(type, cs, sid, ts, len, what)
         IN  /\ m \in Messages(Parts) /\ What(m) = what /\ m.type = type /\ m.cs = cs
             /\ m.sid = sid /\ m.ts = ts /\ Len(m.body) = len
<1> DEFINE body == [i \in 1..len |-> <<what, i>>]
<1>0. MaxBodySize \in Nat
  BY ChunkAssumption
<1>1. len \in Nat /\ 1 \in 1..len
  BY <1>0
<1>2. body \in Seq(Parts) /\ Len(body) = len
  <2>1. \A i \in 1..len : <<what, i>> \in Parts
    BY <1>1 DEF Parts
  <2> QED
    BY <1>1, <2>1
<1>3. body[1][1] = what
  BY <1>1
<1> HIDE DEF body
<1>4. Msg(type, cs, sid, ts, len, what) =
        [type |-> type, cs |-> cs, sid |-> sid, ts |-> ts, body |-> body]
  BY DEF Msg, body
<1> QED
  BY <1>2, <1>3, <1>4 DEF Messages, What

LEMMA Streams ==
  /\ \A cs \in 2..6 : cs \in ChunkStreams
  /\ AudioStream = 4 /\ VideoStream = 6 /\ ControlStream = 2
  /\ SidOf(2) = 0 /\ SidOf(3) = 0 /\ SidOf(4) = 1 /\ SidOf(5) = 1 /\ SidOf(6) = 1
  BY LinkAssumption DEF AudioStream, VideoStream, ControlStream, SidOf

LEMMA TypesAre ==
  {"SetChunkSize", "Acknowledge", "SetWindowAckSize", "SetPeerBandwidth", "UserControl",
   "command", "data", "audio", "video"} \subseteq MessageTypes
  BY DEF MessageTypes

LEMMA SettingsAreSound ==
  /\ Sound(SetChunkSize) /\ SetChunkSize.ts = 0 /\ SetChunkSize.type = "SetChunkSize"
  /\ Sound(SetWindowAckSize) /\ SetWindowAckSize.ts = 0
  /\ SetWindowAckSize.type = "SetWindowAckSize" /\ Len(SetWindowAckSize.body) = 1
  /\ Sound(SetPeerBandwidth) /\ SetPeerBandwidth.ts = 0
  /\ SetPeerBandwidth.type = "SetPeerBandwidth"
<1>1. /\ 1 \in 1..MaxBodySize /\ 2 \in ChunkStreams /\ ControlStream = 2 /\ SidOf(2) = 0
      /\ ChunkSize \in Int /\ Window \in Int
  BY Streams, ChunkAssumption, LinkAssumption
<1>2. <<"size", ChunkSize>> \in Whats /\ <<"window", Window>> \in Whats
      /\ <<"bandwidth">> \in Whats
  BY <1>1 DEF Whats, Names
<1>3. Sound(SetChunkSize) /\ SetChunkSize.ts = 0 /\ SetChunkSize.type = "SetChunkSize"
  <2> DEFINE m == SetChunkSize
  <2>1. /\ m \in Messages(Parts) /\ What(m) = <<"size", ChunkSize>>
        /\ m.type = "SetChunkSize" /\ m.cs = 2 /\ m.sid = 0 /\ m.ts = 0
    BY <1>1, <1>2, MsgIs, TypesAre DEF SetChunkSize
  <2> HIDE DEF m
  <2>2. Sound(m)
    BY <1>1, <2>1 DEF Sound
  <2> QED
    BY <2>1, <2>2 DEF m
<1>4. Sound(SetWindowAckSize) /\ SetWindowAckSize.ts = 0
      /\ SetWindowAckSize.type = "SetWindowAckSize" /\ Len(SetWindowAckSize.body) = 1
  <2> DEFINE m == SetWindowAckSize
  <2>1. /\ m \in Messages(Parts) /\ What(m) = <<"window", Window>>
        /\ m.type = "SetWindowAckSize" /\ m.cs = 2 /\ m.sid = 0 /\ m.ts = 0
        /\ Len(m.body) = 1
    <3> DEFINE what == <<"window", Window>>
    <3>1. m = Msg("SetWindowAckSize", 2, 0, 0, 1, what) /\ what \in Whats
      BY <1>1, <1>2 DEF SetWindowAckSize
    <3> HIDE DEF what, m
    <3>2. /\ m \in Messages(Parts) /\ What(m) = what
          /\ m.type = "SetWindowAckSize" /\ m.cs = 2 /\ m.sid = 0 /\ m.ts = 0
      BY SMTT(30), <1>1, <3>1, MsgIs, TypesAre
    <3>3. Len(m.body) = 1
      BY <3>1, \A n \in Nat : Len([i \in 1..n |-> <<what, i>>]) = n DEF Msg
    <3> QED
      BY <3>2, <3>3 DEF what
  <2> HIDE DEF m
  <2>2. Sound(m)
    BY <1>1, <2>1 DEF Sound
  <2> QED
    BY <2>1, <2>2 DEF m
<1>5. Sound(SetPeerBandwidth) /\ SetPeerBandwidth.ts = 0
      /\ SetPeerBandwidth.type = "SetPeerBandwidth"
  <2> DEFINE m == SetPeerBandwidth
  <2>1. /\ m \in Messages(Parts) /\ What(m) = <<"bandwidth">>
        /\ m.type = "SetPeerBandwidth" /\ m.cs = 2 /\ m.sid = 0 /\ m.ts = 0
    BY <1>1, <1>2, MsgIs, TypesAre DEF SetPeerBandwidth
  <2> HIDE DEF m
  <2>2. Sound(m)
    BY <1>1, <2>1 DEF Sound
  <2> QED
    BY <2>1, <2>2 DEF m
<1> QED
  BY <1>3, <1>4, <1>5

LEMMA AcknowledgeIsSound ==
  ASSUME NEW n \in Int
  PROVE  /\ Sound(Acknowledge(n)) /\ Acknowledge(n).ts = 0
         /\ Acknowledge(n).type = "Acknowledge" /\ What(Acknowledge(n)) = <<"bytes", n>>
<1> DEFINE m == Acknowledge(n)
<1>1. /\ 1 \in 1..MaxBodySize /\ 2 \in ChunkStreams /\ ControlStream = 2 /\ SidOf(2) = 0
  BY Streams, ChunkAssumption, LinkAssumption
<1>2. <<"bytes", n>> \in Whats
  BY DEF Whats, Names
<1>3. /\ m \in Messages(Parts) /\ What(m) = <<"bytes", n>>
      /\ m.type = "Acknowledge" /\ m.cs = 2 /\ m.sid = 0 /\ m.ts = 0
  BY <1>1, <1>2, MsgIs, TypesAre DEF Acknowledge
<1> HIDE DEF m
<1>4. Sound(m)
  BY <1>1, <1>3 DEF Sound
<1> QED
  BY <1>3, <1>4 DEF m

LEMMA UserControlIsSound ==
  ASSUME NEW c \in {"SetBufferLength", "StreamIsRecorded", "StreamBegin"}
  PROVE  /\ Sound(UserControl(c)) /\ UserControl(c).ts = 0
         /\ UserControl(c).type = "UserControl"
<1> DEFINE m == UserControl(c)
<1>1. /\ 1 \in 1..MaxBodySize /\ 2 \in ChunkStreams /\ ControlStream = 2 /\ SidOf(2) = 0
  BY Streams, ChunkAssumption, LinkAssumption
<1>2. <<c>> \in Whats
  BY DEF Whats, Names
<1>3. /\ m \in Messages(Parts)
      /\ m.type = "UserControl" /\ m.cs = 2 /\ m.sid = 0 /\ m.ts = 0
  BY <1>1, <1>2, MsgIs, TypesAre DEF UserControl
<1> HIDE DEF m
<1>4. Sound(m)
  BY <1>1, <1>3 DEF Sound
<1> QED
  BY <1>3, <1>4 DEF m

LEMMA CommandIsSound ==
  ASSUME NEW cs \in 3..5, NEW name \in Names, NEW id \in Int,
         name \in {"connect", "createStream"} => cs = 3
  PROVE  /\ Sound(Command(cs, SidOf(cs), name, id))
         /\ Command(cs, SidOf(cs), name, id).ts = 0
         /\ Command(cs, SidOf(cs), name, id).type = "command"
         /\ What(Command(cs, SidOf(cs), name, id)) = <<name, id>>
<1> DEFINE m == Command(cs, SidOf(cs), name, id)
<1> DEFINE len == IF <<name, id>> \in {<<"connect", 1>>, <<"_result", 1>>} THEN 2 ELSE 1
<1>1. len \in 1..MaxBodySize /\ cs \in ChunkStreams /\ SidOf(cs) \in Nat
  BY Streams, ChunkAssumption, LinkAssumption DEF SidOf
<1>2. <<name, id>> \in Whats
  BY DEF Whats
<1> HIDE DEF len
<1>3. m = Msg("command", cs, SidOf(cs), 0, len, <<name, id>>)
  BY DEF Command, len
<1>4. /\ m \in Messages(Parts) /\ What(m) = <<name, id>>
      /\ m.type = "command" /\ m.cs = cs /\ m.sid = SidOf(cs) /\ m.ts = 0
  BY SMTT(30), <1>1, <1>2, <1>3, MsgIs, TypesAre
<1> HIDE DEF m
<1>5. Sound(m)
  BY <1>1, <1>4 DEF Sound
<1> QED
  BY <1>4, <1>5 DEF m

LEMMA MediaAreSound ==
  /\ \A ts \in SUBSET {"audio", "video"} :
       Sound(Metadata(ts)) /\ Metadata(ts).ts = 0 /\ Metadata(ts).type = "data"
       /\ What(Metadata(ts)) = <<"onMetaData", ts>>
  /\ \A t \in {"audio", "video"} :
       Sound(Config(t)) /\ Config(t).ts = 0 /\ Config(t).type = t
       /\ What(Config(t)) = <<"config">>
  /\ \A t \in {"audio", "video"}, ts \in Nat, len \in 1..MaxBodySize :
       Sound(Unit(t, ts, len)) /\ Unit(t, ts, len).cs \in {AudioStream, VideoStream}
       /\ Unit(t, ts, len).type = t
<1>1. /\ 1 \in 1..MaxBodySize /\ 4 \in ChunkStreams /\ 6 \in ChunkStreams
      /\ AudioStream = 4 /\ VideoStream = 6 /\ SidOf(4) = 1 /\ SidOf(6) = 1
  BY Streams, ChunkAssumption, LinkAssumption
<1>2. ASSUME NEW ts \in SUBSET {"audio", "video"}
      PROVE  Sound(Metadata(ts)) /\ Metadata(ts).ts = 0 /\ Metadata(ts).type = "data"
             /\ What(Metadata(ts)) = <<"onMetaData", ts>>
  <2> DEFINE m == Metadata(ts)
  <2>1. <<"onMetaData", ts>> \in Whats
    BY DEF Whats, Names
  <2>2. /\ m \in Messages(Parts) /\ What(m) = <<"onMetaData", ts>>
        /\ m.type = "data" /\ m.cs = 4 /\ m.sid = 1 /\ m.ts = 0
    <3> DEFINE what == <<"onMetaData", ts>>
    <3>1. m = Msg("data", 4, 1, 0, 1, what) /\ what \in Whats
      BY <1>1, <2>1 DEF Metadata
    <3> HIDE DEF what, m
    <3>2. /\ m \in Messages(Parts) /\ What(m) = what
          /\ m.type = "data" /\ m.cs = 4 /\ m.sid = 1 /\ m.ts = 0
      BY SMTT(30), <1>1, <3>1, MsgIs, TypesAre
    <3> QED
      BY <3>2 DEF what
  <2> HIDE DEF m
  <2>3. Sound(m)
    BY <1>1, <2>2 DEF Sound
  <2> QED
    BY <2>2, <2>3 DEF m
<1>3. ASSUME NEW t \in {"audio", "video"}, NEW ts \in Nat, NEW len \in 1..MaxBodySize,
             NEW what \in {<<"config">>, <<"unit">>}
      PROVE  LET m == Msg(t, StreamOf(t), 1, ts, len, what)
             IN  Sound(m) /\ m.cs \in {AudioStream, VideoStream} /\ m.type = t /\ m.ts = ts
                 /\ What(m) = what
  <2> DEFINE m == Msg(t, StreamOf(t), 1, ts, len, what)
  <2>1. what \in Whats
    BY DEF Whats, Names
  <2>2. StreamOf(t) \in {4, 6} /\ SidOf(StreamOf(t)) = 1 /\ StreamOf(t) \in ChunkStreams
    BY <1>1 DEF StreamOf
  <2>3. /\ m \in Messages(Parts) /\ What(m) = what
        /\ m.type = t /\ m.cs = StreamOf(t) /\ m.sid = 1 /\ m.ts = ts
    <3> DEFINE cs == StreamOf(t)
    <3>1. t \in MessageTypes /\ cs \in ChunkStreams
      BY <2>2, TypesAre
    <3> HIDE DEF cs
    <3> QED
      BY <2>1, <3>1, MsgIs DEF cs
  <2> HIDE DEF m
  <2>4. Sound(m)
    BY <1>1, <2>2, <2>3 DEF Sound
  <2> QED
    BY <1>1, <2>2, <2>3, <2>4 DEF m
<1>4. ASSUME NEW t \in {"audio", "video"}
      PROVE  Sound(Config(t)) /\ Config(t).ts = 0 /\ Config(t).type = t
             /\ What(Config(t)) = <<"config">>
  BY <1>1, <1>3 DEF Config
<1>5. ASSUME NEW t \in {"audio", "video"}, NEW ts \in Nat, NEW len \in 1..MaxBodySize
      PROVE  Sound(Unit(t, ts, len)) /\ Unit(t, ts, len).cs \in {AudioStream, VideoStream}
             /\ Unit(t, ts, len).type = t
  BY <1>3 DEF Unit
<1> QED
  BY <1>2, <1>4, <1>5

-----------------------------------------------------------------------------
(* Programs. *)
LEMMA WriteIsStep ==
  ASSUME NEW m, Sound(m), m.ts = 0
  PROVE  IsStep(Write(m)) /\ Write(m).do = "write" /\ Write(m).msg = m
  BY DEF IsStep, Write

LEMMA OthersAreSteps ==
  /\ IsStep(Serve) /\ IsStep(Detect)
  /\ \A name, id : IsStep(Await(name, id))
  BY DEF IsStep, Serve, Detect, Await

LEMMA StepsJoin ==
  ASSUME NEW a, NEW b, AllSteps(a), AllSteps(b)
  PROVE  AllSteps(a \o b)
<1>1. PICK S : a \in Seq(S)
  BY DEF AllSteps
<1>2. PICK T : b \in Seq(T)
  BY DEF AllSteps
<1>3. a \in Seq(S \cup T) /\ b \in Seq(S \cup T)
  BY <1>1, <1>2
<1>4. /\ a \o b \in Seq(S \cup T) /\ Len(a \o b) = Len(a) + Len(b)
      /\ \A i \in 1..(Len(a) + Len(b)) :
           (a \o b)[i] = IF i <= Len(a) THEN a[i] ELSE b[i - Len(a)]
  BY <1>3, ConcatProperties
<1> DEFINE c == a \o b
<1> DEFINE x == Len(a)
<1> DEFINE y == Len(b)
<1>5. x \in Nat /\ y \in Nat /\ DOMAIN a = 1..x /\ DOMAIN b = 1..y /\ DOMAIN c = 1..(x + y)
  BY <1>1, <1>2, <1>4
<1>6. \A i \in 1..(x + y) : c[i] = IF i <= x THEN a[i] ELSE b[i - x]
  BY <1>4
<1> HIDE DEF c, x, y
<1>7. ASSUME NEW i \in 1..(x + y)
      PROVE  IsStep(c[i])
  <2>1. CASE i <= x
    <3>1. i \in DOMAIN a
      BY <1>5, <2>1
    <3> QED
      BY <1>6, <2>1, <3>1 DEF AllSteps
  <2>2. CASE ~(i <= x)
    <3>1. i - x \in DOMAIN b
      BY <1>5, <2>2
    <3>2. c[i] = b[i - x]
      BY <1>6, <2>2
    <3> QED
      BY <3>1, <3>2 DEF AllSteps
  <2> QED
    BY <2>1, <2>2
<1>8. AllSteps(c)
  BY <1>4, <1>5, <1>7 DEF AllSteps, c
<1> QED
  BY <1>8 DEF c

LEMMA StepsAre ==
  /\ AllSteps(<<>>)
  /\ \A a : IsStep(a) => AllSteps(<<a>>)
  /\ \A a, b : IsStep(a) /\ IsStep(b) => AllSteps(<<a, b>>)
  /\ \A a, b, c : IsStep(a) /\ IsStep(b) /\ IsStep(c) => AllSteps(<<a, b, c>>)
<1>1. AllSteps(<<>>)
  BY DEF AllSteps
<1>2. ASSUME NEW a, IsStep(a)
      PROVE  AllSteps(<<a>>)
  <2> DEFINE td == <<a>>
  <2>1. td \in Seq({a}) /\ DOMAIN td = 1..1 /\ td[1] = a
    OBVIOUS
  <2> HIDE DEF td
  <2>2. \A i \in DOMAIN td : IsStep(td[i])
    BY <1>2, <2>1
  <2>3. AllSteps(td)
    BY <2>1, <2>2 DEF AllSteps
  <2> QED
    BY <2>3 DEF td
<1>3. ASSUME NEW a, NEW b, IsStep(a), IsStep(b)
      PROVE  AllSteps(<<a, b>>)
  <2> DEFINE td == <<a, b>>
  <2>1. td \in Seq({a, b}) /\ DOMAIN td = 1..2 /\ td[1] = a /\ td[2] = b
    OBVIOUS
  <2> HIDE DEF td
  <2>2. \A i \in DOMAIN td : IsStep(td[i])
    BY <1>3, <2>1
  <2>3. AllSteps(td)
    BY <2>1, <2>2 DEF AllSteps
  <2> QED
    BY <2>3 DEF td
<1>4. ASSUME NEW a, NEW b, NEW c, IsStep(a), IsStep(b), IsStep(c)
      PROVE  AllSteps(<<a, b, c>>)
  <2> DEFINE td == <<a, b, c>>
  <2>1. td \in Seq({a, b, c}) /\ DOMAIN td = 1..3
        /\ td[1] = a /\ td[2] = b /\ td[3] = c
    OBVIOUS
  <2> HIDE DEF td
  <2>2. \A i \in DOMAIN td : IsStep(td[i])
    BY <1>4, <2>1
  <2>3. AllSteps(td)
    BY <2>1, <2>2 DEF AllSteps
  <2> QED
    BY <2>3 DEF td
<1> QED
  BY <1>1, <1>2, <1>3, <1>4

LEMMA SettingsAreSteps ==
  AllSteps(Settings)
<1>1. /\ IsStep(Write(SetWindowAckSize)) /\ IsStep(Write(SetPeerBandwidth))
      /\ IsStep(Write(SetChunkSize))
  BY SettingsAreSound, WriteIsStep
<1> QED
  BY <1>1, StepsAre DEF Settings

LEMMA CommandIsStep ==
  ASSUME NEW cs \in 3..5, NEW name \in Names, NEW id \in Int,
         name \in {"connect", "createStream"} => cs = 3, NEW sid, sid = SidOf(cs)
  PROVE  IsStep(Write(Command(cs, sid, name, id)))
  BY CommandIsSound, WriteIsStep

LEMMA TracksAreSteps ==
  ASSUME tracks \in SUBSET {"audio", "video"}, announced \in SUBSET {"audio", "video"}
  PROVE  AllSteps(Tracks)
<1> DEFINE a == IF announced # {} THEN <<Write(Metadata(announced))>> ELSE <<>>
<1> DEFINE b == IF "video" \in tracks /\ ~late THEN <<Write(Config("video"))>> ELSE <<>>
<1> DEFINE c == IF "audio" \in tracks THEN <<Write(Config("audio"))>> ELSE <<>>
<1>1. /\ IsStep(Write(Metadata(announced))) /\ IsStep(Write(Config("video")))
      /\ IsStep(Write(Config("audio")))
  BY MediaAreSound, WriteIsStep
<1>2. AllSteps(a) /\ AllSteps(b) /\ AllSteps(c)
  BY <1>1, StepsAre
<1> HIDE DEF a, b, c
<1>3. AllSteps((a \o b) \o c)
  BY <1>2, StepsJoin
<1>4. Tracks = (a \o b) \o c
  BY DEF Tracks, a, b, c
<1> QED
  BY <1>3, <1>4

LEMMA ServedAreSteps ==
  ASSUME tracks \in SUBSET {"audio", "video"}, announced \in SUBSET {"audio", "video"},
         NEW m, Sound(m), m.type = "command"
  PROVE  AllSteps(Served(m))
<1>1. /\ What(m)[1] \in Names /\ What(m)[2] \in Int
      /\ What(m)[1] \in {"connect", "createStream"} => m.cs = 3
  BY DEF Sound
<1> DEFINE id == What(m)[2]
<1>2. "_result" \in Names /\ "onStatus" \in Names
  BY DEF Names
<1> HIDE DEF id
<1>3. id \in Int
  BY <1>1 DEF id
<1>4. CASE What(m)[1] = "connect"
  <2>1. IsStep(Write(Command(3, 0, "_result", id)))
    BY <1>2, <1>3, CommandIsStep, Streams
  <2>2. AllSteps(<<Write(Command(3, 0, "_result", id)), Serve>>)
    BY <2>1, OthersAreSteps, StepsAre
  <2>3. Served(m) = Settings \o <<Write(Command(3, 0, "_result", id)), Serve>>
    BY <1>1, <1>4 DEF Served, OnConnect, id
  <2> QED
    BY <2>2, <2>3, SettingsAreSteps, StepsJoin
<1>5. CASE What(m)[1] = "createStream"
  <2>1. IsStep(Write(Command(3, 0, "_result", id)))
    BY <1>2, <1>3, CommandIsStep, Streams
  <2>2. Served(m) = <<Write(Command(3, 0, "_result", id)), Serve>>
    BY <1>1, <1>5 DEF Served, OnCreateStream, id
  <2> QED
    BY <2>1, <2>2, OthersAreSteps, StepsAre
<1>6. IsStep(Write(Command(5, 1, "onStatus", id)))
  BY <1>2, <1>3, CommandIsStep, Streams
<1>7. CASE What(m)[1] = "play"
  <2> DEFINE a == <<Write(UserControl("StreamIsRecorded")), Write(UserControl("StreamBegin"))>>
  <2> DEFINE st == Write(Command(5, 1, "onStatus", id))
  <2> DEFINE b == [i \in 1..4 |-> st]
  <2>1. AllSteps(a)
    <3>1. IsStep(Write(UserControl("StreamIsRecorded")))
          /\ IsStep(Write(UserControl("StreamBegin")))
      BY UserControlIsSound, WriteIsStep
    <3> QED
      BY <3>1, StepsAre
  <2>2. AllSteps(b)
    <3>1. IsStep(st)
      BY <1>6
    <3> HIDE DEF st
    <3>2. b \in Seq({st}) /\ \A i \in DOMAIN b : b[i] = st
      OBVIOUS
    <3> QED
      BY <3>1, <3>2 DEF AllSteps
  <2>3. Served(m) = (a \o b) \o Tracks
    BY <1>7 DEF Served, OnPlay, id
  <2> HIDE DEF a, b
  <2>4. AllSteps(a \o b)
    BY <2>1, <2>2, StepsJoin
  <2> QED
    BY <2>3, <2>4, TracksAreSteps, StepsJoin
<1>8. CASE What(m)[1] = "publish"
  <2>1. Served(m) = <<Write(Command(5, 1, "onStatus", id)), Detect>>
    BY <1>8 DEF Served, OnPublish, id
  <2> QED
    BY <1>6, <2>1, OthersAreSteps, StepsAre
<1>9. CASE What(m)[1] \notin {"connect", "createStream", "play", "publish"}
  <2>1. Served(m) = <<Serve>>
    BY <1>9 DEF Served
  <2> QED
    BY <2>1, OthersAreSteps, StepsAre
<1> QED
  BY <1>4, <1>5, <1>7, <1>8, <1>9

LEMMA StepsTail ==
  ASSUME NEW td, AllSteps(td), td # <<>>
  PROVE  IsStep(Head(td)) /\ AllSteps(Tail(td))
<1>1. PICK T : td \in Seq(T)
  BY DEF AllSteps
<1>2. /\ Len(td) \in Nat /\ Len(td) > 0 /\ Head(td) = td[1] /\ 1 \in DOMAIN td
      /\ Tail(td) \in Seq(T) /\ DOMAIN Tail(td) = 1..(Len(td) - 1) /\ DOMAIN td = 1..Len(td)
      /\ \A i \in 1..(Len(td) - 1) : Tail(td)[i] = td[i + 1]
  BY <1>1, HeadTailProperties
<1>3. \A i \in 1..(Len(td) - 1) : i + 1 \in DOMAIN td
  BY <1>2
<1> QED
  BY <1>2, <1>3 DEF AllSteps

(* What end e has still to do when h steps of the handshake are done. *)
HandshakeDo(e, i) ==
  IF i \in (IF e = "client" THEN {1, 2, 6} ELSE {3, 4, 5}) THEN "put" ELSE "get"

Program(e, h, td) ==
  /\ \E T : td \in Seq(T)
  /\ h \in 0..6 /\ Len(td) >= 6 - h
  /\ \A i \in DOMAIN td :
       IF i <= 6 - h THEN td[i].do = HandshakeDo(e, h + i) ELSE IsStep(td[i])

(* The parts it has written and read. *)
Puts(e, h) ==
  CASE e = "client" /\ h <= 2 -> h
    [] e = "client" /\ h > 2  -> IF h = 6 THEN 3 ELSE 2
    [] e # "client" /\ h <= 2 -> 0
    [] e # "client" /\ h > 2  -> IF h = 6 THEN 3 ELSE h - 2

Gets(e, h) == h - Puts(e, h)

LEMMA HandshakeCounts ==
  ASSUME NEW e \in Ends
  PROVE  /\ \A h \in 0..6 : Puts(e, h) \in 0..3 /\ Gets(e, h) \in 0..3
         /\ Puts(e, 0) = 0 /\ Gets(e, 0) = 0 /\ Puts(e, 6) = 3 /\ Gets(e, 6) = 3
         /\ \A h \in 0..5 : HandshakeDo(e, h + 1) = "put" =>
              Puts(e, h + 1) = Puts(e, h) + 1 /\ Gets(e, h + 1) = Gets(e, h)
         /\ \A h \in 0..5 : HandshakeDo(e, h + 1) = "get" =>
              Puts(e, h + 1) = Puts(e, h) /\ Gets(e, h + 1) = Gets(e, h) + 1
                /\ Gets(e, h) < 3
         /\ \A i \in 1..6 : HandshakeDo(e, i) \in {"put", "get"}
<1>1. CASE e = "client"
  <2>1. \A h \in 0..6 : Puts(e, h) = IF h <= 2 THEN h ELSE IF h = 6 THEN 3 ELSE 2
    BY <1>1 DEF Puts
  <2>2. \A i \in 1..6 : HandshakeDo(e, i) = IF i \in {1, 2, 6} THEN "put" ELSE "get"
    BY <1>1 DEF HandshakeDo
  <2>3. \A h \in 0..5 : h + 1 \in 1..6 /\ h + 1 \in 0..6 /\ h \in 0..6
    OBVIOUS
  <2> QED
    BY <2>1, <2>2, <2>3 DEF Gets
<1>2. CASE e # "client"
  <2>1. \A h \in 0..6 : Puts(e, h) = IF h <= 2 THEN 0 ELSE IF h = 6 THEN 3 ELSE h - 2
    BY <1>2 DEF Puts
  <2>2. \A i \in 1..6 : HandshakeDo(e, i) = IF i \in {3, 4, 5} THEN "put" ELSE "get"
    BY <1>2 DEF HandshakeDo
  <2>3. \A h \in 0..5 : h + 1 \in 1..6 /\ h + 1 \in 0..6 /\ h \in 0..6
    OBVIOUS
  <2> QED
    BY <2>1, <2>2, <2>3 DEF Gets
<1> QED
  BY <1>1, <1>2

LEMMA ProgramGoesOn ==
  ASSUME NEW e \in Ends, NEW h \in 0..5, NEW td, Program(e, h, td)
  PROVE  td # <<>> /\ Head(td).do = HandshakeDo(e, h + 1) /\ Program(e, h + 1, Tail(td))
<1>1. PICK T : td \in Seq(T)
  BY DEF Program
<1> DEFINE q == Len(td)
<1> DEFINE tl == Tail(td)
<1>2. q \in Nat /\ q >= 6 - h /\ DOMAIN td = 1..q
      /\ \A i \in 1..q : IF i <= 6 - h THEN td[i].do = HandshakeDo(e, h + i) ELSE IsStep(td[i])
  BY <1>1 DEF Program
<1>3. td # <<>> /\ Head(td) = td[1] /\ tl \in Seq(T) /\ Len(tl) = q - 1
      /\ DOMAIN tl = 1..(q - 1)
      /\ \A i \in 1..(q - 1) : tl[i] = td[i + 1]
  <2>1. td # <<>>
    BY <1>2
  <2> QED
    BY <1>1, <1>2, <2>1, HeadTailProperties
<1> HIDE DEF q, tl
<1>4. td[1].do = HandshakeDo(e, h + 1)
  BY <1>2
<1>5. ASSUME NEW i \in 1..(q - 1)
      PROVE  IF i <= 6 - (h + 1) THEN tl[i].do = HandshakeDo(e, (h + 1) + i)
             ELSE IsStep(tl[i])
  <2>1. i + 1 \in 1..q /\ h + (i + 1) = (h + 1) + i /\ (i + 1 <= 6 - h <=> i <= 6 - (h + 1))
    BY <1>2
  <2> QED
    BY <1>2, <1>3, <2>1
<1>6. h + 1 \in 0..6 /\ q - 1 >= 6 - (h + 1)
  BY <1>2
<1>7. Program(e, h + 1, tl)
  BY <1>3, <1>5, <1>6 DEF Program
<1> QED
  BY <1>3, <1>4, <1>7 DEF tl

LEMMA ProgramIsSteps ==
  ASSUME NEW e \in Ends, NEW td
  PROVE  /\ Program(e, 6, td) <=> AllSteps(td)
         /\ \A h \in 0..6 :
              Program(e, h, td) /\ (td = <<>> \/ Head(td).do \notin {"put", "get"}) => h = 6
<1>1. ASSUME Program(e, 6, td)
      PROVE  AllSteps(td)
  <2>1. PICK T : td \in Seq(T)
    BY <1>1 DEF Program
  <2>2. \A i \in DOMAIN td : i \in Nat /\ ~(i <= 6 - 6)
    BY <2>1
  <2> QED
    BY <1>1, <2>1, <2>2 DEF Program, AllSteps
<1>2. ASSUME AllSteps(td)
      PROVE  Program(e, 6, td)
  <2>1. PICK T : td \in Seq(T)
    BY <1>2 DEF AllSteps
  <2>2. \A i \in DOMAIN td : i \in Nat /\ ~(i <= 6 - 6)
    BY <2>1
  <2>3. Len(td) >= 6 - 6 /\ 6 \in 0..6
    BY <2>1
  <2> QED
    BY <1>2, <2>1, <2>2, <2>3 DEF Program, AllSteps
<1>3. ASSUME NEW h \in 0..6, Program(e, h, td), h # 6
      PROVE  td # <<>> /\ Head(td).do \in {"put", "get"}
  <2>1. h \in 0..5 /\ h + 1 \in 1..6
    BY <1>3
  <2>2. td # <<>> /\ Head(td).do = HandshakeDo(e, h + 1)
    BY <1>3, <2>1, ProgramGoesOn
  <2> QED
    BY <2>1, <2>2, HandshakeCounts
<1> QED
  BY <1>1, <1>2, <1>3

LEMMA ProgramJoins ==
  ASSUME NEW e \in Ends, NEW hs, Program(e, 0, hs), NEW st, AllSteps(st)
  PROVE  Program(e, 0, hs \o st)
<1>1. PICK S : st \in Seq(S)
  BY DEF AllSteps
<1>2. PICK T : hs \in Seq(T)
  BY DEF Program
<1> DEFINE td == hs \o st
<1> DEFINE q == Len(st)
<1> DEFINE p == Len(hs)
<1>3. hs \in Seq(T \cup S) /\ st \in Seq(T \cup S)
  BY <1>1, <1>2
<1>4. td \in Seq(T \cup S) /\ Len(td) = p + q
      /\ \A i \in 1..(p + q) : td[i] = IF i <= p THEN hs[i] ELSE st[i - p]
  BY <1>3, ConcatProperties
<1>5. p \in Nat /\ q \in Nat /\ DOMAIN hs = 1..p /\ DOMAIN st = 1..q /\ p >= 6
      /\ DOMAIN td = 1..(p + q)
  <2>1. p \in Nat /\ q \in Nat /\ DOMAIN hs = 1..p /\ DOMAIN st = 1..q
    BY <1>1, <1>2
  <2>2. p >= 6 - 0
    BY DEF Program
  <2>3. DOMAIN td = 1..(p + q)
    BY <1>4
  <2> HIDE DEF p, q, td
  <2> QED
    BY <2>1, <2>2, <2>3
<1> HIDE DEF td, p, q
<1>6. ASSUME NEW i \in 1..(p + q)
      PROVE  IF i <= 6 - 0 THEN td[i].do = HandshakeDo(e, 0 + i) ELSE IsStep(td[i])
  <2>1. CASE i <= p
    <3>1. i \in DOMAIN hs /\ td[i] = hs[i]
      BY <1>4, <1>5, <2>1
    <3> QED
      BY <3>1 DEF Program
  <2>2. CASE ~(i <= p)
    <3>1. i - p \in DOMAIN st /\ ~(i <= 6 - 0)
      BY <1>5, <2>2
    <3>2. td[i] = st[i - p]
      BY <1>4, <2>2
    <3> QED
      BY <3>1, <3>2 DEF AllSteps
  <2> QED
    BY <2>1, <2>2
<1>7. Program(e, 0, td)
  BY <1>4, <1>5, <1>6 DEF Program
<1> QED
  BY <1>7 DEF td

LEMMA Handshakes ==
  Program("client", 0, ClientHandshake) /\ Program("server", 0, ServerHandshake)
<1>1. ASSUME NEW e, NEW a, NEW b, NEW c, NEW d, NEW f, NEW g, <<a.do, b.do, c.do, d.do, f.do, g.do>> =
               <<HandshakeDo(e, 1), HandshakeDo(e, 2), HandshakeDo(e, 3), HandshakeDo(e, 4),
                 HandshakeDo(e, 5), HandshakeDo(e, 6)>>
      PROVE  Program(e, 0, <<a, b, c, d, f, g>>)
  <2> DEFINE td == <<a, b, c, d, f, g>>
  <2>1. td \in Seq({a, b, c, d, f, g}) /\ Len(td) = 6 /\ DOMAIN td = 1..6
    OBVIOUS
  <2>2. td[1] = a /\ td[2] = b /\ td[3] = c /\ td[4] = d /\ td[5] = f /\ td[6] = g
    OBVIOUS
  <2>3. \A i \in 1..6 : i \in {1, 2, 3, 4, 5, 6} /\ i <= 6 - 0 /\ 0 + i = i
    OBVIOUS
  <2>4. /\ a.do = HandshakeDo(e, 1) /\ b.do = HandshakeDo(e, 2) /\ c.do = HandshakeDo(e, 3)
        /\ d.do = HandshakeDo(e, 4) /\ f.do = HandshakeDo(e, 5) /\ g.do = HandshakeDo(e, 6)
    BY <1>1
  <2> HIDE DEF td
  <2>5. ASSUME NEW i \in 1..6
        PROVE  td[i].do = HandshakeDo(e, i)
    BY <2>2, <2>3, <2>4
  <2>6. Program(e, 0, td)
    BY <2>1, <2>3, <2>5 DEF Program
  <2> QED
    BY <2>6 DEF td
<1>2. /\ \A p : Put(p).do = "put" /\ Get(p).do = "get"
      /\ \A i \in {1, 2, 6} : HandshakeDo("client", i) = "put" /\ HandshakeDo("server", i) = "get"
      /\ \A i \in {3, 4, 5} : HandshakeDo("client", i) = "get" /\ HandshakeDo("server", i) = "put"
  BY DEF Put, Get, HandshakeDo
<1>3. Program("client", 0, ClientHandshake)
  <2>1. <<Put("C0").do, Put("C1").do, Get("S0").do, Get("S1").do, Get("S2").do, Put("C2").do>> =
          <<HandshakeDo("client", 1), HandshakeDo("client", 2), HandshakeDo("client", 3),
            HandshakeDo("client", 4), HandshakeDo("client", 5), HandshakeDo("client", 6)>>
    BY <1>2
  <2> QED
    BY <1>1, <2>1 DEF ClientHandshake
<1>4. Program("server", 0, ServerHandshake)
  <2>1. <<Get("C0").do, Get("C1").do, Put("S0").do, Put("S1").do, Put("S2").do, Get("C2").do>> =
          <<HandshakeDo("server", 1), HandshakeDo("server", 2), HandshakeDo("server", 3),
            HandshakeDo("server", 4), HandshakeDo("server", 5), HandshakeDo("server", 6)>>
    BY <1>2
  <2> QED
    BY <1>1, <2>1 DEF ServerHandshake
<1> QED
  BY <1>3, <1>4

-----------------------------------------------------------------------------
(* The invariant. While no end has refused anything, both follow their programs from
   some step of the handshake on, and each of the two directions is as it should be. *)
Open == refused = ""

InFlight(h, e) == Puts(e, h[e]) - Gets(Peer(e), h[Peer(e)])

Goes(h, e) ==
  /\ Program(e, h[e], todo[e])
  /\ h[e] # 6 => sent[e] = <<>>
  /\ Linked(InFlight(h, e), wire[e], writer[e], reader[Peer(e)], sent[e], received[Peer(e)])

(* Only media have times other than 0. *)
Timed(e, s) ==
  \A i \in DOMAIN s : s[i].ts > 0 => e = Sender /\ s[i].cs \in {AudioStream, VideoStream}

SoFar(e) ==
  /\ AllSound(sent[e]) /\ Timed(e, sent[e])
  /\ Arrived(received[Peer(e)], sent[e])

Kinds == {"audio", "video"}

Choices == publish \in BOOLEAN /\ tracks \in SUBSET Kinds /\ announced \in SUBSET Kinds

Shapes ==
  /\ wire = [e \in Ends |-> wire[e]] /\ writer = [e \in Ends |-> writer[e]]
  /\ reader = [e \in Ends |-> reader[e]] /\ todo = [e \in Ends |-> todo[e]]
  /\ sent = [e \in Ends |-> sent[e]] /\ received = [e \in Ends |-> received[e]]

Steady == Choices /\ Shapes /\ \E h \in [Ends -> 0..6] : \A e \in Ends : Goes(h, e)

WentBack ==
  \E i, k \in DOMAIN sent[Sender] :
    /\ i < k /\ sent[Sender][i].cs = sent[Sender][k].cs
    /\ sent[Sender][i].cs \in {AudioStream, VideoStream}
    /\ sent[Sender][k].ts < sent[Sender][i].ts

LinkInv ==
  /\ \A e \in Ends : SoFar(e)
  /\ Open => Steady
  /\ refused \notin {"expected type 3 chunk", "body exceeds maximum", "out of step"}
  /\ refused = "without previous chunk" => WentBack

LEMMA EndsAre ==
  ASSUME NEW e \in Ends
  PROVE  Peer(e) \in Ends /\ Peer(e) # e /\ Peer(Peer(e)) = e /\ Ends = {e, Peer(e)}
  BY DEF Ends, Peer

LEMMA NamesAre ==
  {"connect", "_result", "createStream", "releaseStream", "FCPublish", "play", "publish",
   "onStatus"} \subseteq Names
  BY DEF Names

LEMMA ConnectIs ==
  Program("client", 0, Connect)
<1>1. IsStep(Write(Command(3, 0, "connect", 1)))
  BY CommandIsStep, Streams, NamesAre
<1>2. AllSteps(<<Write(Command(3, 0, "connect", 1)), Await("_result", 1)>>)
  BY <1>1, OthersAreSteps, StepsAre
<1>3. "client" \in Ends
  BY DEF Ends
<1>4. Program("client", 0, ClientHandshake \o Settings)
  BY <1>3, Handshakes, SettingsAreSteps, ProgramJoins
<1> QED
  BY <1>2, <1>3, <1>4, ProgramJoins DEF Connect

LEMMA PlayIs ==
  AllSteps(Play)
<1> DEFINE a == Write(Command(3, 0, "createStream", 2))
<1> DEFINE b == Await("_result", 2)
<1> DEFINE c == Write(UserControl("SetBufferLength"))
<1> DEFINE d == Write(Command(4, 1, "play", 3))
<1> DEFINE f == Await("onStatus", 3)
<1>1. IsStep(a) /\ IsStep(b) /\ IsStep(d) /\ IsStep(f) /\ IsStep(Detect)
  BY CommandIsStep, OthersAreSteps, Streams, NamesAre
<1>2. IsStep(c)
  BY UserControlIsSound, WriteIsStep
<1>3. Play = <<a, b, c, d, f, Detect>>
  BY DEF Play
<1> HIDE DEF a, b, c, d, f
<1>4. <<a, b, c, d, f, Detect>> = <<a, b, c>> \o <<d, f, Detect>>
  OBVIOUS
<1>5. AllSteps(<<a, b, c>>) /\ AllSteps(<<d, f, Detect>>)
  BY <1>1, <1>2, StepsAre
<1> QED
  BY <1>3, <1>4, <1>5, StepsJoin

LEMMA PublishIs ==
  AllSteps(Publish)
<1> DEFINE a == Write(Command(3, 0, "releaseStream", 2))
<1> DEFINE b == Write(Command(3, 0, "FCPublish", 3))
<1> DEFINE c == Write(Command(3, 0, "createStream", 4))
<1> DEFINE d == Await("_result", 4)
<1> DEFINE f == Write(Command(4, 1, "publish", 5))
<1> DEFINE g == Await("onStatus", 5)
<1>1. IsStep(a) /\ IsStep(b) /\ IsStep(c) /\ IsStep(d) /\ IsStep(f) /\ IsStep(g)
  BY CommandIsStep, OthersAreSteps, Streams, NamesAre
<1>3. Publish = <<a, b, c, d, f, g>>
  BY DEF Publish
<1> HIDE DEF a, b, c, d, f, g
<1>4. <<a, b, c, d, f, g>> = <<a, b, c>> \o <<d, f, g>>
  OBVIOUS
<1>5. AllSteps(<<a, b, c>>) /\ AllSteps(<<d, f, g>>)
  BY <1>1, StepsAre
<1> QED
  BY <1>3, <1>4, <1>5, StepsJoin

LEMMA LinkInit ==
  ASSUME Init
  PROVE  LinkInv
<1>1. Choices
  BY DEF Init, Choices, Kinds
<1>2. Shapes
  BY DEF Init, Shapes
<1>3. ASSUME NEW e \in Ends
      PROVE  /\ sent[e] = <<>> /\ received[Peer(e)] = <<>> /\ wire[e] = <<>>
             /\ writer[e] = NewWriter /\ reader[Peer(e)] = NewReader
             /\ todo[e] = IF e = "server" THEN ServerHandshake \o <<Serve>>
                          ELSE IF publish THEN Connect \o Publish \o Tracks
                          ELSE Connect \o Play
  BY <1>3, EndsAre DEF Init
<1>4. ASSUME NEW e \in Ends
      PROVE  Program(e, 0, todo[e])
  <2>1. "client" \in Ends /\ "server" \in Ends /\ (e = "client" \/ e = "server")
    BY DEF Ends
  <2>2. CASE e = "server"
    <3>1. AllSteps(<<Serve>>)
      BY OthersAreSteps, StepsAre
    <3>2. todo[e] = ServerHandshake \o <<Serve>>
      BY <1>3, <2>2
    <3> QED
      BY <2>1, <2>2, <3>1, <3>2, Handshakes, ProgramJoins
  <2>3. CASE e = "client" /\ publish
    <3>1. todo[e] = (Connect \o Publish) \o Tracks
      BY <1>3, <2>3
    <3>2. AllSteps(Tracks)
      BY <1>1, TracksAreSteps DEF Choices, Kinds
    <3>3. Program("client", 0, Connect \o Publish)
      BY <2>1, ConnectIs, PublishIs, ProgramJoins
    <3> QED
      BY <2>1, <2>3, <3>1, <3>2, <3>3, ProgramJoins
  <2>4. CASE e = "client" /\ ~publish
    <3>1. todo[e] = Connect \o Play
      BY <1>3, <2>4
    <3> QED
      BY <2>1, <2>4, <3>1, ConnectIs, PlayIs, ProgramJoins
  <2> QED
    BY <2>1, <2>2, <2>3, <2>4
<1>5. \A e \in Ends : SoFar(e)
  <2>1. AllSound(<<>>) /\ Arrived(<<>>, <<>>)
    BY LinkStarts DEF Linked
  <2>2. \A e : Timed(e, <<>>)
    BY DEF Timed
  <2> QED
    BY <1>3, <2>1, <2>2 DEF SoFar
<1> DEFINE h == [e \in Ends |-> 0]
<1>6. ASSUME NEW e \in Ends
      PROVE  Goes(h, e)
  <2>1. InFlight(h, e) = 0
    <3>1. h[e] = 0 /\ h[Peer(e)] = 0
      BY EndsAre
    <3> HIDE DEF h
    <3>2. Puts(e, 0) = 0 /\ Gets(Peer(e), 0) = 0
      BY HandshakeCounts, EndsAre
    <3> QED
      BY <3>1, <3>2 DEF InFlight
  <2>2. h[e] = 0
    OBVIOUS
  <2> HIDE DEF h
  <2> QED
    BY <1>3, <1>4, <2>1, <2>2, LinkStarts DEF Goes
<1>7. h \in [Ends -> 0..6]
  OBVIOUS
<1> HIDE DEF h
<1>8. Steady
  BY <1>1, <1>2, <1>6, <1>7 DEF Steady
<1>9. /\ refused \notin {"expected type 3 chunk", "body exceeds maximum", "out of step"}
      /\ refused # "without previous chunk"
  BY Zenon DEF Init
<1> QED
  BY <1>5, <1>8, <1>9 DEF LinkInv

-----------------------------------------------------------------------------
(* Every action keeps the invariant. *)
LEMMA StillOpen ==
  ASSUME Open, refused' = refused, Steady', \A e \in Ends : SoFar(e)'
  PROVE  LinkInv'
<1>1. refused' = ""
  BY DEF Open
<1> QED
  BY <1>1, Zenon DEF LinkInv

LEMMA SameSoFar ==
  ASSUME \A e \in Ends : SoFar(e), UNCHANGED <<publish, sent, received>>
  PROVE  \A e \in Ends : SoFar(e)'
<1>1. Sender' = Sender
  BY DEF Sender
<1> QED
  BY <1>1 DEF SoFar, Timed

LEMMA SameChoices ==
  ASSUME Choices, UNCHANGED choices
  PROVE  Choices' /\ Sender' = Sender /\ publish' = publish
  BY DEF Choices, choices, Sender

(* What each action needs to know of a steady state. *)
LEMMA SteadyIs ==
  ASSUME NEW e \in Ends, NEW h \in [Ends -> 0..6], \A x \in Ends : Goes(h, x)
  PROVE  /\ h[e] \in 0..6 /\ h[Peer(e)] \in 0..6 /\ Program(e, h[e], todo[e])
         /\ InFlight(h, e) = Puts(e, h[e]) - Gets(Peer(e), h[Peer(e)])
         /\ InFlight(h, Peer(e)) = Puts(Peer(e), h[Peer(e)]) - Gets(e, h[e])
         /\ Linked(InFlight(h, e), wire[e], writer[e], reader[Peer(e)], sent[e],
                   received[Peer(e)])
         /\ Linked(InFlight(h, Peer(e)), wire[Peer(e)], writer[Peer(e)], reader[e],
                   sent[Peer(e)], received[e])
         /\ h[e] # 6 => sent[e] = <<>>
         /\ h[Peer(e)] # 6 => sent[Peer(e)] = <<>>
         /\ Program(Peer(e), h[Peer(e)], todo[Peer(e)])
<1>1. Peer(e) \in Ends /\ Peer(Peer(e)) = e
  BY EndsAre
<1>2. Goes(h, e) /\ Goes(h, Peer(e))
  BY <1>1
<1> QED
  BY <1>1, <1>2 DEF Goes, InFlight

LEMMA AmongSteps ==
  ASSUME NEW e \in Ends, NEW h \in 0..6, NEW td, Program(e, h, td), td # <<>>
  PROVE  /\ Head(td).do \in {"put", "get"} => h \in 0..5
         /\ Head(td).do \notin {"put", "get"} => h = 6 /\ AllSteps(td)
<1>1. h # 6 => h \in 0..5
  OBVIOUS
<1>2. ASSUME h = 6
      PROVE  AllSteps(td) /\ Head(td).do \notin {"put", "get"}
  <2>1. AllSteps(td)
    BY <1>2, ProgramIsSteps
  <2>2. IsStep(Head(td))
    BY <2>1, StepsTail
  <2> QED
    BY <2>1, <2>2 DEF IsStep
<1>3. Head(td).do \notin {"put", "get"} => h = 6
  BY ProgramIsSteps
<1> QED
  BY <1>1, <1>2, <1>3

LEMMA PutKeeps ==
  ASSUME LinkInv, NEW e \in Ends, PutPart(e)
  PROVE  LinkInv'
<1> DEFINE p == Peer(e)
<1>0. p \in Ends /\ p # e /\ Peer(p) = e /\ Ends = {e, p}
  BY EndsAre
<1>1. Open /\ refused' = refused
  BY DEF PutPart, Doing, Open
<1>2. todo[e] # <<>> /\ Head(todo[e]).do = "put"
  BY DEF PutPart, Doing
<1>3. PICK x : wire' = [wire EXCEPT ![e] = Append(@, x)]
  BY DEF PutPart
<1>4. /\ todo' = [todo EXCEPT ![e] = Tail(@)]
      /\ UNCHANGED choices /\ UNCHANGED <<writer, reader, sent, received>>
  BY DEF PutPart
<1>5. Choices /\ Shapes /\ \A y \in Ends : SoFar(y)
  BY <1>1 DEF LinkInv, Steady
<1>6. PICK h \in [Ends -> 0..6] : \A y \in Ends : Goes(h, y)
  BY <1>1 DEF LinkInv, Steady
<1>7. /\ h[e] \in 0..6 /\ h[p] \in 0..6 /\ Program(e, h[e], todo[e])
      /\ InFlight(h, e) = Puts(e, h[e]) - Gets(p, h[p])
      /\ InFlight(h, p) = Puts(p, h[p]) - Gets(e, h[e])
      /\ Linked(InFlight(h, e), wire[e], writer[e], reader[p], sent[e], received[p])
      /\ Linked(InFlight(h, p), wire[p], writer[p], reader[e], sent[p], received[e])
      /\ h[e] # 6 => sent[e] = <<>>
      /\ h[p] # 6 => sent[p] = <<>>
      /\ Program(p, h[p], todo[p])
  BY <1>6, SteadyIs
<1>8. h[e] \in 0..5
  BY <1>2, <1>7, AmongSteps
<1>9. Head(todo[e]).do = HandshakeDo(e, h[e] + 1) /\ Program(e, h[e] + 1, Tail(todo[e]))
  BY <1>7, <1>8, ProgramGoesOn
<1>10. Puts(e, h[e] + 1) = Puts(e, h[e]) + 1 /\ Gets(e, h[e] + 1) = Gets(e, h[e])
  BY <1>2, <1>8, <1>9, HandshakeCounts
<1>11. /\ wire'[e] = Append(wire[e], x) /\ wire'[p] = wire[p]
       /\ todo'[e] = Tail(todo[e]) /\ todo'[p] = todo[p]
  BY <1>0, <1>3, <1>4, <1>5 DEF Shapes
<1> DEFINE g == [h EXCEPT ![e] = @ + 1]
<1>12. g \in [Ends -> 0..6] /\ g[e] = h[e] + 1 /\ g[p] = h[p]
  BY <1>0, <1>8
<1> HIDE DEF g
<1>13. InFlight(g, e) = InFlight(h, e) + 1 /\ InFlight(g, p) = InFlight(h, p)
  <2>1. Puts(e, h[e]) \in Int /\ Gets(p, h[p]) \in Int
    BY <1>0, <1>7, HandshakeCounts
  <2>2. InFlight(g, e) = Puts(e, g[e]) - Gets(p, g[p])
        /\ InFlight(g, p) = Puts(p, g[p]) - Gets(e, g[e])
    BY <1>0 DEF InFlight
  <2>3. InFlight(g, p) = InFlight(h, p)
    BY <1>7, <1>10, <1>12, <2>2
  <2>4. InFlight(g, e) = (Puts(e, h[e]) + 1) - Gets(p, h[p])
    BY <1>10, <1>12, <2>2
  <2> QED
    BY <1>7, <2>1, <2>3, <2>4
<1>14. Goes(g, e)'
  <2>1. sent[e] = <<>>
    BY <1>7, <1>8
  <2>2. Linked(InFlight(h, e) + 1, Append(wire[e], x), writer[e], reader[p], sent[e],
               received[p])
    BY <1>7, <2>1, LinkPuts
  <2> QED
    BY <1>4, <1>9, <1>11, <1>12, <1>13, <2>1, <2>2 DEF Goes, InFlight
<1>15. Goes(g, p)'
  BY <1>0, <1>4, <1>7, <1>11, <1>12, <1>13 DEF Goes, InFlight
<1>16. Shapes'
  BY <1>3, <1>4, <1>5 DEF Shapes
<1>17. Steady'
  <2>1. \A y \in Ends : Goes(g, y)'
    BY <1>0, <1>14, <1>15
  <2> QED
    BY <1>4, <1>5, <1>12, <1>16, <2>1, SameChoices DEF Steady
<1>18. \A y \in Ends : SoFar(y)'
  BY <1>4, <1>5, SameSoFar, SameChoices
<1> QED
  BY <1>1, <1>17, <1>18, StillOpen

LEMMA GetKeeps ==
  ASSUME LinkInv, NEW e \in Ends, GetPart(e)
  PROVE  LinkInv'
<1> DEFINE p == Peer(e)
<1>0. p \in Ends /\ p # e /\ Peer(p) = e /\ Ends = {e, p}
  BY EndsAre
<1>1. Open /\ refused' = refused
  BY DEF GetPart, Doing, Open
<1>2. todo[e] # <<>> /\ Head(todo[e]).do = "get" /\ wire[p] # <<>>
  BY DEF GetPart, Doing
<1>3. /\ wire' = [wire EXCEPT ![p] = Tail(@)] /\ reader' = [reader EXCEPT ![e] = Counted(@, 1)]
      /\ todo' = [todo EXCEPT ![e] = Tail(@)]
      /\ UNCHANGED choices /\ UNCHANGED <<writer, sent, received>>
  BY DEF GetPart
<1>5. Choices /\ Shapes /\ \A y \in Ends : SoFar(y)
  BY <1>1 DEF LinkInv, Steady
<1>6. PICK h \in [Ends -> 0..6] : \A y \in Ends : Goes(h, y)
  BY <1>1 DEF LinkInv, Steady
<1>7. /\ h[e] \in 0..6 /\ h[p] \in 0..6 /\ Program(e, h[e], todo[e])
      /\ InFlight(h, e) = Puts(e, h[e]) - Gets(p, h[p])
      /\ InFlight(h, p) = Puts(p, h[p]) - Gets(e, h[e])
      /\ Linked(InFlight(h, e), wire[e], writer[e], reader[p], sent[e], received[p])
      /\ Linked(InFlight(h, p), wire[p], writer[p], reader[e], sent[p], received[e])
      /\ h[e] # 6 => sent[e] = <<>>
      /\ h[p] # 6 => sent[p] = <<>>
      /\ Program(p, h[p], todo[p])
  BY <1>6, SteadyIs
<1>8. h[e] \in 0..5
  BY <1>2, <1>7, AmongSteps
<1>9. Head(todo[e]).do = HandshakeDo(e, h[e] + 1) /\ Program(e, h[e] + 1, Tail(todo[e]))
  BY <1>7, <1>8, ProgramGoesOn
<1>10. Puts(e, h[e] + 1) = Puts(e, h[e]) /\ Gets(e, h[e] + 1) = Gets(e, h[e]) + 1
       /\ Gets(e, h[e]) < 3
  BY <1>2, <1>8, <1>9, HandshakeCounts
<1>11. /\ wire'[p] = Tail(wire[p]) /\ wire'[e] = wire[e]
       /\ todo'[e] = Tail(todo[e]) /\ todo'[p] = todo[p]
       /\ reader'[e] = Counted(reader[e], 1) /\ reader'[p] = reader[p]
  BY <1>0, <1>3, <1>5 DEF Shapes
<1> DEFINE g == [h EXCEPT ![e] = @ + 1]
<1>12. g \in [Ends -> 0..6] /\ g[e] = h[e] + 1 /\ g[p] = h[p]
  BY <1>0, <1>8
<1> HIDE DEF g
<1>13. InFlight(g, p) = InFlight(h, p) - 1 /\ InFlight(g, e) = InFlight(h, e)
  <2>1. Puts(p, h[p]) \in Int /\ Gets(e, h[e]) \in Int
    BY <1>0, <1>7, HandshakeCounts
  <2>2. InFlight(g, e) = Puts(e, g[e]) - Gets(p, g[p])
        /\ InFlight(g, p) = Puts(p, g[p]) - Gets(e, g[e])
    BY <1>0 DEF InFlight
  <2>3. InFlight(g, e) = InFlight(h, e)
    BY <1>7, <1>10, <1>12, <2>2
  <2>4. InFlight(g, p) = Puts(p, h[p]) - (Gets(e, h[e]) + 1)
    BY <1>10, <1>12, <2>2
  <2> QED
    BY <1>7, <2>1, <2>3, <2>4
<1>14. InFlight(h, p) > 0
  <2>1. CASE h[p] = 6
    <3>1. Puts(p, h[p]) = 3 /\ Gets(e, h[e]) \in 0..3
      BY <1>0, <1>7, <2>1, HandshakeCounts
    <3> QED
      BY <1>7, <1>10, <3>1
  <2>2. CASE h[p] # 6
    <3>1. Linked(InFlight(h, p), wire[p], writer[p], reader[e], <<>>, received[e])
      BY <1>7, <2>2
    <3>2. PICK W, C, o : History(W, C, <<>>) /\ OnWire(W, C, o, InFlight(h, p), wire[p], <<>>)
      BY <3>1 DEF Linked
    <3>3. C[0] = 0 /\ Len(<<>>) = 0
      BY <3>2 DEF History
    <3>4. o = 0 /\ InFlight(h, p) \in Nat /\ Len(wire[p]) = InFlight(h, p)
          /\ \E T : wire[p] \in Seq(T)
      BY <3>2, <3>3 DEF OnWire
    <3>5. Len(wire[p]) > 0
      BY <1>2, <3>4
    <3> QED
      BY <3>4, <3>5
  <2> QED
    BY <2>1, <2>2
<1>15. Goes(g, p)'
  <2> DEFINE rd == reader'[e]
  <2>1. reader[e] \in Readers(Parts)
    BY <1>7 DEF Linked, InStep
  <2>2. rd = Counted(reader[e], 1)
    BY <1>11
  <2>3. rd \in Readers(Parts) /\ rd.streams = reader[e].streams
        /\ rd.chunkSize = reader[e].chunkSize
    <3>1. (reader[e].count + 1) % CountMod \in Nat
      <4>1. reader[e].count + 1 \in Nat
        BY <2>1 DEF Readers
      <4> QED
        BY <4>1, ModOf, ChunkAssumption
    <3> QED
      BY <2>1, <2>2, <3>1 DEF Counted, Readers
  <2> HIDE DEF rd
  <2>4. Linked(InFlight(h, p) - 1, Tail(wire[p]), writer[p], rd, sent[p], received[e])
    BY <1>7, <1>14, <2>3, LinkGets
  <2> QED
    BY <1>0, <1>3, <1>7, <1>11, <1>12, <1>13, <2>4 DEF Goes, InFlight, rd
<1>16. Goes(g, e)'
  BY <1>0, <1>3, <1>7, <1>8, <1>9, <1>11, <1>12, <1>13 DEF Goes, InFlight
<1>17. Shapes'
  BY <1>3, <1>5 DEF Shapes
<1>18. Steady'
  <2>1. \A y \in Ends : Goes(g, y)'
    BY <1>0, <1>15, <1>16
  <2> QED
    BY <1>3, <1>5, <1>12, <1>17, <2>1, SameChoices DEF Steady
<1>19. \A y \in Ends : SoFar(y)'
  BY <1>3, <1>5, SameSoFar, SameChoices
<1> QED
  BY <1>1, <1>18, <1>19, StillOpen

LEMMA TimedGrows ==
  ASSUME NEW e, NEW s, AllSound(s), Timed(e, s), NEW m, Sound(m),
         m.ts > 0 => e = Sender /\ m.cs \in {AudioStream, VideoStream}
  PROVE  Timed(e, Append(s, m))
<1>1. s \in Seq(Messages(Parts)) /\ m \in Messages(Parts)
  BY DEF AllSound, Sound
<1> DEFINE s2 == Append(s, m)
<1>2. /\ Len(s) \in Nat /\ DOMAIN s = 1..Len(s) /\ DOMAIN s2 = 1..(Len(s) + 1)
      /\ s2[Len(s) + 1] = m /\ \A i \in 1..Len(s) : s2[i] = s[i]
  BY <1>1, AppendProperties
<1> HIDE DEF s2
<1>3. \A i \in DOMAIN s2 : i \in DOMAIN s \/ i = Len(s) + 1
  BY <1>2
<1>4. Timed(e, s2)
  BY <1>2, <1>3 DEF Timed
<1> QED
  BY <1>4 DEF s2

LEMMA WritingKeeps ==
  ASSUME LinkInv, Open, NEW e \in Ends, NEW m, Sound(m),
         m.ts > 0 => e = Sender /\ m.cs \in {AudioStream, VideoStream},
         NEW h \in [Ends -> 0..6], \A y \in Ends : Goes(h, y), h[e] = 6,
         Writes(e, m, wire), UNCHANGED <<publish, tracks, late, announced>>,
         UNCHANGED <<reader, received, refused>>,
         todo' = [y \in Ends |-> todo'[y]], todo'[Peer(e)] = todo[Peer(e)], AllSteps(todo'[e])
  PROVE  LinkInv'
<1> DEFINE p == Peer(e)
<1>0. p \in Ends /\ p # e /\ Peer(p) = e /\ Ends = {e, p}
  BY EndsAre
<1>1. Choices /\ Shapes /\ \A y \in Ends : SoFar(y)
  BY DEF LinkInv, Steady
<1>2. /\ wire' = [wire EXCEPT ![e] = @ \o ChunksOf(writer[e], m)]
      /\ writer' = [writer EXCEPT ![e] = AfterWriting(Written(@, m), m)]
      /\ sent' = [sent EXCEPT ![e] = Append(@, m)]
  BY DEF Writes
<1>3. /\ wire'[e] = wire[e] \o ChunksOf(writer[e], m) /\ wire'[p] = wire[p]
      /\ writer'[e] = AfterWriting(Written(writer[e], m), m) /\ writer'[p] = writer[p]
      /\ sent'[e] = Append(sent[e], m) /\ sent'[p] = sent[p]
      /\ wire' = [y \in Ends |-> wire'[y]] /\ writer' = [y \in Ends |-> writer'[y]]
      /\ sent' = [y \in Ends |-> sent'[y]]
  BY <1>0, <1>1, <1>2 DEF Shapes
<1>4. /\ h[e] \in 0..6 /\ h[p] \in 0..6
      /\ InFlight(h, e) = Puts(e, h[e]) - Gets(p, h[p])
      /\ InFlight(h, p) = Puts(p, h[p]) - Gets(e, h[e])
      /\ Linked(InFlight(h, e), wire[e], writer[e], reader[p], sent[e], received[p])
      /\ Linked(InFlight(h, p), wire[p], writer[p], reader[e], sent[p], received[e])
      /\ h[p] # 6 => sent[p] = <<>>
      /\ Program(p, h[p], todo[p])
  BY SteadyIs
<1>5. Linked(InFlight(h, e), wire[e] \o ChunksOf(writer[e], m),
             AfterWriting(Written(writer[e], m), m), reader[p], Append(sent[e], m), received[p])
  BY <1>4, LinkWrites
<1>6. Program(e, 6, todo'[e])
  BY ProgramIsSteps
<1>7. Goes(h, e)'
  BY <1>0, <1>3, <1>5, <1>6 DEF Goes, InFlight
<1>8. Goes(h, p)'
  BY <1>0, <1>3, <1>4 DEF Goes, InFlight
<1>9. Shapes'
  BY <1>1, <1>3 DEF Shapes
<1>10. Sender' = Sender /\ Choices'
  BY <1>1, SameChoices DEF choices
<1>11. Steady'
  <2>1. \A y \in Ends : Goes(h, y)'
    BY <1>0, <1>7, <1>8
  <2> QED
    BY <1>9, <1>10, <2>1 DEF Steady
<1>12. SoFar(e)'
  <2>1. AllSound(sent'[e]) /\ Arrived(received'[p], sent'[e])
    BY <1>3, <1>5 DEF Linked
  <2>2. Timed(e, sent'[e])
    BY <1>1, <1>3, TimedGrows DEF SoFar
  <2> QED
    BY <1>10, <2>1, <2>2 DEF SoFar, Timed
<1>13. SoFar(p)'
  BY <1>0, <1>1, <1>3, <1>10 DEF SoFar, Timed
<1>14. \A y \in Ends : SoFar(y)'
  BY <1>0, <1>12, <1>13
<1> QED
  BY <1>11, <1>14, StillOpen

LEMMA WriteKeeps ==
  ASSUME LinkInv, NEW e \in Ends, WriteMessage(e)
  PROVE  LinkInv'
<1> DEFINE p == Peer(e)
<1> DEFINE m == Head(todo[e]).msg
<1>0. p \in Ends /\ p # e
  BY EndsAre
<1>1. Open
  BY DEF WriteMessage, Doing, Open
<1>2. todo[e] # <<>> /\ Head(todo[e]).do = "write"
  BY DEF WriteMessage, Doing
<1>3. /\ Writes(e, m, wire) /\ todo' = [todo EXCEPT ![e] = Tail(@)]
      /\ UNCHANGED choices /\ UNCHANGED <<reader, received, refused>>
  BY DEF WriteMessage
<1>4. Shapes
  BY <1>1 DEF LinkInv, Steady
<1>5. PICK h \in [Ends -> 0..6] : \A y \in Ends : Goes(h, y)
  BY <1>1 DEF LinkInv, Steady
<1>6. h[e] \in 0..6 /\ Program(e, h[e], todo[e])
  BY <1>5, SteadyIs
<1>7. h[e] = 6 /\ AllSteps(todo[e])
  BY <1>2, <1>6, AmongSteps
<1>8. IsStep(Head(todo[e])) /\ AllSteps(Tail(todo[e]))
  BY <1>2, <1>7, StepsTail
<1>9. Sound(m) /\ m.ts = 0
  BY <1>2, <1>8 DEF IsStep
<1>10. todo' = [y \in Ends |-> todo'[y]] /\ todo'[p] = todo[p] /\ todo'[e] = Tail(todo[e])
  BY <1>0, <1>3, <1>4 DEF Shapes
<1> HIDE DEF m
<1>11. ~(m.ts > 0)
  BY <1>9
<1> QED
  BY <1>1, <1>3, <1>5, <1>7, <1>8, <1>9, <1>10, <1>11, WritingKeeps DEF choices

LEMMA UnitKeeps ==
  ASSUME LinkInv, WriteUnit
  PROVE  LinkInv'
<1> DEFINE e == Sender
<1>0. e \in Ends
  BY DEF Sender, Ends
<1>1. Open
  BY DEF WriteUnit, Open
<1>2. todo[e] = <<>> /\ UNCHANGED choices /\ UNCHANGED <<reader, received, refused, todo>>
  BY DEF WriteUnit
<1>3. Shapes /\ Choices
  BY <1>1 DEF LinkInv, Steady
<1>4. PICK h \in [Ends -> 0..6] : \A y \in Ends : Goes(h, y)
  BY <1>1 DEF LinkInv, Steady
<1>5. h[e] \in 0..6 /\ Program(e, h[e], todo[e])
  BY <1>0, <1>4, SteadyIs
<1>6. h[e] = 6
  BY <1>0, <1>2, <1>5, ProgramIsSteps
<1>7. AllSteps(todo'[e])
  BY <1>2, StepsAre
<1>8. PICK m : /\ Sound(m) /\ m.cs \in {AudioStream, VideoStream} /\ Writes(e, m, wire)
  <2>1. PICK t \in tracks, len \in BodyLens, gap \in Gaps :
          LET ts == writer[e].streams[StreamOf(t)].ts + gap
          IN  ts >= 0 /\ Writes(e, Unit(t, ts, len), wire)
    BY DEF WriteUnit
  <2> DEFINE ts == writer[e].streams[StreamOf(t)].ts + gap
  <2>2. t \in {"audio", "video"} /\ len \in 1..MaxBodySize /\ gap \in Int
    BY <1>3, <2>1, LinkAssumption DEF Choices, Kinds
  <2>3. ts \in Nat
    <3>1. writer[e] \in Writers
      BY <1>0, <1>4, SteadyIs, SettingsAreSound, LinkWrites
    <3>2. StreamOf(t) \in ChunkStreams
      BY <2>2, Streams DEF StreamOf
    <3>3. writer[e].streams[StreamOf(t)].ts \in Nat
      BY <3>1, <3>2 DEF Writers, WriterStreams
    <3> QED
      BY <2>1, <2>2, <3>3
  <2> HIDE DEF ts
  <2>4. Sound(Unit(t, ts, len)) /\ Unit(t, ts, len).cs \in {AudioStream, VideoStream}
    BY <2>2, <2>3, MediaAreSound
  <2> QED
    BY <2>1, <2>4 DEF ts
<1>9. todo' = [y \in Ends |-> todo'[y]]
  BY <1>2, <1>3 DEF Shapes
<1> HIDE DEF e
<1>10. e = Sender
  BY DEF e
<1> QED
  BY <1>0, <1>1, <1>2, <1>4, <1>6, <1>7, <1>8, <1>9, <1>10, WritingKeeps DEF choices

(* A message is handled: what the end has to do next, and what it may refuse. *)
IsDetect(d) == d = [do |-> "detect", mode |-> d.mode, has |-> d.has, start |-> d.start]

Fine(why) ==
  why \notin {"expected type 3 chunk", "body exceeds maximum", "out of step",
              "without previous chunk"}

GoesOn(e) ==
  /\ todo' = [y \in Ends |-> todo'[y]] /\ todo'[Peer(e)] = todo[Peer(e)]
  /\ AllSteps(todo'[e]) /\ Fine(refused')

LEMMA DetectIs ==
  ASSUME NEW d, IsDetect(d)
  PROVE  /\ IsStep(d) /\ \A x : IsDetect([d EXCEPT !.has = x])
         /\ \A x : IsDetect([d EXCEPT !.mode = x])
         /\ \A x, y : IsDetect([d EXCEPT !.mode = x, !.start = y])
<1>1. d = [do |-> "detect", mode |-> d.mode, has |-> d.has, start |-> d.start]
  BY DEF IsDetect
<1>2. d.do = "detect"
  BY <1>1
<1>3. IsStep(d)
  BY <1>1, <1>2 DEF IsStep
<1>4. ASSUME NEW x
      PROVE  IsDetect([d EXCEPT !.has = x])
  <2>1. [d EXCEPT !.has = x] = [do |-> "detect", mode |-> d.mode, has |-> x, start |-> d.start]
    BY <1>1
  <2> QED
    BY <2>1 DEF IsDetect
<1>5. ASSUME NEW x
      PROVE  IsDetect([d EXCEPT !.mode = x])
  <2>1. [d EXCEPT !.mode = x] = [do |-> "detect", mode |-> x, has |-> d.has, start |-> d.start]
    BY <1>1
  <2> QED
    BY <2>1 DEF IsDetect
<1>6. ASSUME NEW x, NEW y
      PROVE  IsDetect([d EXCEPT !.mode = x, !.start = y])
  <2>1. [d EXCEPT !.mode = x, !.start = y] =
          [do |-> "detect", mode |-> x, has |-> d.has, start |-> y]
    <3> DEFINE f == [d EXCEPT !.mode = x]
    <3>1. f = [do |-> "detect", mode |-> x, has |-> d.has, start |-> d.start]
      BY <1>1
    <3>2. [d EXCEPT !.mode = x, !.start = y] = [f EXCEPT !.start = y]
      OBVIOUS
    <3> HIDE DEF f
    <3>3. [f EXCEPT !.start = y] = [do |-> "detect", mode |-> x, has |-> d.has, start |-> y]
      BY <3>1
    <3> QED
      BY <3>2, <3>3
  <2> QED
    BY <2>1 DEF IsDetect
<1> QED
  BY <1>3, <1>4, <1>5, <1>6

LEMMA FineAre ==
  /\ Fine("unexpected packet") /\ Fine("no supported tracks")
  /\ Fine("track is not set up") /\ Fine("")
<1>1. Fine("unexpected packet") /\ Fine("no supported tracks") /\ Fine("track is not set up")
  BY DEF Fine
<1>2. Fine("")
  BY Zenon DEF Fine
<1> QED
  BY <1>1, <1>2, Zenon

LEMMA TodoIs ==
  ASSUME Shapes, NEW e \in Ends, NEW td, AllSteps(td), todo' = [todo EXCEPT ![e] = td],
         Fine(refused')
  PROVE  GoesOn(e)
<1>1. Peer(e) \in Ends /\ Peer(e) # e
  BY EndsAre
<1>2. todo' = [y \in Ends |-> todo'[y]] /\ todo'[Peer(e)] = todo[Peer(e)] /\ todo'[e] = td
  BY <1>1 DEF Shapes
<1> QED
  BY <1>2 DEF GoesOn

LEMMA TodoStays ==
  ASSUME Shapes, NEW e \in Ends, AllSteps(todo[e]), todo' = todo, Fine(refused')
  PROVE  GoesOn(e)
  BY DEF GoesOn, Shapes

LEMMA FromMetadataGoesOn ==
  ASSUME Shapes, Open, NEW e \in Ends, AllSteps(todo[e]), todo[e] # <<>>,
         NEW d, IsDetect(d), NEW m, FromMetadata(e, d, m)
  PROVE  GoesOn(e)
<1>1. AllSteps(Tail(todo[e]))
  BY StepsTail
<1>2. AllSteps(<<[d EXCEPT !.mode = "metadata"]>>)
  BY DetectIs, StepsAre
<1>3. CASE refused' = "unexpected packet" /\ UNCHANGED todo
  BY <1>3, FineAre, TodoStays
<1>4. Fine(refused)
  BY FineAre, Zenon DEF Open
<1>5. CASE /\ refused' = refused
           /\ \/ todo' = [todo EXCEPT ![e] = Tail(@)]
              \/ todo' = [todo EXCEPT ![e] = <<[d EXCEPT !.mode = "metadata"]>>]
  <2>1. Fine(refused')
    BY <1>4, <1>5
  <2>2. CASE todo' = [todo EXCEPT ![e] = Tail(todo[e])]
    BY <1>1, <2>1, <2>2, TodoIs
  <2>3. CASE todo' = [todo EXCEPT ![e] = <<[d EXCEPT !.mode = "metadata"]>>]
    BY <1>2, <2>1, <2>3, TodoIs
  <2> QED
    BY <1>5, <2>2, <2>3
<1> QED
  BY <1>3, <1>5 DEF FromMetadata

LEMMA FromMessagesGoesOn ==
  ASSUME Shapes, NEW e \in Ends, AllSteps(todo[e]), todo[e] # <<>>,
         NEW d, IsDetect(d), NEW m, FromMessages(e, d, m)
  PROVE  GoesOn(e)
<1> DEFINE td(x) == <<[d EXCEPT !.mode = "messages", !.start = x]>>
<1>1. AllSteps(Tail(todo[e])) /\ \A x : AllSteps(td(x))
  BY DetectIs, StepsAre, StepsTail
<1>2. Fine(refused')
  <2>1. refused' = "no supported tracks" \/ refused' = ""
    BY Zenon DEF FromMessages
  <2> QED
    BY <2>1, FineAre, Zenon
<1>3. \/ todo' = [todo EXCEPT ![e] = Tail(todo[e])]
      \/ \E x : todo' = [todo EXCEPT ![e] = td(x)]
  BY DEF FromMessages
<1> HIDE DEF td
<1>4. CASE todo' = [todo EXCEPT ![e] = Tail(todo[e])]
  BY <1>1, <1>2, <1>4, TodoIs
<1>5. ASSUME NEW x, todo' = [todo EXCEPT ![e] = td(x)]
      PROVE  GoesOn(e)
  BY <1>1, <1>2, <1>5, TodoIs
<1> QED
  BY <1>3, <1>4, <1>5

LEMMA HandledGoesOn ==
  ASSUME Choices, Shapes, Open, NEW e \in Ends, AllSteps(todo[e]), NEW m, Sound(m),
         Handled(e, m)
  PROVE  GoesOn(e)
<1>1. CASE todo[e] = <<>> /\ Demuxes(m)
  <2>1. refused' = "track is not set up" \/ refused' = ""
    BY <1>1, Zenon DEF Demuxes
  <2>2. Fine(refused')
    BY <2>1, FineAre, Zenon
  <2>3. todo' = todo
    BY <1>1 DEF Demuxes
  <2> QED
    BY <2>2, <2>3, TodoStays
<1>2. CASE Doing(e, "detect") /\ Detects(e, Head(todo[e]), m)
  <2> DEFINE d == Head(todo[e])
  <2>1. todo[e] # <<>> /\ d.do = "detect"
    BY <1>2 DEF Doing
  <2>2. IsStep(d)
    BY <2>1, StepsTail
  <2>3. IsDetect(d)
    BY <2>1, <2>2 DEF IsStep, IsDetect
  <2> HIDE DEF d
  <2>4. \/ UNCHANGED <<todo, refused>>
        \/ FromMetadata(e, [d EXCEPT !.has = What(m)[2]], m)
        \/ FromMetadata(e, d, m) \/ FromMessages(e, d, m)
    BY <1>2 DEF Detects, d
  <2>5. Fine(refused)
    BY FineAre, Zenon DEF Open
  <2>6. CASE UNCHANGED <<todo, refused>>
    <3>1. todo' = todo /\ Fine(refused')
      BY <2>5, <2>6
    <3> QED
      BY <3>1, TodoStays
  <2>7. IsDetect([d EXCEPT !.has = What(m)[2]])
    BY <2>3, DetectIs
  <2> QED
    BY <2>1, <2>3, <2>4, <2>6, <2>7, FromMetadataGoesOn, FromMessagesGoesOn
<1>3. CASE /\ Doing(e, "await") \/ Doing(e, "serve")
           /\ todo' = [todo EXCEPT ![e] = IF m.type = "command" THEN Answered(@, m) ELSE @]
           /\ UNCHANGED <<found, refused>>
  <2>1. todo[e] # <<>> /\ Head(todo[e]).do \in {"await", "serve"}
    BY <1>3 DEF Doing
  <2>2. Fine(refused')
    BY <1>3, FineAre, Zenon DEF Open
  <2> DEFINE td == IF m.type = "command" THEN Answered(todo[e], m) ELSE todo[e]
  <2>3. AllSteps(td)
    <3>1. CASE m.type = "command" /\ Head(todo[e]).do = "serve"
      <4>1. td = Served(m)
        BY <3>1 DEF Answered
      <4> QED
        BY <3>1, <4>1, ServedAreSteps DEF Choices, Kinds
    <3>2. CASE m.type = "command" /\ Head(todo[e]).do = "await"
      <4>1. td = IF What(m) = Head(todo[e]).reply THEN Tail(todo[e]) ELSE todo[e]
        BY <3>2 DEF Answered
      <4> QED
        BY <2>1, <4>1, StepsTail
    <3> QED
      BY <2>1, <3>1, <3>2
  <2>4. todo' = [todo EXCEPT ![e] = td]
    BY <1>3
  <2> HIDE DEF td
  <2> QED
    BY <2>2, <2>3, <2>4, TodoIs
<1> QED
  BY <1>1, <1>2, <1>3 DEF Handled

(* What the chunk at the head of the wire does. *)
IsFault(e, c) == refused' = Refusal(reader[e], c) /\ UNCHANGED <<sent, received>>

IsReadBy(e, c, r, acked, wires) ==
  /\ AckNeeded(r) => Writes(e, Acknowledge(r.count), wires)
  /\ ~AckNeeded(r) => wire' = wires /\ UNCHANGED <<writer, sent>>
  /\ Complete(r, c) =>
       /\ reader' = [reader EXCEPT ![e] = Applied(Taken(acked, c), Message(acked, c))]
       /\ received' = [received EXCEPT ![e] = Append(@, Message(acked, c))]
       /\ Handled(e, Message(acked, c))
  /\ ~Complete(r, c) =>
       /\ reader' = [reader EXCEPT ![e] = acked]
       /\ UNCHANGED <<todo, found, received, refused>>

AckedOf(r) == IF AckNeeded(r) THEN Acknowledged(r) ELSE r

LEMMA ReadChunkIs ==
  ASSUME NEW e \in Ends, ReadChunk(e)
  PROVE  LET c == Head(wire[Peer(e)])
             r == Counted(Read(reader[e], c), Weight(c))
         IN  /\ Open /\ wire[Peer(e)] # <<>> /\ UNCHANGED choices
             /\ todo[e] = <<>> \/ Head(todo[e]).do \in {"await", "serve", "detect"}
             /\ ~IsReadable(reader[e], c) => IsFault(e, c)
             /\ IsReadable(reader[e], c) /\ Framed(reader[e], c) =>
                  IsReadBy(e, c, r, AckedOf(r), [wire EXCEPT ![Peer(e)] = Tail(@)])
<1> DEFINE c == Head(wire[Peer(e)])
<1> DEFINE r == Counted(Read(reader[e], c), Weight(c))
<1> DEFINE wires == [wire EXCEPT ![Peer(e)] = Tail(@)]
<1>1. Open /\ wire[Peer(e)] # <<>> /\ UNCHANGED choices
  BY Zenon DEF ReadChunk, Reading, Open
<1>2. todo[e] = <<>> \/ Head(todo[e]).do \in {"await", "serve", "detect"}
  BY Zenon DEF ReadChunk, Reading, Doing
<1>3. ASSUME ~IsReadable(reader[e], c)
      PROVE  IsFault(e, c)
  BY <1>3, Zenon DEF ReadChunk, IsReadable, IsFault
<1>4. ASSUME IsReadable(reader[e], c), Framed(reader[e], c)
      PROVE  IsReadBy(e, c, r, AckedOf(r), wires)
  <2>1. /\ IF AckNeeded(r) THEN Writes(e, Acknowledge(r.count), wires)
           ELSE wire' = wires /\ UNCHANGED <<writer, sent>>
        /\ IF Complete(r, c)
             THEN /\ reader' = [reader EXCEPT ![e] = Applied(Taken(AckedOf(r), c), Message(AckedOf(r), c))]
                  /\ received' = [received EXCEPT ![e] = Append(@, Message(AckedOf(r), c))]
                  /\ Handled(e, Message(AckedOf(r), c))
             ELSE /\ reader' = [reader EXCEPT ![e] = AckedOf(r)]
                  /\ UNCHANGED <<todo, found, received, refused>>
    BY <1>4, Zenon DEF ReadChunk, IsReadable, AckedOf
  <2> HIDE DEF r, wires, c
  <2> QED
    BY <2>1, Zenon DEF IsReadBy
<1> QED
  BY <1>1, <1>2, <1>3, <1>4

LEMMA CountedIs ==
  ASSUME NEW rd \in Readers(Parts), NEW weight \in Nat
  PROVE  LET r     == Counted(rd, weight)
             acked == AckedOf(r)
         IN  /\ r \in Readers(Parts) /\ acked \in Readers(Parts)
             /\ r.streams = rd.streams /\ acked.streams = rd.streams
             /\ r.chunkSize = rd.chunkSize /\ acked.chunkSize = rd.chunkSize
             /\ r.window = rd.window /\ acked.window = rd.window
             /\ r.count = (rd.count + weight) % CountMod /\ acked.count = r.count
             /\ r.lastAck = rd.lastAck
             /\ acked.lastAck = IF AckNeeded(r) THEN (r.lastAck + r.window) % CountMod
                                ELSE r.lastAck
             /\ r.count \in Nat
<1> DEFINE r == Counted(rd, weight)
<1> DEFINE n == (rd.count + weight) % CountMod
<1>1. n \in Nat
  <2>1. rd.count + weight \in Nat
    BY DEF Readers
  <2> QED
    BY <2>1, ModOf, ChunkAssumption
<1> HIDE DEF n
<1>2. r = [rd EXCEPT !.count = n]
  BY DEF Counted, Readers, n
<1>3. /\ r \in Readers(Parts) /\ r.streams = rd.streams /\ r.chunkSize = rd.chunkSize
      /\ r.window = rd.window /\ r.count = n /\ r.lastAck = rd.lastAck
  BY <1>1, <1>2 DEF Readers
<1> HIDE DEF r
<1> DEFINE l == (r.lastAck + r.window) % CountMod
<1>4. l \in Nat
  <2>1. r.lastAck + r.window \in Nat
    BY <1>3 DEF Readers
  <2> QED
    BY <2>1, ModOf, ChunkAssumption
<1> HIDE DEF l
<1>5. Acknowledged(r) = [r EXCEPT !.lastAck = l]
  BY <1>3 DEF Acknowledged, Readers, l
<1> DEFINE a == Acknowledged(r)
<1>6. /\ a \in Readers(Parts) /\ a.streams = r.streams /\ a.chunkSize = r.chunkSize
      /\ a.window = r.window /\ a.count = r.count /\ a.lastAck = l
  BY <1>3, <1>4, <1>5 DEF Readers
<1> HIDE DEF a
<1>7. AckedOf(r) = IF AckNeeded(r) THEN a ELSE r
  BY DEF AckedOf, a
<1>8. /\ AckedOf(r) \in Readers(Parts) /\ AckedOf(r).streams = r.streams
      /\ AckedOf(r).chunkSize = r.chunkSize /\ AckedOf(r).window = r.window
      /\ AckedOf(r).count = r.count
      /\ AckedOf(r).lastAck = IF AckNeeded(r) THEN l ELSE r.lastAck
  BY <1>3, <1>6, <1>7
<1> QED
  BY <1>1, <1>3, <1>8 DEF r, n, l

LEMMA Above ==
  \A x, y \in Nat : y < x => x > 0
  OBVIOUS

LEMMA FaultKeeps ==
  ASSUME LinkInv, NEW e \in Ends, wire[Peer(e)] # <<>>, UNCHANGED choices,
         NEW c, IsFault(e, c), NEW s, s = sent[Peer(e)],
         Refusal(reader[e], c) = "without previous chunk", Back(s, c.cs)
  PROVE  LinkInv'
<1> DEFINE p == Peer(e)
<1>1. /\ refused' = "without previous chunk" /\ UNCHANGED <<sent, received>>
  BY DEF IsFault
<1>2. p \in Ends /\ \A y \in Ends : SoFar(y)
  BY EndsAre DEF LinkInv
<1>3. \A y \in Ends : SoFar(y)'
  BY <1>1, <1>2, SameSoFar DEF choices
<1>4. WentBack
  <2>1. PICK i, k \in DOMAIN s : i < k /\ s[i].cs = c.cs /\ s[k].cs = c.cs /\ s[k].ts < s[i].ts
    BY DEF Back
  <2>2. s[i] \in Messages(Parts) /\ s[k] \in Messages(Parts)
    BY <1>2 DEF SoFar, AllSound, Sound
  <2>3. s[i].ts \in Nat /\ s[k].ts \in Nat
    BY <2>2 DEF Messages
  <2>4. s[i].ts > 0
    BY <2>1, <2>3, Above, Zenon
  <2>5. p = Sender /\ s[i].cs \in {AudioStream, VideoStream}
    BY <1>2, <2>4 DEF SoFar, Timed
  <2>6. s = sent[Sender]
    BY <2>5
  <2> QED
    BY <2>1, <2>5, <2>6 DEF WentBack
<1>5. WentBack'
  <2>1. Sender' = Sender /\ sent' = sent
    BY <1>1 DEF Sender, choices
  <2> QED
    BY <1>4, <2>1 DEF WentBack
<1>6. ~(refused' = "") /\ refused' \notin {"expected type 3 chunk", "body exceeds maximum", "out of step"}
  BY <1>1, Zenon
<1> QED
  BY <1>3, <1>5, <1>6, Zenon DEF LinkInv, Open

LEMMA ReadKeeps ==
  ASSUME LinkInv, NEW e \in Ends, ReadChunk(e)
  PROVE  LinkInv'
<1> DEFINE p == Peer(e)
<1> DEFINE c == Head(wire[p])
<1> DEFINE rd == Read(reader[e], c)
<1> DEFINE r == Counted(rd, Weight(c))
<1> DEFINE a == AckedOf(r)
<1> DEFINE m == Message(a, c)
<1> DEFINE wires == [wire EXCEPT ![p] = Tail(@)]
<1>0. p \in Ends /\ p # e /\ Peer(p) = e /\ Ends = {e, p}
  BY EndsAre
<1>1. /\ Open /\ wire[p] # <<>> /\ UNCHANGED choices
      /\ todo[e] = <<>> \/ Head(todo[e]).do \in {"await", "serve", "detect"}
      /\ ~IsReadable(reader[e], c) => IsFault(e, c)
      /\ IsReadable(reader[e], c) /\ Framed(reader[e], c) => IsReadBy(e, c, r, a, wires)
  BY ReadChunkIs
<1>2. Choices /\ Shapes /\ \A y \in Ends : SoFar(y)
  BY <1>1 DEF LinkInv, Steady
<1>3. PICK h \in [Ends -> 0..6] : \A y \in Ends : Goes(h, y)
  BY <1>1 DEF LinkInv, Steady
<1>4. /\ h[e] \in 0..6 /\ h[p] \in 0..6 /\ Program(e, h[e], todo[e])
      /\ InFlight(h, e) = Puts(e, h[e]) - Gets(p, h[p])
      /\ InFlight(h, p) = Puts(p, h[p]) - Gets(e, h[e])
      /\ Linked(InFlight(h, e), wire[e], writer[e], reader[p], sent[e], received[p])
      /\ Linked(InFlight(h, p), wire[p], writer[p], reader[e], sent[p], received[e])
      /\ h[p] # 6 => sent[p] = <<>>
      /\ Program(p, h[p], todo[p])
  BY <1>3, SteadyIs
<1>5. h[e] = 6 /\ AllSteps(todo[e])
  <2>1. h[e] = 6
    BY <1>1, <1>4, ProgramIsSteps
  <2> QED
    BY <1>4, <2>1, ProgramIsSteps
<1>6. InFlight(h, p) = 0
  <2>1. InFlight(h, p) \in Nat
    BY <1>4 DEF Linked, OnWire
  <2>2. Puts(p, h[p]) \in 0..3 /\ Gets(e, h[e]) = 3
    BY <1>0, <1>4, <1>5, HandshakeCounts
  <2> QED
    BY <1>4, <2>1, <2>2
<1>7. Linked(0, wire[p], writer[p], reader[e], sent[p], received[e])
  BY <1>4, <1>6
<1>8. IsFirstChunk(reader[e], sent[p], received[e], c) /\ reader[e] \in Readers(Parts)
  <2>1. reader[e] \in Readers(Parts)
    BY <1>7 DEF Linked, InStep
  <2> QED
    BY <1>1, <1>7, <2>1, LinkFirst
<1>9. CASE ~IsReadable(reader[e], c)
  <2>1. Refusal(reader[e], c) = "without previous chunk" /\ Back(sent[p], c.cs)
    BY <1>8, <1>9, Zenon DEF IsFirstChunk, IsReadable
  <2> HIDE DEF c
  <2> QED
    BY <1>1, <1>9, <2>1, FaultKeeps
<1>10. CASE IsReadable(reader[e], c)
  <2>1. /\ Framed(reader[e], c) /\ rd \in Readers(Parts)
        /\ rd = [reader[e] EXCEPT !.streams = rd.streams]
        /\ c.body \in Seq(Parts)
    BY <1>8, <1>10, Zenon DEF IsFirstChunk, IsReadable
  <2>2. IsReadBy(e, c, r, a, wires)
    BY <1>1, <1>10, <2>1
  <2>3. Weight(c) \in Nat
    <3> HIDE DEF c
    <3> QED
      BY <2>1 DEF Weight
  <2>4. /\ r \in Readers(Parts) /\ a \in Readers(Parts)
        /\ r.streams = rd.streams /\ a.streams = rd.streams
        /\ a.chunkSize = rd.chunkSize /\ r.count \in Nat
    <3> HIDE DEF rd, c
    <3> QED
      BY <2>1, <2>3, CountedIs
  <2>5. rd.chunkSize = reader[e].chunkSize
    <3> DEFINE x == reader[e]
    <3> DEFINE y == rd.streams
    <3>1. x \in Readers(Parts) /\ rd = [x EXCEPT !.streams = y]
      BY <1>8, <2>1
    <3> HIDE DEF x, y, rd
    <3>2. rd.chunkSize = x.chunkSize
      BY <3>1 DEF Readers
    <3> QED
      BY <3>2 DEF x
  <2>6. Complete(r, c) <=> Complete(a, c)
    <3> HIDE DEF r, a, rd, c
    <3> QED
      BY <2>4 DEF Complete
  <2> DEFINE wi == IF AckNeeded(r) THEN wire[e] \o ChunksOf(writer[e], Acknowledge(r.count))
                   ELSE wire[e]
  <2> DEFINE wr == IF AckNeeded(r) THEN AfterWriting(Written(writer[e], Acknowledge(r.count)),
                                                     Acknowledge(r.count)) ELSE writer[e]
  <2> DEFINE se == IF AckNeeded(r) THEN Append(sent[e], Acknowledge(r.count)) ELSE sent[e]
  <2>7. /\ wire'[e] = wi /\ wire'[p] = Tail(wire[p])
        /\ writer'[e] = wr /\ writer'[p] = writer[p]
        /\ sent'[e] = se /\ sent'[p] = sent[p]
        /\ wire' = [y \in Ends |-> wire'[y]] /\ writer' = [y \in Ends |-> writer'[y]]
        /\ sent' = [y \in Ends |-> sent'[y]]
    <3> HIDE DEF r, c
    <3>1. CASE AckNeeded(r)
      <4>1. /\ wire' = [wires EXCEPT ![e] = @ \o ChunksOf(writer[e], Acknowledge(r.count))]
            /\ writer' = [writer EXCEPT ![e] = AfterWriting(Written(@, Acknowledge(r.count)),
                                                            Acknowledge(r.count))]
            /\ sent' = [sent EXCEPT ![e] = Append(@, Acknowledge(r.count))]
        BY <2>2, <3>1 DEF IsReadBy, Writes
      <4> QED
        BY <1>0, <1>2, <3>1, <4>1 DEF Shapes
    <3>2. CASE ~AckNeeded(r)
      <4>1. wire' = wires /\ UNCHANGED <<writer, sent>>
        BY <2>2, <3>2 DEF IsReadBy
      <4> QED
        BY <1>0, <1>2, <3>2, <4>1 DEF Shapes
    <3> QED
      BY <3>1, <3>2
  <2>8. Sound(Acknowledge(r.count)) /\ Acknowledge(r.count).ts = 0
    <3> HIDE DEF r
    <3> QED
      BY <2>4, AcknowledgeIsSound
  <2>9. /\ Linked(InFlight(h, e), wi, wr, reader[p], se, received[p])
        /\ AllSound(se) /\ Timed(e, se)
    <3> HIDE DEF r
    <3> DEFINE k == Acknowledge(r.count)
    <3>1. Sound(k) /\ ~(k.ts > 0)
      BY <2>8
    <3> HIDE DEF k
    <3>2. Linked(InFlight(h, e), wire[e] \o ChunksOf(writer[e], k),
                 AfterWriting(Written(writer[e], k), k), reader[p], Append(sent[e], k),
                 received[p])
      BY <1>4, <3>1, LinkWrites
    <3>3. Timed(e, sent[e]) /\ AllSound(sent[e])
      BY <1>2 DEF SoFar
    <3>4. Timed(e, Append(sent[e], k))
      BY <3>1, <3>3, TimedGrows
    <3>5. AllSound(Append(sent[e], k))
      BY <3>2 DEF Linked
    <3> QED
      BY <1>4, <3>2, <3>3, <3>4, <3>5 DEF k
  <2> HIDE DEF wi, wr, se
  <2>10. /\ Linked(0, Tail(wire[p]), writer[p], reader'[e], sent[p], received'[e])
         /\ reader'[p] = reader[p] /\ received'[p] = received[p]
         /\ reader' = [y \in Ends |-> reader'[y]] /\ received' = [y \in Ends |-> received'[y]]
         /\ GoesOn(e)
    <3>1. CASE Complete(r, c)
      <4> HIDE DEF r, a, m
      <4> DEFINE rd2 == Applied(Taken(a, c), m)
      <4>1. /\ reader' = [reader EXCEPT ![e] = rd2]
            /\ received' = [received EXCEPT ![e] = Append(@, m)] /\ Handled(e, m)
        BY <2>2, <3>1 DEF IsReadBy, m
      <4> HIDE DEF rd2
      <4>2. /\ reader'[e] = rd2 /\ reader'[p] = reader[p]
            /\ received'[e] = Append(received[e], m) /\ received'[p] = received[p]
            /\ reader' = [y \in Ends |-> reader'[y]]
            /\ received' = [y \in Ends |-> received'[y]]
        BY <1>0, <1>2, <4>1 DEF Shapes
      <4>3. /\ IsReceived(m, sent[p][Len(received[e]) + 1], rd2)
            /\ Linked(0, Tail(wire[p]), writer[p], rd2, sent[p], Append(received[e], m))
        <5>1. Complete(a, c)
          BY <2>6, <3>1
        <5> DEFINE x == wire[p]
        <5>2. /\ Linked(0, x, writer[p], reader[e], sent[p], received[e]) /\ x # <<>>
              /\ IsReadable(reader[e], Head(x)) /\ a \in Readers(Parts)
              /\ a.streams = Read(reader[e], Head(x)).streams
              /\ a.chunkSize = reader[e].chunkSize
              /\ Complete(a, Head(x)) /\ m = Message(a, Head(x))
              /\ rd2 = Applied(Taken(a, Head(x)), m)
          BY <1>1, <1>7, <1>10, <2>4, <2>5, <5>1 DEF m, rd2
        <5> HIDE DEF x
        <5>3. /\ IsReceived(m, sent[p][Len(received[e]) + 1], rd2)
              /\ Linked(0, Tail(x), writer[p], rd2, sent[p], Append(received[e], m))
          BY <5>2, LinkReadsLast
        <5> QED
          BY <5>3 DEF x
      <4>4. Sound(m)
        BY <4>3 DEF IsReceived
      <4>5. GoesOn(e)
        BY <1>1, <1>2, <1>5, <4>1, <4>4, HandledGoesOn
      <4> QED
        BY <4>2, <4>3, <4>5
    <3>2. CASE ~Complete(r, c)
      <4> HIDE DEF r, a
      <4>1. /\ reader' = [reader EXCEPT ![e] = a]
            /\ UNCHANGED <<todo, found, received, refused>>
        BY <2>2, <3>2 DEF IsReadBy
      <4>2. /\ reader'[e] = a /\ reader'[p] = reader[p]
            /\ received'[e] = received[e] /\ received'[p] = received[p]
            /\ reader' = [y \in Ends |-> reader'[y]]
            /\ received' = [y \in Ends |-> received'[y]]
        BY <1>0, <1>2, <4>1 DEF Shapes
      <4>3. Linked(0, Tail(wire[p]), writer[p], a, sent[p], received[e])
        <5>1. ~Complete(a, c)
          BY <2>6, <3>2
        <5> DEFINE x == wire[p]
        <5>2. /\ Linked(0, x, writer[p], reader[e], sent[p], received[e]) /\ x # <<>>
              /\ IsReadable(reader[e], Head(x)) /\ a \in Readers(Parts)
              /\ a.streams = Read(reader[e], Head(x)).streams
              /\ a.chunkSize = reader[e].chunkSize
              /\ ~Complete(a, Head(x))
          BY <1>1, <1>7, <1>10, <2>4, <2>5, <5>1
        <5> HIDE DEF x
        <5>3. Linked(0, Tail(x), writer[p], a, sent[p], received[e])
          BY <5>2, LinkReadsOn
        <5> QED
          BY <5>3 DEF x
      <4>4. GoesOn(e)
        <5>1. todo' = todo /\ Fine(refused')
          BY <1>1, <4>1, FineAre, Zenon DEF Open
        <5> QED
          BY <1>2, <1>5, <5>1, TodoStays
      <4> QED
        BY <4>2, <4>3, <4>4
    <3> QED
      BY <3>1, <3>2
  <2>11. Goes(h, e)'
    <3>1. Program(e, 6, todo'[e])
      BY <2>10, ProgramIsSteps DEF GoesOn
    <3> QED
      BY <1>0, <1>5, <2>7, <2>9, <2>10, <3>1 DEF Goes, InFlight
  <2>12. Goes(h, p)'
    BY <1>0, <1>4, <1>6, <2>7, <2>10 DEF Goes, InFlight, GoesOn
  <2>13. Shapes'
    BY <2>7, <2>10 DEF Shapes, GoesOn
  <2>14. Sender' = Sender /\ Choices'
    BY <1>1, <1>2, SameChoices
  <2>15. Steady'
    <3>1. \A y \in Ends : Goes(h, y)'
      BY <1>0, <2>11, <2>12
    <3> QED
      BY <2>13, <2>14, <3>1 DEF Steady
  <2>16. SoFar(e)'
    <3>1. Arrived(received[p], se)
      BY <2>9 DEF Linked
    <3> QED
      BY <2>7, <2>9, <2>10, <2>14, <3>1 DEF SoFar, Timed
  <2>17. SoFar(p)'
    <3>1. Arrived(received'[e], sent[p])
      BY <2>10 DEF Linked
    <3> QED
      BY <1>0, <1>2, <2>7, <2>14, <3>1 DEF SoFar, Timed
  <2>18. \A y \in Ends : SoFar(y)'
    BY <1>0, <2>16, <2>17
  <2>19. Fine(refused')
    BY <2>10 DEF GoesOn
  <2> QED
    BY <2>15, <2>18, <2>19, Zenon DEF LinkInv, Fine
<1> QED
  BY <1>9, <1>10

-----------------------------------------------------------------------------
LEMMA LinkNextKeeps ==
  ASSUME LinkInv, [Next]_vars
  PROVE  LinkInv'
<1>1. ASSUME NEW e \in Ends, PutPart(e)
      PROVE  LinkInv'
  BY <1>1, PutKeeps
<1>2. ASSUME NEW e \in Ends, GetPart(e)
      PROVE  LinkInv'
  BY <1>2, GetKeeps
<1>3. ASSUME NEW e \in Ends, WriteMessage(e)
      PROVE  LinkInv'
  BY <1>3, WriteKeeps
<1>4. ASSUME NEW e \in Ends, ReadChunk(e)
      PROVE  LinkInv'
  BY <1>4, ReadKeeps
<1>5. CASE WriteUnit
  BY <1>5, UnitKeeps
<1>6. CASE UNCHANGED vars
  <2>1. UNCHANGED <<publish, tracks, late, announced, wire, writer, reader, todo, found, sent,
                    received, refused>>
    BY <1>6 DEF vars, choices
  <2>2. Open' = Open /\ Choices' = Choices /\ Shapes' = Shapes /\ WentBack' = WentBack
    BY <2>1 DEF Open, Choices, Shapes, WentBack, Sender
  <2>3. \A e \in Ends : SoFar(e)
    BY DEF LinkInv
  <2>4. \A e \in Ends : SoFar(e)'
    BY <2>1, <2>3, SameSoFar
  <2>5. Steady => Steady'
    BY <2>1, <2>2 DEF Steady, Goes, InFlight
  <2> QED
    BY <2>1, <2>2, <2>4, <2>5, Zenon DEF LinkInv
<1> QED
  BY <1>1, <1>2, <1>3, <1>4, <1>5, <1>6 DEF Next

(* Both ends read what the other wrote, for every size of a chunk, every window and every
   sequence of messages: however the messages are cut, and whatever the headers leave
   out, the reader does not lose its place (rtmp/rawmessage/reader.go, writer.go). *)
THEOREM LinkMessagesArrive == Spec => []MessagesArrive
<1>1. Init => LinkInv
  BY LinkInit
<1>2. LinkInv /\ [Next]_vars => LinkInv'
  BY LinkNextKeeps
<1>3. LinkInv => MessagesArrive
  <2> SUFFICES ASSUME LinkInv PROVE MessagesArrive
    OBVIOUS
  <2>1. ASSUME NEW e \in Ends
        PROVE  /\ Len(received[e]) <= Len(sent[Peer(e)])
               /\ \A i \in DOMAIN received[e] : SameMessage(received[e][i], sent[Peer(e)][i])
    <3>1. Peer(e) \in Ends /\ Peer(Peer(e)) = e
      BY EndsAre
    <3>2. Arrived(received[e], sent[Peer(e)])
      BY <3>1 DEF LinkInv, SoFar
    <3> QED
      BY <3>2 DEF Arrived
  <2>2. refused \notin {"expected type 3 chunk", "body exceeds maximum", "out of step"}
    BY Zenon DEF LinkInv
  <2> QED
    BY <2>1, <2>2 DEF MessagesArrive
<1> QED
  BY <1>1, <1>2, <1>3, PTL DEF Spec
=============================================================================
