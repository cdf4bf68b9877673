----------------------------- MODULE RtmpChunks ------------------------------
(***************************************************************************)
(* How messages become chunks and chunks messages again (rtmp/rawmessage,  *)
(* rtmp/chunk). A chunk of type 0 carries the whole header of a message;   *)
(* types 1, 2 and 3 leave out what is as in the message before on the same *)
(* chunk stream, so both ends keep that message, each its own way: the     *)
(* writer knows a difference of times as soon as it has two, the reader    *)
(* forgets it with every chunk of type 0.                                  *)
(*                                                                         *)
(* A message is a record of type, cs (its chunk stream), sid (its message  *)
(* stream), ts (milliseconds), and body. A chunk weighs its body and one.  *)
(***************************************************************************)
EXTENDS Integers, Sequences

CONSTANTS
  ChunkStreams,
  TimeMod,         \* the times in a header have 24 bits
  CountMod,        \* bytes are counted in 32 bits
  MaxBodySize,
  InitialChunkSize

ASSUME ChunkAssumption ==
  /\ TimeMod \in Nat \ {0} /\ CountMod \in Nat \ {0}
  /\ MaxBodySize \in Nat /\ InitialChunkSize \in 1..MaxBodySize

Least(a, b) == IF a < b THEN a ELSE b

(* A time difference that is not there. *)
None == -1

(* writerChunkStream and Writer: the last message of every chunk stream. *)
NewWriter ==
  [chunkSize |-> InitialChunkSize,
   streams   |-> [cs \in ChunkStreams |->
                    [fresh |-> TRUE, sid |-> 0, type |-> "", len |-> 0, ts |-> 0,
                     delta |-> None]]]

(* Only a positive difference can be written. *)
Delta(w, m) ==
  LET s == w.streams[m.cs] IN IF s.fresh \/ m.ts < s.ts THEN None ELSE m.ts - s.ts

FirstHead(w, m) ==
  LET s     == w.streams[m.cs]
      delta == Delta(w, m)
      len   == Len(m.body)
  IN CASE delta = None \/ s.sid # m.sid ->
            [fmt |-> 0, ts |-> m.ts % TimeMod, type |-> m.type, sid |-> m.sid, len |-> len]
       [] delta # None /\ s.sid = m.sid /\ (s.type # m.type \/ s.len # len) ->
            [fmt |-> 1, delta |-> delta % TimeMod, type |-> m.type, len |-> len]
       [] OTHER -> IF s.delta # delta THEN [fmt |-> 2, delta |-> delta % TimeMod]
                   ELSE [fmt |-> 3]

(* writeMessage: a first chunk, and chunks of type 3 for what is left. *)
ChunksOf(w, m) ==
  LET size == w.chunkSize
      n    == IF m.body = <<>> THEN 1 ELSE (Len(m.body) + size - 1) \div size
  IN [i \in 1..n |->
        [cs   |-> m.cs,
         head |-> IF i = 1 THEN FirstHead(w, m) ELSE [fmt |-> 3],
         body |-> SubSeq(m.body, (i - 1) * size + 1, Least(i * size, Len(m.body)))]]

Written(w, m) ==
  [w EXCEPT !.streams[m.cs] =
     [fresh |-> FALSE, sid |-> m.sid, type |-> m.type, len |-> Len(m.body), ts |-> m.ts,
      delta |-> IF Delta(w, m) = None THEN @.delta ELSE Delta(w, m)]]

-----------------------------------------------------------------------------
(* readerChunkStream and Reader. *)
NewReader ==
  [chunkSize |-> InitialChunkSize, window |-> 0, count |-> 0, lastAck |-> 0,
   streams   |-> [cs \in ChunkStreams |->
                    [started |-> FALSE, ts |-> 0, type |-> "", sid |-> 0, len |-> 0,
                     body |-> <<>>, delta |-> None]]]

Weight(c) == Len(c.body) + 1

(* The bytes of one more chunk were read. More than a window of them since the last
   acknowledgement, and there is another. *)
Counted(r, weight) == [r EXCEPT !.count = (@ + weight) % CountMod]

(* Mutant: as late as a writer that checks accepts. *)
AckNeededLate(r) ==
  r.window # 0 /\ (r.count - r.lastAck) % CountMod > (r.window * 3) \div 2

AckNeeded(r) == r.window # 0 /\ (r.count - r.lastAck) % CountMod > r.window

Acknowledged(r) == [r EXCEPT !.lastAck = (@ + r.window) % CountMod]

(* Why a chunk cannot be read where it stands, "" if it can. *)
Refusal(r, c) ==
  LET s   == r.streams[c.cs]
      fmt == c.head.fmt
  IN CASE fmt # 3 /\ s.body # <<>> -> "expected type 3 chunk"
       [] fmt \in {1, 2} /\ ~s.started -> "without previous chunk"
       [] fmt = 3 /\ s.body = <<>> /\ s.delta = None -> "without previous chunk"
       [] fmt \in {0, 1} /\ c.head.len > MaxBodySize -> "body exceeds maximum"
       [] OTHER -> ""

(* Mutant: a difference of times that comes with a length is not kept. *)
HeadedAnew(s, h) ==
  CASE h.fmt = 0 -> [s EXCEPT !.started = TRUE, !.ts = h.ts, !.type = h.type, !.sid = h.sid,
                              !.len = h.len, !.delta = None]
    [] h.fmt = 1 -> [s EXCEPT !.ts = @ + h.delta, !.type = h.type, !.len = h.len]
    [] h.fmt = 2 -> [s EXCEPT !.ts = @ + h.delta, !.delta = h.delta]
    [] OTHER     -> IF s.body # <<>> THEN s ELSE [s EXCEPT !.ts = @ + s.delta]

(* What the header of a chunk, or its absence, says of the message. *)
Headed(s, h) ==
  CASE h.fmt = 0 -> [s EXCEPT !.started = TRUE, !.ts = h.ts, !.type = h.type, !.sid = h.sid,
                              !.len = h.len, !.delta = None]
    [] h.fmt = 1 -> [s EXCEPT !.ts = @ + h.delta, !.type = h.type, !.len = h.len,
                              !.delta = h.delta]
    [] h.fmt = 2 -> [s EXCEPT !.ts = @ + h.delta, !.delta = h.delta]
    [] OTHER     -> IF s.body # <<>> THEN s ELSE [s EXCEPT !.ts = @ + s.delta]

(* The body of a chunk is as long as the reader thinks it is: if the writer cut it
   otherwise, what follows is not the start of a chunk. *)
Framed(r, c) ==
  LET s == Headed(r.streams[c.cs], c.head)
  IN Len(c.body) = Least(s.len - Len(s.body), r.chunkSize)

Read(r, c) ==
  LET s == Headed(r.streams[c.cs], c.head)
  IN [r EXCEPT !.streams[c.cs] = [s EXCEPT !.body = @ \o c.body]]

(* The message that c completed, and the reader without its fragments. *)
Complete(r, c) == Len(r.streams[c.cs].body) = r.streams[c.cs].len

Message(r, c) ==
  LET s == r.streams[c.cs]
  IN [type |-> s.type, cs |-> c.cs, sid |-> s.sid, ts |-> s.ts, body |-> s.body]

Taken(r, c) == [r EXCEPT !.streams[c.cs].body = <<>>]
=============================================================================
