----------------------------- MODULE RecordFMP4 ------------------------------
(***************************************************************************)
(* What a record agent writes to disk in fMP4 format                       *)
(* (record/rec_format_fmp4*.go): each track keeps its last sample until the*)
(* next one tells how long it lasts; samples are gathered in parts, parts  *)
(* are appended to the file of a segment, and segments are rotated. A file *)
(* starts with the parameters of the codecs, written with its first part.  *)
(*                                                                         *)
(* All of it runs in the goroutine of the agent's writer, one unit at a    *)
(* time, and in the agent's own once that has ended. Every operation on a  *)
(* file may fail; the agent gives up at the first error it looks at.       *)
(***************************************************************************)
EXTENDS Integers, Sequences, SequencesExt

CONSTANTS
  Tracks,
  Video,            \* the tracks whose codec is a video codec
  PartDuration,
  SegmentDuration,
  Gaps,             \* the distances between two samples of a track
  MaxSamples,       \* bound on the samples received
  MaxVersion        \* bound on the changes of the codec parameters

VARIABLES
  received,            \* every sample that reached record(), in order
  version,             \* how many times codec parameters were set
  nextSample,          \* of a track: its index in received, 0 for none
  hasVideo,
  currentSegment,
  nextSequenceNumber,
  files,               \* every file created
  clean,               \* no operation on a file has failed
  agent

writing == <<currentSegment, nextSequenceNumber, files, clean>>
vars    == <<received, version, nextSample, hasVideo, writing, agent>>

(* Times start from 1. *)
NoSegment == [startDTS |-> 0, file |-> 0, part |-> <<>>, number |-> 0]

Init ==
  /\ received = <<>>
  /\ version = 1
  /\ nextSample = [t \in Tracks |-> 0]
  /\ hasVideo = FALSE
  /\ currentSegment = NoSegment
  /\ nextSequenceNumber = 0
  /\ files = <<>>
  /\ clean = TRUE
  /\ agent = "recording"
-----------------------------------------------------------------------------
(* Each operation below takes what is being written, with whether the last call
   returned no error, and gives what may come of it. *)
Writing == [segment |-> currentSegment, number |-> nextSequenceNumber,
            files |-> files, clean |-> clean, ok |-> TRUE]

Becomes(w) ==
  /\ currentSegment' = w.segment
  /\ nextSequenceNumber' = w.number
  /\ files' = w.files
  /\ clean' = w.clean

Failing(w) == [w EXCEPT !.ok = FALSE, !.clean = FALSE]

DTS(i) == received'[i].dts

(* A segment that starts at sample i. *)
NewSegment(i) == [NoSegment EXCEPT !.startDTS = DTS(i)]

(* os.Create, onSegmentCreate and writeInit: the directory or the file may not be
   created, or the parameters not written and the file closed. *)
CreateFile(w) ==
  LET file(open) == Append(w.files, [init |-> version', parts |-> <<>>,
                                     open |-> open, completed |-> 0])
  IN IF w.segment.file # 0 THEN {w}
     ELSE {Failing(w), Failing([w EXCEPT !.files = file(FALSE)]),
           [w EXCEPT !.files = file(TRUE), !.segment.file = Len(w.files) + 1]}

(* A file that was closed cannot be written. *)
WritePart(w) ==
  LET f == w.segment.file
      part == [number |-> w.segment.number, samples |-> w.segment.part]
  IN CASE ~w.ok -> {w}
       [] w.ok /\ ~w.files[f].open -> {Failing(w)}
       [] OTHER -> {Failing(w), [w EXCEPT !.files[f].parts = Append(@, part)]}

ClosePart(w) == UNION {WritePart(c) : c \in CreateFile(w)}

(* Closing a file a second time is an error. *)
CloseFile(w) ==
  LET f == w.segment.file
  IN IF f = 0 THEN {w}
     ELSE {Failing([w EXCEPT !.files[f].open = FALSE])} \cup
          IF w.files[f].open
            THEN {[w EXCEPT !.files[f].open = FALSE, !.files[f].completed = @ + 1]}
            ELSE {}

CloseSegment(w) ==
  UNION {CloseFile(c) : c \in IF w.segment.part = <<>> THEN {w} ELSE ClosePart(w)}

(* Mutant: the segment goes on, whatever its parameters. *)
KeepSegment(w) == {w}

(* updateCodecs: what the segment has on disk has other parameters. It does not
   look at errors. *)
UpdateCodecs(w) ==
  IF w.segment.file = 0 THEN {w}
  ELSE {[c EXCEPT !.segment = NoSegment, !.ok = TRUE] : c \in CloseSegment(w)}

Duration(part) == DTS(part[Len(part)]) - DTS(part[1])

StartPart(w, i) ==
  [w EXCEPT !.segment.part = <<i>>, !.segment.number = w.number, !.number = @ + 1]

(* The segment records sample i: a part that is long enough is written first. *)
SegmentRecord(w, i) ==
  LET part == w.segment.part
      rid(c) == [c EXCEPT !.segment.part = <<>>]
  IN CASE part = <<>> -> {StartPart(w, i)}
       [] part # <<>> /\ Duration(part) >= PartDuration ->
            {IF c.ok THEN StartPart(c, i) ELSE rid(c) : c \in ClosePart(w)}
       [] OTHER -> {[w EXCEPT !.segment.part = Append(@, i)]}

(* The track has received sample i. *)
Rotates(w, t, i) ==
  /\ ~hasVideo' \/ t \in Video
  /\ received'[i].sync
  /\ DTS(i) - w.segment.startDTS >= SegmentDuration

Rotate(w, i) ==
  {IF c.ok THEN [c EXCEPT !.segment = NewSegment(i)] ELSE c : c \in CloseSegment(w)}

(* Mutant: the sample just received is recorded, and not the one before. *)
RecordAtOnce(w, t, i) ==
  LET s == IF w.segment = NoSegment THEN [w EXCEPT !.segment = NewSegment(i)] ELSE w
  IN IF nextSample[t] = 0 THEN {s} ELSE SegmentRecord(s, i)

(* record(): the sample before i of that track is now known to last until i. *)
TrackRecord(w, t, i) ==
  LET s == IF w.segment = NoSegment THEN [w EXCEPT !.segment = NewSegment(i)] ELSE w
  IN IF nextSample[t] = 0 THEN {s}
     ELSE UNION {IF c.ok /\ Rotates(c, t, i) THEN Rotate(c, i) ELSE {c} :
                   c \in SegmentRecord(s, nextSample[t])}
-----------------------------------------------------------------------------
LastDTS(t) == IF nextSample[t] = 0 THEN 1 ELSE received[nextSample[t]].dts

(* A unit becomes a sample of track t and is recorded, after its parameters, if
   it has new ones. Units of several samples are as many steps. *)
Record(t, sync, new) ==
  LET i == Len(received) + 1
  IN /\ i <= MaxSamples
     /\ version' = IF new THEN version + 1 ELSE version
     /\ \E gap \in Gaps :
          received' = Append(received, [track |-> t, dts |-> LastDTS(t) + gap,
                                        sync |-> sync, version |-> version'])
     /\ hasVideo' = (hasVideo \/ t \in Video)
     /\ nextSample' = [nextSample EXCEPT ![t] = i]
     /\ \E u \in IF new THEN UpdateCodecs(Writing) ELSE {Writing} :
        \E w \in TrackRecord(u, t, i) :
          /\ Becomes(w)
          /\ agent' = IF w.ok THEN agent ELSE "failed"

(* The first sample of a video track is one that decoding can start from. *)
VideoUnit(t) ==
  /\ agent = "recording" /\ t \in Video
  /\ \E sync, new \in BOOLEAN :
       /\ nextSample[t] = 0 => sync
       /\ new => version < MaxVersion
       /\ Record(t, sync, new)

(* Some audio codecs tell their parameters with their first sample. *)
AudioUnit(t) ==
  /\ agent = "recording" /\ t \in Tracks \ Video
  /\ \E new \in BOOLEAN :
       /\ new => nextSample[t] = 0 /\ version < MaxVersion
       /\ Record(t, TRUE, new)

(* A video unit that comes before the first to be recorded, or a unit that is not
   valid, may have set parameters all the same. *)
UnrecordedUnit(t) ==
  /\ agent = "recording"
  /\ \/ t \in Video /\ nextSample[t] = 0 /\ UNCHANGED agent
     \/ agent' = "failed"
  /\ \/ UNCHANGED <<version, writing>>
     \/ /\ version < MaxVersion /\ version' = version + 1
        /\ \E w \in UpdateCodecs(Writing) : Becomes(w)
  /\ UNCHANGED <<received, nextSample, hasVideo>>

(* The writer failed with the error of a callback, or the agent is closed. *)
Close ==
  /\ agent # "done"
  /\ agent' = "done"
  /\ UNCHANGED <<received, version, nextSample, hasVideo>>
  /\ \E w \in IF currentSegment = NoSegment THEN {Writing} ELSE CloseSegment(Writing) :
       Becomes(w)

Next == (\E t \in Tracks : VideoUnit(t) \/ AudioUnit(t) \/ UnrecordedUnit(t)) \/ Close

Spec == Init /\ [][Next]_vars
-----------------------------------------------------------------------------
(* Of two samples of one track, i is the first. *)
Earlier(i, j) == received[i].track = received[j].track => i < j

InOrder(samples) == \A k, l \in DOMAIN samples : k < l => Earlier(samples[k], samples[l])

Part(f, p) == files[f].parts[p]

OnDisk == UNION {Range(part.samples) : part \in UNION {Range(file.parts) : file \in Range(files)}}

(* Whatever happens, a sample is on disk at most once, a track's samples are in
   the order in which they came, and so are the numbers of the parts. And unless
   a file could not be written nothing is missing: all the samples of a track but
   the last, which waits for the next one, are on disk or in the current part. *)
NothingLost ==
  /\ \A f, g \in DOMAIN files : \A p \in DOMAIN files[f].parts, q \in DOMAIN files[g].parts :
       /\ InOrder(Part(f, p).samples)
       /\ f < g \/ (f = g /\ p < q) =>
            /\ Part(f, p).number < Part(g, q).number
            /\ \A i \in Range(Part(f, p).samples), j \in Range(Part(g, q).samples) : Earlier(i, j)
  /\ clean =>
       LET waiting == IF agent = "done" THEN <<>> ELSE currentSegment.part
       IN /\ OnDisk \cup Range(waiting)
               = {i \in DOMAIN received : i # nextSample[received[i].track]}
          /\ InOrder(waiting)
          /\ \A i \in OnDisk, j \in Range(waiting) : Earlier(i, j)

(* A file is open only while it is the current segment's, and never once the agent
   is done. Who was told that a file is complete was told once, and after it was
   closed; and unless something failed everybody is told. *)
FilesAreFinished ==
  \A f \in DOMAIN files :
    /\ files[f].open => agent # "done" /\ currentSegment.file = f
    /\ files[f].completed <= 1
    /\ files[f].open => files[f].completed = 0
    /\ clean /\ ~files[f].open => files[f].completed = 1

(* No file holds a sample that needs newer codec parameters than those it starts
   with: a player could not decode it. *)
ParametersOfInit ==
  \A f \in Range(files) : \A p \in Range(f.parts) : \A i \in Range(p.samples) :
    received[i].version <= f.init
=============================================================================
