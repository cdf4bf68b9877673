---------------------------- MODULE RecordMPEGTS -----------------------------
(***************************************************************************)
(* What a record agent writes to disk in MPEG-TS format                    *)
(* (record/rec_format_mpegts.go, rec_format_mpegts_segment.go). Samples are*)
(* multiplexed into a buffer, one for the whole life of the agent; the     *)
(* buffer is emptied into the file of the current segment when a part is   *)
(* over, when the segment is, or when it is full. The file is created with *)
(* the first bytes that reach it. Once a write has failed, every later     *)
(* one does.                                                               *)
(*                                                                         *)
(* AC-3 is written without a segment being set up for it. A buffer that is *)
(* full before there is any segment has nowhere to go, and the program     *)
(* ends (dynamicWriter has a nil target).                                  *)
(***************************************************************************)
EXTENDS Integers, Sequences, SequencesExt

CONSTANTS
  Tracks,
  Video,            \* the tracks whose codec is a video codec
  AC3,              \* those whose codec is AC-3
  PartDuration,
  SegmentDuration,
  Gaps,             \* the distances between two samples of a track
  BufferSize,       \* how many samples fill the buffer, at most
  MaxSamples        \* bound on the samples received

VARIABLES
  received,            \* the track, time and kind of every sample, in order
  hasVideo,
  currentSegment,
  buffer,              \* the samples the buffer holds
  broken,              \* the buffer has seen a write fail
  files,               \* every file created
  clean,               \* no operation on a file has failed
  agent

writing == <<currentSegment, buffer, broken, files, clean>>
vars    == <<received, hasVideo, writing, agent>>

(* Times start from 1. *)
NoSegment == [startDTS |-> 0, lastFlush |-> 0, file |-> 0]

Init ==
  /\ received = <<>>
  /\ hasVideo = FALSE
  /\ currentSegment = NoSegment
  /\ buffer = <<>>
  /\ broken = FALSE
  /\ files = <<>>
  /\ clean = TRUE
  /\ agent = "recording"
-----------------------------------------------------------------------------
(* Each operation takes what is being written, with whether the last call returned
   no error, and gives what may come of it. *)
Writing == [segment |-> currentSegment, buffer |-> buffer, broken |-> broken,
            files |-> files, clean |-> clean, ok |-> TRUE, panic |-> FALSE]

Becomes(w) ==
  /\ currentSegment' = w.segment
  /\ buffer' = w.buffer
  /\ broken' = w.broken
  /\ files' = w.files
  /\ clean' = w.clean

Failing(w) == [w EXCEPT !.ok = FALSE, !.clean = FALSE]
Breaking(w) == [Failing(w) EXCEPT !.broken = TRUE]

DTS(i) == received'[i].dts

NewSegment(i) == [startDTS |-> DTS(i), lastFlush |-> DTS(i), file |-> 0]

(* Write of the segment: its directory or its file may not be created. *)
CreateFile(w) ==
  IF w.segment.file # 0 THEN {w}
  ELSE {Breaking(w),
        [w EXCEPT !.files = Append(@, [samples |-> <<>>, open |-> TRUE, completed |-> 0]),
                  !.segment.file = Len(w.files) + 1]}

WriteBuffer(w) ==
  IF ~w.ok \/ w.broken THEN {w}
  ELSE {Breaking(w),
        [w EXCEPT !.files[w.segment.file].samples = @ \o w.buffer, !.buffer = <<>>]}

(* bufio.Writer.Flush. *)
Flush(w) ==
  CASE w.panic -> {w}
    [] ~w.panic /\ w.broken -> {Failing(w)}
    [] ~w.panic /\ ~w.broken /\ w.buffer = <<>> -> {w}
    [] OTHER -> IF w.segment = NoSegment THEN {[w EXCEPT !.panic = TRUE, !.ok = FALSE]}
                ELSE UNION {WriteBuffer(c) : c \in CreateFile(w)}

Push(w, i) == [w EXCEPT !.buffer = Append(@, i)]

(* mw.Write...: the bytes of a sample fit in the buffer, or it is emptied before
   they do or with them. *)
WriteSample(w, i) ==
  CASE ~w.ok -> {w}
    [] w.ok /\ w.broken -> {Failing(w)}
    [] OTHER ->
         (IF Len(w.buffer) < BufferSize THEN {Push(w, i)} ELSE {})
         \cup Flush(Push(w, i))
         \cup {IF c.ok THEN Push(c, i) ELSE c : c \in Flush(w)}

(* Whoever listens is told whenever the file closes, whatever became of the
   buffer. Closing a file a second time is an error. *)
CloseFile(w) ==
  LET f == w.segment.file
  IN IF f = 0 THEN {w}
     ELSE {Failing([w EXCEPT !.files[f].open = FALSE])} \cup
          IF w.files[f].open
            THEN {[w EXCEPT !.files[f].open = FALSE, !.files[f].completed = @ + 1]}
            ELSE {}

CloseSegment(w) == UNION {CloseFile(c) : c \in Flush(w)}

(* Mutant: the target changes, the file of the segment before stays open. *)
SwitchSegment(w, i) ==
  {IF c.ok THEN [c EXCEPT !.segment = NewSegment(i)] ELSE c : c \in Flush(w)}

Rotate(w, i) ==
  {IF c.ok THEN [c EXCEPT !.segment = NewSegment(i)] ELSE c : c \in CloseSegment(w)}

FlushPart(w, i) ==
  {IF c.ok THEN [c EXCEPT !.segment.lastFlush = DTS(i)] ELSE c : c \in Flush(w)}

SetupSegment(w, t, i) ==
  LET s == w.segment
  IN CASE s = NoSegment -> {[w EXCEPT !.segment = NewSegment(i)]}
       [] s # NoSegment /\ (~hasVideo' \/ t \in Video) /\ received'[i].sync
            /\ DTS(i) - s.startDTS >= SegmentDuration -> Rotate(w, i)
       [] OTHER -> IF DTS(i) - s.lastFlush >= PartDuration THEN FlushPart(w, i) ELSE {w}
-----------------------------------------------------------------------------
LastDTS(t) ==
  LET own == {i \in DOMAIN received : received[i].track = t}
  IN IF own = {} THEN 1 ELSE received[Max(own)].dts

(* A unit of track t becomes a sample and is written. *)
Sample(t, sync, setup) ==
  LET i == Len(received) + 1
  IN /\ agent = "recording" /\ i <= MaxSamples
     /\ \E gap \in Gaps :
          received' = Append(received, [track |-> t, dts |-> LastDTS(t) + gap, sync |-> sync])
     /\ hasVideo' = (hasVideo \/ t \in Video)
     /\ \E s \in IF setup THEN SetupSegment(Writing, t, i) ELSE {Writing} :
        \E w \in WriteSample(s, i) :
          /\ Becomes(w)
          /\ agent' = CASE w.panic -> "panicked"
                        [] ~w.panic /\ w.ok -> agent
                        [] OTHER -> "failed"

(* Any sample may be one that decoding can start from; with H.264 and H.265 the
   first is, with MPEG-4 and MPEG-1 it need not be. *)
VideoUnit(t) == t \in Video /\ \E sync \in BOOLEAN : Sample(t, sync, TRUE)

AudioUnit(t) == t \in Tracks \ (Video \cup AC3) /\ Sample(t, TRUE, TRUE)

AC3Unit(t) == t \in AC3 /\ Sample(t, TRUE, FALSE)

(* A unit that is not valid. *)
InvalidUnit ==
  /\ agent = "recording"
  /\ agent' = "failed"
  /\ UNCHANGED <<received, hasVideo, writing>>

(* The writer failed with the error of a callback, or the agent is closed. *)
Close ==
  /\ agent \in {"recording", "failed"}
  /\ agent' = "done"
  /\ UNCHANGED <<received, hasVideo>>
  /\ \E w \in IF currentSegment = NoSegment THEN {Writing} ELSE CloseSegment(Writing) :
       Becomes(w)

Next == (\E t \in Tracks : VideoUnit(t) \/ AudioUnit(t) \/ AC3Unit(t)) \/ InvalidUnit \/ Close

Spec == Init /\ [][Next]_vars
-----------------------------------------------------------------------------
InOrder(samples) == \A k, l \in DOMAIN samples : k < l => samples[k] < samples[l]

OnDisk == UNION {Range(file.samples) : file \in Range(files)}

(* Samples reach the disk once and in the order in which they came, across the
   files; unless a file could not be written all of them are on disk or in the
   buffer, and once the agent is done all are on disk. Only when every sample there
   was is AC-3, nothing is, and the program may have ended. *)
NothingLost ==
  LET onlyAC3 == \A i \in DOMAIN received : received[i].track \in AC3
  IN /\ \A f, g \in DOMAIN files :
          /\ InOrder(files[f].samples)
          /\ f < g => \A i \in Range(files[f].samples), j \in Range(files[g].samples) : i < j
     /\ clean /\ agent # "panicked" =>
          /\ OnDisk \cup Range(buffer) = DOMAIN received
          /\ InOrder(buffer)
          /\ \A i \in OnDisk, j \in Range(buffer) : i < j
     /\ agent = "done" /\ clean /\ ~onlyAC3 => buffer = <<>>
     /\ agent = "panicked" => onlyAC3

(* As for fMP4. *)
FilesAreFinished ==
  \A f \in DOMAIN files :
    /\ files[f].open => agent # "done" /\ currentSegment.file = f
    /\ files[f].completed <= 1
    /\ files[f].open => files[f].completed = 0
    /\ clean /\ ~files[f].open => files[f].completed = 1
=============================================================================
