------------------------------- MODULE Record --------------------------------
(***************************************************************************)
(* Package record: an agent that writes fMP4, an agent that writes MPEG-TS *)
(* or the cleaner. They meet only on disk, where any operation of an agent *)
(* may fail, so a behaviour is that of one of them, chosen at the start.   *)
(***************************************************************************)
EXTENDS Integers, Sequences

CONSTANTS
  Tracks, Video, AC3, PartDuration, SegmentDuration, Gaps, BufferSize,
  MaxSamples, MaxSamplesTS, MaxVersion,
  Paths, Names, Templates, Ages, MaxInterval, MaxFiles, MaxTime

ASSUME AgentAssumption ==
  /\ Video \subseteq Tracks /\ AC3 \cap Tracks = {}
  /\ Gaps \subseteq Nat
  /\ PartDuration \in Nat /\ SegmentDuration \in Nat \ {0}
  /\ BufferSize \in Nat \ {0} /\ MaxVersion \in Nat \ {0}
  /\ MaxSamples \in Nat /\ MaxSamplesTS \in Nat

ASSUME CleanerAssumption ==
  /\ \A p \in Paths : Names[p] \in Seq(STRING) /\ Names[p] # <<>>
  /\ \A t \in Templates :
       /\ t.dir \in Seq(STRING) /\ t.time \in Seq(STRING)
       /\ t.dotted \in BOOLEAN /\ t.dated \in BOOLEAN /\ t.precision \in Nat \ {0}
  /\ \A age \in Ages : age \in Nat /\ age >= 2
  /\ MaxInterval \in Nat \ {0} /\ MaxFiles \in Nat /\ MaxTime \in Nat

VARIABLES
  part,                                                    \* whose behaviour it is
  received, hasVideo, currentSegment, files, clean, agent, \* of an agent
  version, nextSample, nextSequenceNumber,                 \* of fMP4
  buffer, broken,                                          \* of MPEG-TS
  confs, now, due, onDisk, cleaner                         \* of the cleaner

F == INSTANCE RecordFMP4
T == INSTANCE RecordMPEGTS WITH Tracks <- Tracks \cup AC3, MaxSamples <- MaxSamplesTS
C == INSTANCE RecordCleaner

agentVars   == <<received, hasVideo, currentSegment, files, clean, agent>>
fmp4Vars    == <<version, nextSample, nextSequenceNumber>>
mpegtsVars  == <<buffer, broken>>
cleanerVars == <<confs, now, due, onDisk, cleaner>>

vars == <<part, agentVars, fmp4Vars, mpegtsVars, cleanerVars>>

(* A part that is not the one chosen has no state. *)
NoFMP4    == version = 1 /\ nextSample = <<>> /\ nextSequenceNumber = 0
NoMPEGTS  == buffer = <<>> /\ broken = FALSE
NoAgent   == /\ received = <<>> /\ hasVideo = FALSE /\ currentSegment = <<>>
             /\ files = <<>> /\ clean = TRUE /\ agent = "none"
NoCleaner == confs = <<>> /\ now = 0 /\ due = 0 /\ onDisk = {} /\ cleaner = "none"

Init ==
  \/ part = "fmp4" /\ F!Init /\ NoMPEGTS /\ NoCleaner
  \/ part = "mpegts" /\ T!Init /\ NoFMP4 /\ NoCleaner
  \/ part = "cleaner" /\ C!Init /\ NoAgent /\ NoFMP4 /\ NoMPEGTS

FMP4Step    == part = "fmp4" /\ F!Next /\ UNCHANGED <<part, mpegtsVars, cleanerVars>>
MPEGTSStep  == part = "mpegts" /\ T!Next /\ UNCHANGED <<part, fmp4Vars, cleanerVars>>
CleanerStep == part = "cleaner" /\ C!Next /\ UNCHANGED <<part, agentVars, fmp4Vars, mpegtsVars>>

Next == FMP4Step \/ MPEGTSStep \/ CleanerStep

Spec == Init /\ [][Next]_vars
-----------------------------------------------------------------------------
(* What either agent promises of the samples it was given: see the modules. *)
NothingLost ==
  /\ part = "fmp4" => F!NothingLost
  /\ part = "mpegts" => T!NothingLost

(* What either agent promises of the files it creates. *)
FilesAreFinished ==
  /\ part = "fmp4" => F!FilesAreFinished
  /\ part = "mpegts" => T!FilesAreFinished

(* The parameters at the start of an fMP4 file are recent enough for all of it. *)
ParametersOfInit == part = "fmp4" => F!ParametersOfInit

(* No file whose template the cleaner finds outlives its path's age by more than half. *)
CleanedInTime == part = "cleaner" => C!CleanedInTime

(* No file goes but for the age of a path that records into its directory or one above. *)
KeptLongEnough == [][part = "cleaner" => C!KeptLongEnoughStep]_vars

(* Segments that have expired are removed, whatever the template: they are not. *)
ExpiredAreRemoved == part = "cleaner" => C!ExpiredAreRemoved
=============================================================================
