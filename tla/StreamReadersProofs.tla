------------------------ MODULE StreamReadersProofs ------------------------
(***************************************************************************)
(* Theorems about StreamReaders, for any number of connections and agents, *)
(* any formats, any size of the queues and any number of units: whoever is *)
(* done leaves nothing behind, and what a reader gets has no hole.         *)
(***************************************************************************)
EXTENDS StreamReaders, SequenceTheorems, TLAPS

(* Where the goroutine of a writer is, from where its owner is; and when the
   owner has left the stream. *)
WriterFollowsOwner ==
  \A r \in Readers :
    /\ owner[r] \in {"none", "settingUp", "connecting"} => writer[r] = "none"
    /\ owner[r] \in {"waiting", "stop", "stopping"} =>
         writer[r] \in {"pulling", "busy", "failed"}
    /\ owner[r] \in {"removing", "closing", "done"} => writer[r] \in {"none", "gone"}
    /\ owner[r] \in {"none", "closing", "done"} => regs[r] = {}
    /\ r \in Agents /\ owner[r] \in {"stop", "stopping"} => regs[r] = {}
    /\ r \in Agents => owner[r] # "none"
    /\ writer[r] = "busy" => current[r] \in Units
    /\ writer[r] = "none" => done[r] = <<>>

(* A path that closed the stream has no agent left. *)
AgentsAreDone == path = "closed" => \A a \in Agents : owner[a] = "done"

(* What was got of what was written, w: units in their order, none of a format
   skipped between two. *)
InOrder(got, w) ==
  /\ \A i, j \in DOMAIN got : i < j => got[i] < got[j]
  /\ \A i, j \in DOMAIN got : \A u \in got[i]..got[j] :
       w[u] = w[got[i]] => \E k \in DOMAIN got : got[k] = u

(* It was written, *)
Known(got, w) == \A i \in DOMAIN got : got[i] <= Len(w)

(* and nothing of a format fs is missing that came after the first. *)
Complete(got, w, fs) ==
  \A i \in DOMAIN got :
    /\ w[got[i]] \in fs
    /\ \A u \in got[i]..Len(w) : w[u] = w[got[i]] => \E k \in DOMAIN got : got[k] = u

(* The writer of r hands on what is pushed. *)
Alive(r) == writer[r] \notin {"failed", "gone"}

GotOK(r) ==
  /\ InOrder(Received(r), written)
  /\ Known(Received(r), written)
  /\ ~panicked /\ regs[r] # {} /\ Alive(r) => Complete(Received(r), written, regs[r])

GotInOrder == \A r \in Readers : GotOK(r)

(* Who has not registered for a format yet was not given anything. *)
NothingYet ==
  \A r \in Readers : owner[r] \in {"none", "settingUp"} /\ regs[r] = {} => queue[r] = <<>>

StreamInv == TypeOK /\ WriterFollowsOwner /\ AgentsAreDone /\ NothingYet /\ GotInOrder
-----------------------------------------------------------------------------
(* Sequences of units. *)
LEMMA UnitsAreNumbers == MaxUnits \in Nat /\ Units \subseteq Nat \ {0} /\ 0 \notin Units
BY SizesAssumption DEF Units

LEMMA UnitAt ==
  ASSUME NEW got \in Seq(Units), NEW i \in DOMAIN got
  PROVE  got[i] \in Units /\ got[i] \in Nat /\ got[i] > 0
<1>1. got[i] \in Units
  BY LenProperties, ElementOfSeq
<1> QED
  BY <1>1, SizesAssumption DEF Units

LEMMA PrefixInOrder ==
  ASSUME NEW s \in Seq(Units), NEW t \in Seq(Units), NEW w,
         InOrder(s \o t, w), Known(s \o t, w)
  PROVE  InOrder(s, w) /\ Known(s, w)
<1>1. /\ DOMAIN s = 1..Len(s) /\ Len(s) \in Nat /\ Len(t) \in Nat
      /\ DOMAIN (s \o t) = 1..(Len(s) + Len(t))
      /\ \A i \in 1..Len(s) : (s \o t)[i] = s[i] /\ s[i] \in Units
  BY ConcatProperties, LenProperties, ElementOfSeq
<1>2. \A i \in DOMAIN s : i \in DOMAIN (s \o t) /\ (s \o t)[i] = s[i]
  BY <1>1
<1>3. Known(s, w)
  BY <1>2 DEF Known
<1>4. \A i, j \in DOMAIN s : i < j => s[i] < s[j]
  BY <1>2 DEF InOrder
<1>5. ASSUME NEW i \in DOMAIN s, NEW j \in DOMAIN s, NEW u \in s[i]..s[j], w[u] = w[s[i]]
      PROVE  \E k \in DOMAIN s : s[k] = u
  <2>1. PICK k \in DOMAIN (s \o t) : (s \o t)[k] = u
    BY <1>2, <1>5 DEF InOrder
  <2>2. k > j => (s \o t)[j] < (s \o t)[k]
    BY <1>2 DEF InOrder
  <2>3. s[i] \in Nat /\ s[j] \in Nat /\ u <= s[j] /\ u \in Int
    BY <1>5, UnitAt
  <2>4. k <= j
    BY <1>1, <1>2, <2>1, <2>2, <2>3
  <2> QED
    BY <1>1, <2>1, <2>4
<1> QED
  BY <1>3, <1>4, <1>5 DEF InOrder

(* A unit more is written. *)
LEMMA WrittenMore ==
  ASSUME NEW got \in Seq(Units), NEW w \in Seq(AllFormats), NEW f \in AllFormats,
         InOrder(got, w), Known(got, w)
  PROVE  InOrder(got, Append(w, f)) /\ Known(got, Append(w, f))
<1>1. /\ Len(w) \in Nat /\ Len(Append(w, f)) = Len(w) + 1
      /\ \A u \in 1..Len(w) : Append(w, f)[u] = w[u]
  BY LenProperties, AppendProperties
<1>2. \A i \in DOMAIN got : got[i] \in Nat /\ got[i] > 0 /\ got[i] <= Len(w)
  BY UnitAt DEF Known
<1> QED
  BY <1>1, <1>2 DEF InOrder, Known

(* It is of a format that the reader does not read, *)
LEMMA Skipped ==
  ASSUME NEW got \in Seq(Units), NEW w \in Seq(AllFormats), NEW f \in AllFormats,
         NEW fs, f \notin fs, Known(got, w), Complete(got, w, fs)
  PROVE  Complete(got, Append(w, f), fs)
<1>1. /\ Len(w) \in Nat /\ Len(Append(w, f)) = Len(w) + 1
      /\ \A u \in 1..Len(w) : Append(w, f)[u] = w[u]
      /\ Append(w, f)[Len(w) + 1] = f
  BY LenProperties, AppendProperties
<1>2. \A i \in DOMAIN got : got[i] \in Nat /\ got[i] > 0 /\ got[i] <= Len(w)
  BY UnitAt DEF Known
<1> SUFFICES ASSUME NEW i \in DOMAIN got
             PROVE  /\ Append(w, f)[got[i]] \in fs
                    /\ \A u \in got[i]..Len(Append(w, f)) :
                         Append(w, f)[u] = Append(w, f)[got[i]] =>
                           \E k \in DOMAIN got : got[k] = u
  BY DEF Complete
<1>3. Append(w, f)[got[i]] = w[got[i]] /\ w[got[i]] \in fs
  BY <1>1, <1>2 DEF Complete
<1>4. ASSUME NEW u \in got[i]..Len(Append(w, f)), Append(w, f)[u] = Append(w, f)[got[i]]
      PROVE  \E k \in DOMAIN got : got[k] = u
  <2>1. u # Len(w) + 1
    BY <1>1, <1>3, <1>4
  <2>2. u \in got[i]..Len(w) /\ w[u] = w[got[i]]
    BY <1>1, <1>2, <1>3, <1>4, <2>1
  <2> QED
    BY <2>2 DEF Complete
<1> QED
  BY <1>3, <1>4

(* or is pushed. *)
LEMMA Pushed ==
  ASSUME NEW got \in Seq(Units), NEW w \in Seq(AllFormats), NEW f \in AllFormats,
         Len(w) < MaxUnits, NEW fs, f \in fs,
         InOrder(got, w), Known(got, w), Complete(got, w, fs)
  PROVE  /\ InOrder(Append(got, Len(w) + 1), Append(w, f))
         /\ Known(Append(got, Len(w) + 1), Append(w, f))
         /\ Complete(Append(got, Len(w) + 1), Append(w, f), fs)
<1> DEFINE v == Append(w, f)
           e == Len(w) + 1
           new == Append(got, e)
           n == Len(got) + 1
<1>1. /\ Len(w) \in Nat /\ Len(v) = e
      /\ \A u \in 1..Len(w) : v[u] = w[u]
      /\ v[e] = f
  BY LenProperties, AppendProperties
<1>2. e \in Units
  BY <1>1, UnitsAreNumbers DEF Units
<1>3. /\ Len(got) \in Nat /\ DOMAIN got = 1..Len(got) /\ DOMAIN new = 1..n
      /\ \A i \in 1..Len(got) : new[i] = got[i]
      /\ new[n] = e
  BY <1>2, LenProperties, AppendProperties
<1>4. \A i \in DOMAIN got : got[i] \in Nat /\ got[i] > 0 /\ got[i] <= Len(w)
  BY UnitAt DEF Known
<1> HIDE DEF v, new
<1>5. \A i \in DOMAIN new : \/ i \in DOMAIN got /\ i < n /\ new[i] = got[i]
                            \/ i = n /\ new[i] = e
  BY <1>3
<1>6. Known(new, v)
  BY <1>1, <1>4, <1>5 DEF Known
<1>7. ASSUME NEW i \in DOMAIN new
      PROVE  /\ v[new[i]] \in fs
             /\ \A u \in new[i]..e : v[u] = v[new[i]] => \E k \in DOMAIN new : new[k] = u
  <2>1. CASE i = n
    BY <1>1, <1>3, <2>1
  <2>2. CASE i \in DOMAIN got /\ new[i] = got[i]
    <3>1. v[new[i]] = w[got[i]] /\ w[got[i]] \in fs
      BY <1>1, <1>4, <2>2 DEF Complete
    <3>2. ASSUME NEW u \in new[i]..e, v[u] = v[new[i]] PROVE \E k \in DOMAIN new : new[k] = u
      <4>1. CASE u = e
        BY <1>3, <4>1
      <4>2. CASE u # e
        <5>1. u \in got[i]..Len(w) /\ w[u] = w[got[i]]
          BY <1>1, <1>4, <2>2, <3>1, <3>2, <4>2
        <5>2. PICK k \in DOMAIN got : got[k] = u
          BY <2>2, <5>1 DEF Complete
        <5> QED
          BY <1>3, <5>2
      <4> QED
        BY <4>1, <4>2
    <3> QED
      BY <3>1, <3>2
  <2> QED
    BY <1>5, <2>1, <2>2
<1>8. Complete(new, v, fs)
  BY <1>1, <1>7 DEF Complete
<1>9. \A i, j \in DOMAIN new : i < j => new[i] < new[j]
  <2>1. \A i, j \in DOMAIN got : i < j => got[i] < got[j]
    BY DEF InOrder
  <2> QED
    BY <1>1, <1>3, <1>4, <1>5, <2>1
<1>10. \A i, j \in DOMAIN new : \A u \in new[i]..new[j] :
         v[u] = v[new[i]] => \E k \in DOMAIN new : new[k] = u
  <2> SUFFICES ASSUME NEW i \in DOMAIN new, NEW j \in DOMAIN new, NEW u \in new[i]..new[j]
               PROVE  v[u] = v[new[i]] => \E k \in DOMAIN new : new[k] = u
    OBVIOUS
  <2>1. u \in new[i]..e
    BY <1>1, <1>4, <1>5
  <2> QED
    BY <1>7, <2>1
<1>11. InOrder(new, v)
  BY <1>9, <1>10 DEF InOrder
<1> QED
  BY <1>6, <1>8, <1>11 DEF v, new

LEMMA ConcatAppend ==
  ASSUME NEW s \in Seq(Units), NEW q \in Seq(Units), NEW e \in Units
  PROVE  s \o Append(q, e) = Append(s \o q, e)
<1>1. <<e>> \in Seq(Units) /\ s \o q \in Seq(Units)
  BY ConcatProperties
<1> QED
  BY <1>1, AppendIsConcat, ConcatAssociative

LEMMA AppendInFront ==
  ASSUME NEW s \in Seq(Units), NEW e \in Units, NEW q \in Seq(Units)
  PROVE  /\ Append(s, e) \o q = s \o (<<e>> \o q)
         /\ <<e>> \o q \in Seq(Units)
<1>1. <<e>> \in Seq(Units)
  OBVIOUS
<1>2. <<e>> \o q \in Seq(Units)
  BY <1>1, ConcatProperties
<1> QED
  BY <1>1, <1>2, AppendIsConcat, ConcatAssociative

LEMMA PullKeeps ==
  ASSUME NEW s \in Seq(Units), NEW q \in Seq(Units), q # <<>>
  PROVE  Append(s, Head(q)) \o Tail(q) = s \o q
<1>1. Head(q) \in Units /\ Tail(q) \in Seq(Units) /\ <<Head(q)>> \in Seq(Units)
  BY HeadTailProperties
<1>2. <<Head(q)>> \o Tail(q) = q
  OBVIOUS
<1> QED
  BY <1>1, <1>2, AppendIsConcat, ConcatAssociative
-----------------------------------------------------------------------------
(* The types. *)
LEMMA TypeInit == Init => TypeOK
<1> SUFFICES ASSUME Init PROVE TypeOK
  OBVIOUS
<1>1. owner \in [Readers -> {"none", "settingUp", "connecting", "waiting", "stop",
                             "stopping", "removing", "closing", "done"}]
  BY DEF Init
<1>2. regs \in [Readers -> SUBSET AllFormats]
  BY DEF Init
<1>3. Len(Formats) \in Nat /\ 0 \in 0..Len(Formats)
  BY FormatsAssumption
<1>4. /\ queue \in [Readers -> Seq(Units)] /\ done \in [Readers -> Seq(Units)]
      /\ \A r \in Readers : Len(queue[r]) <= QueueSize
      /\ written \in Seq(AllFormats) /\ Len(written) <= MaxUnits
  BY SizesAssumption, EmptySeq DEF Init
<1> QED
  BY <1>1, <1>2, <1>3, <1>4 DEF Init, TypeOK

LEMMA SetUpType ==
  ASSUME TypeOK, NEW c \in Readers, SetUpFormat(c)
  PROVE  TypeOK'
<1> DEFINE i == setUp[c] + 1
<1>1. Len(Formats) \in Nat /\ DOMAIN Formats = 1..Len(Formats)
  BY FormatsAssumption, LenProperties
<1>2. i \in 1..Len(Formats)
  BY <1>1 DEF SetUpFormat, TypeOK
<1>3. Formats[i] \in AllFormats
  BY <1>1, <1>2 DEF AllFormats
<1>4. regs' \in [Readers -> SUBSET AllFormats]
  <2>1. regs' = regs \/ regs' = [regs EXCEPT ![c] = @ \cup {Formats[i]}]
    BY DEF SetUpFormat
  <2>2. regs[c] \cup {Formats[i]} \in SUBSET AllFormats
    BY <1>3 DEF TypeOK
  <2> HIDE DEF i
  <2> QED
    BY <2>1, <2>2 DEF TypeOK
<1>5. setUp' \in [Readers -> 0..Len(Formats)]
  BY <1>1, <1>2 DEF SetUpFormat, TypeOK
<1>6. owner' \in [Readers -> {"none", "settingUp", "connecting", "waiting", "stop",
                              "stopping", "removing", "closing", "done"}]
  BY <1>2 DEF SetUpFormat, TypeOK, Goes
<1> QED
  BY <1>4, <1>5, <1>6 DEF SetUpFormat, TypeOK, streamVars, queueVars

LEMMA OwnerType ==
  ASSUME TypeOK, NEW r \in Readers, OwnerRuns(r)
  PROVE  TypeOK'
<1> USE DEF TypeOK, Goes, streamVars, queueVars
<1>1. CASE StartWriter(r)
  BY <1>1 DEF StartWriter
<1>2. CASE ConnectFails(r)
  BY <1>2 DEF ConnectFails
<1>3. CASE Cancelled(r)
  BY <1>3 DEF Cancelled
<1>4. CASE CloseQueue(r)
  BY <1>4 DEF CloseQueue
<1>5. CASE Stopped(r)
  BY <1>5 DEF Stopped, AfterStop
<1>6. CASE WriterFailed(r)
  BY <1>6 DEF WriterFailed
<1>7. CASE RemoveReader(r)
  BY <1>7 DEF RemoveReader
<1>8. CASE CloseFormat(r)
  BY <1>8 DEF CloseFormat
<1> QED
  BY <1>1, <1>2, <1>3, <1>4, <1>5, <1>6, <1>7, <1>8, SetUpType DEF OwnerRuns

LEMMA WriteType ==
  ASSUME TypeOK, ~panicked, NEW f \in AllFormats, WriteUnit(f)
  PROVE  TypeOK'
<1>1. /\ written' = Append(written, f) /\ written' \in Seq(AllFormats)
      /\ Len(written') = Len(written) + 1 /\ Len(written) \in Nat
      /\ Len(written) + 1 \in Units /\ Len(written') <= MaxUnits
  BY SizesAssumption, AppendProperties, LenProperties DEF TypeOK, WriteUnit, Units
<1>2. queue' \in [Readers -> Seq(Units)] /\ \A r \in Readers : Len(queue'[r]) <= QueueSize
  <2>1. CASE UNCHANGED queue
    BY <2>1 DEF TypeOK
  <2>2. CASE /\ \A r \in Readers : f \in regs[r] => Len(queue[r]) # QueueSize
             /\ queue' = [r \in Readers |-> IF f \in regs[r]
                            THEN Append(queue[r], Len(written) + 1) ELSE queue[r]]
    <3>1. ASSUME NEW r \in Readers
          PROVE  queue'[r] \in Seq(Units) /\ Len(queue'[r]) <= QueueSize
      <4>1. queue[r] \in Seq(Units) /\ Len(queue[r]) <= QueueSize /\ Len(queue[r]) \in Nat
        BY LenProperties DEF TypeOK
      <4>2. Append(queue[r], Len(written) + 1) \in Seq(Units)
            /\ Len(Append(queue[r], Len(written) + 1)) = Len(queue[r]) + 1
        BY <1>1, <4>1, AppendProperties
      <4> QED
        BY <2>2, <4>1, <4>2, SizesAssumption
    <3> QED
      BY <2>2, <3>1
  <2> QED
    BY <2>1, <2>2 DEF WriteUnit, Push
<1>3. panicked' \in BOOLEAN
  BY DEF WriteUnit, Push, TypeOK
<1> QED
  BY <1>1, <1>2, <1>3 DEF TypeOK, WriteUnit, streamVars, ownerVars

LEMMA WriterType ==
  ASSUME TypeOK, WriterFollowsOwner, NEW r \in Readers, WriterRuns(r)
  PROVE  TypeOK'
<1>1. CASE Pull(r)
  <2>1. /\ queue[r] \in Seq(Units) /\ queue[r] # <<>> /\ Len(queue[r]) <= QueueSize
        /\ Len(queue[r]) \in Nat
    BY <1>1, LenProperties DEF TypeOK, Pull
  <2>2. /\ Head(queue[r]) \in Units /\ Tail(queue[r]) \in Seq(Units)
        /\ Len(Tail(queue[r])) = Len(queue[r]) - 1
    BY <2>1, HeadTailProperties
  <2>3. queue' \in [Readers -> Seq(Units)] /\ \A x \in Readers : Len(queue'[x]) <= QueueSize
    BY <1>1, <2>1, <2>2, SizesAssumption DEF TypeOK, Pull
  <2>4. current' \in [Readers -> Units \cup {0}]
        /\ writer' \in [Readers -> {"none", "pulling", "busy", "failed", "gone"}]
    BY <1>1, <2>2 DEF TypeOK, Pull
  <2> QED
    BY <1>1, <2>3, <2>4 DEF TypeOK, Pull, streamVars, ownerVars
<1>2. CASE PullClosed(r)
  BY <1>2 DEF TypeOK, PullClosed, streamVars, ownerVars
<1>3. CASE Handled(r)
  <2>1. current[r] \in Units /\ done[r] \in Seq(Units)
    BY <1>3 DEF Handled, WriterFollowsOwner, TypeOK
  <2>2. Append(done[r], current[r]) \in Seq(Units)
    BY <2>1, AppendProperties
  <2>3. done' \in [Readers -> Seq(Units)]
    BY <1>3, <2>2 DEF Handled, TypeOK
  <2>4. current' \in [Readers -> Units \cup {0}]
        /\ writer' \in [Readers -> {"none", "pulling", "busy", "failed", "gone"}]
    BY <1>3 DEF TypeOK, Handled
  <2> QED
    BY <1>3, <2>3, <2>4 DEF TypeOK, Handled, streamVars, ownerVars
<1> QED
  BY <1>1, <1>2, <1>3 DEF WriterRuns

LEMMA RestType ==
  ASSUME TypeOK,
         (\E c \in Conns : Join(c) \/ Kick(c)) \/ SetNotReady \/ CloseStream \/ RTSPStream
         \/ UNCHANGED vars
  PROVE  TypeOK'
<1> USE DEF TypeOK, Goes, streamVars, queueVars, ownerVars, Readers
<1>1. ASSUME NEW c \in Conns, Join(c) PROVE TypeOK'
  BY <1>1 DEF Join
<1>2. ASSUME NEW c \in Conns, Kick(c) PROVE TypeOK'
  BY <1>2 DEF Kick
<1>3. CASE SetNotReady
  BY <1>3 DEF SetNotReady
<1>4. CASE CloseStream \/ RTSPStream
  BY <1>4 DEF CloseStream, RTSPStream
<1>5. CASE UNCHANGED vars
  BY <1>5 DEF vars
<1> QED
  BY <1>1, <1>2, <1>3, <1>4, <1>5

LEMMA StreamTypes ==
  ASSUME TypeOK, WriterFollowsOwner, [Next]_vars
  PROVE  TypeOK'
BY OwnerType, WriteType, WriterType, RestType DEF Next
-----------------------------------------------------------------------------
(* Where the owners and their writers are. *)
PlacesInv == WriterFollowsOwner /\ AgentsAreDone /\ NothingYet

LEMMA PlacesInit == Init => PlacesInv
BY SizesAssumption
   DEF Init, PlacesInv, WriterFollowsOwner, AgentsAreDone, NothingYet, Readers

LEMMA OwnerPlaces ==
  ASSUME TypeOK, PlacesInv, NEW r \in Readers, OwnerRuns(r)
  PROVE  PlacesInv'
<1> USE DEF PlacesInv, WriterFollowsOwner, AgentsAreDone, NothingYet, TypeOK, Goes, queueVars
<1>1. CASE SetUpFormat(r)
  <2>1. /\ owner[r] = "settingUp" /\ UNCHANGED <<path, writer, current, done, queue>>
        /\ owner'[r] \in {"settingUp", "removing", "connecting"}
        /\ \A x \in Readers : x # r => regs'[x] = regs[x] /\ owner'[x] = owner[x]
        /\ regs'[r] = {} => regs[r] = {}
    BY <1>1 DEF SetUpFormat, streamVars
  <2>2. WriterFollowsOwner'
    BY <2>1
  <2>3. AgentsAreDone'
    BY <2>1 DEF Readers
  <2>4. NothingYet'
    BY <2>1
  <2> QED
    BY <2>2, <2>3, <2>4
<1>2. CASE StartWriter(r)
  BY <1>2 DEF StartWriter, streamVars
<1>3. CASE ConnectFails(r)
  BY <1>3 DEF ConnectFails, streamVars
<1>4. CASE Cancelled(r)
  BY <1>4 DEF Cancelled, streamVars
<1>5. CASE CloseQueue(r)
  BY <1>5 DEF CloseQueue, streamVars
<1>6. CASE Stopped(r)
  BY <1>6 DEF Stopped, AfterStop, streamVars
<1>7. CASE WriterFailed(r)
  BY <1>7 DEF WriterFailed, streamVars
<1>8. CASE RemoveReader(r)
  BY <1>8 DEF RemoveReader, streamVars
<1>9. CASE CloseFormat(r)
  BY <1>9 DEF CloseFormat, streamVars
<1> QED
  BY <1>1, <1>2, <1>3, <1>4, <1>5, <1>6, <1>7, <1>8, <1>9 DEF OwnerRuns

LEMMA OtherPlaces ==
  ASSUME TypeOK, PlacesInv,
         \/ \E f \in AllFormats : WriteUnit(f)
         \/ \E r \in Readers : WriterRuns(r)
         \/ \E c \in Conns : Join(c) \/ Kick(c)
         \/ SetNotReady \/ CloseStream \/ RTSPStream \/ UNCHANGED vars
  PROVE  PlacesInv'
<1> USE DEF PlacesInv, WriterFollowsOwner, AgentsAreDone, NothingYet, TypeOK, streamVars,
            queueVars, ownerVars, Readers
<1>1. ASSUME NEW f \in AllFormats, WriteUnit(f) PROVE PlacesInv'
  <2>1. UNCHANGED <<path, regs, writer, current, done, owner>>
    BY <1>1 DEF WriteUnit
  <2>2. \A r \in Readers : regs[r] = {} => queue'[r] = queue[r]
    BY <1>1 DEF WriteUnit, Push
  <2> QED
    BY <2>1, <2>2
<1>2. ASSUME NEW r \in Readers, WriterRuns(r) PROVE PlacesInv'
  <2>1. CASE Pull(r)
    <3>1. Head(queue[r]) \in Units
      BY <2>1, HeadTailProperties DEF Pull
    <3> QED
      BY <2>1, <3>1 DEF Pull
  <2>2. CASE PullClosed(r)
    BY <2>2 DEF PullClosed
  <2>3. CASE Handled(r)
    BY <2>3 DEF Handled
  <2> QED
    BY <1>2, <2>1, <2>2, <2>3 DEF WriterRuns
<1>3. ASSUME NEW c \in Conns, Join(c) PROVE PlacesInv'
  BY <1>3, SizesAssumption DEF Join, Goes
<1>4. ASSUME NEW c \in Conns, Kick(c) PROVE PlacesInv'
  BY <1>4 DEF Kick
<1>5. CASE SetNotReady
  BY <1>5 DEF SetNotReady
<1>6. CASE CloseStream \/ RTSPStream
  BY <1>6 DEF CloseStream, RTSPStream
<1>7. CASE UNCHANGED vars
  BY <1>7 DEF vars
<1> QED
  BY <1>1, <1>2, <1>3, <1>4, <1>5, <1>6, <1>7

LEMMA PlacesStep == TypeOK /\ PlacesInv /\ [Next]_vars => PlacesInv'
BY OwnerPlaces, OtherPlaces DEF Next
-----------------------------------------------------------------------------
(* What a reader has got. *)
LEMMA ReceivedType ==
  ASSUME TypeOK, PlacesInv, NEW r \in Readers
  PROVE  /\ Received(r) \in Seq(Units)
         /\ done[r] \in Seq(Units) /\ queue[r] \in Seq(Units)
         /\ writer[r] = "busy" => /\ current[r] \in Units
                                  /\ Append(done[r], current[r]) \in Seq(Units)
<1>1. done[r] \in Seq(Units) /\ queue[r] \in Seq(Units)
  BY DEF TypeOK
<1>2. writer[r] = "busy" => current[r] \in Units
  BY DEF PlacesInv, WriterFollowsOwner
<1>3. writer[r] = "busy" => Append(done[r], current[r]) \in Seq(Units)
  BY <1>1, <1>2, AppendProperties
<1>4. done[r] \o queue[r] \in Seq(Units)
  BY <1>1, ConcatProperties
<1>5. writer[r] = "busy" => Append(done[r], current[r]) \o queue[r] \in Seq(Units)
  BY <1>1, <1>3, ConcatProperties
<1> QED
  BY <1>1, <1>2, <1>3, <1>4, <1>5 DEF Received

LEMMA SameGot ==
  ASSUME NEW r \in Readers, GotOK(r), UNCHANGED <<written, panicked>>,
         Received(r)' = Received(r), Alive(r)' => Alive(r),
         \/ regs'[r] = {}
         \/ regs[r] # {} /\ regs[r] \subseteq regs'[r]
         \/ Received(r) = <<>>
  PROVE  GotOK(r)'
<1>1. InOrder(Received(r)', written') /\ Known(Received(r)', written')
  BY DEF GotOK
<1>2. ASSUME ~panicked', regs'[r] # {}, Alive(r)'
      PROVE  Complete(Received(r)', written', regs'[r])
  <2>1. CASE Received(r) = <<>>
    BY <2>1 DEF Complete
  <2>2. CASE regs[r] # {} /\ regs[r] \subseteq regs'[r]
    <3>1. Complete(Received(r), written, regs[r])
      BY <1>2, <2>2 DEF GotOK
    <3> QED
      BY <2>2, <3>1 DEF Complete
  <2> QED
    BY <1>2, <2>1, <2>2
<1> QED
  BY <1>1, <1>2 DEF GotOK

(* A writer that has failed drops what it did not handle. *)
LEMMA FewerGot ==
  ASSUME NEW r \in Readers, GotOK(r), UNCHANGED written,
         NEW s \in Seq(Units), NEW t \in Seq(Units),
         Received(r) = s \o t, Received(r)' = s, ~Alive(r)'
  PROVE  GotOK(r)'
BY PrefixInOrder DEF GotOK

LEMMA OwnerGot ==
  ASSUME TypeOK, PlacesInv, NEW r \in Readers, OwnerRuns(r), NEW x \in Readers, GotOK(x)
  PROVE  GotOK(x)'
<1> USE DEF TypeOK, queueVars, Goes
<1>1. CASE SetUpFormat(r)
  <2>1. UNCHANGED <<written, panicked, writer, done, current, queue>>
    BY <1>1 DEF SetUpFormat
  <2>2. regs[x] \subseteq regs'[x] /\ (x # r => regs'[x] = regs[x])
    BY <1>1 DEF SetUpFormat
  <2>3. owner[r] = "settingUp"
    BY <1>1 DEF SetUpFormat
  <2>4. x = r /\ regs[x] = {} => Received(x) = <<>>
    BY <2>3, ConcatEmptySeq DEF PlacesInv, WriterFollowsOwner, NothingYet, Received
  <2> QED
    BY <2>1, <2>2, <2>4, SameGot DEF Received, Alive
<1>2. CASE StartWriter(r)
  <2>1. writer[r] = "none" /\ UNCHANGED <<written, panicked, regs, done, current, queue>>
    BY <1>2 DEF StartWriter, PlacesInv, WriterFollowsOwner
  <2>2. writer'[x] = writer[x] \/ (writer[x] = "none" /\ writer'[x] = "pulling")
    BY <1>2, <2>1 DEF StartWriter
  <2>3. Received(x)' = Received(x) /\ (Alive(x)' => Alive(x))
    BY <2>1, <2>2 DEF Received, Alive
  <2> QED
    BY <2>1, <2>3, SameGot
<1>3. CASE Stopped(r) \/ WriterFailed(r)
  <2>1. writer[r] = "failed" /\ UNCHANGED <<written, panicked, regs, done, current, queue>>
    BY <1>3 DEF Stopped, WriterFailed
  <2>2. writer'[x] = writer[x] \/ (writer[x] = "failed" /\ writer'[x] = "gone")
    BY <1>3, <2>1 DEF Stopped, WriterFailed
  <2>3. Received(x)' = Received(x) /\ (Alive(x)' => Alive(x))
    BY <2>1, <2>2 DEF Received, Alive
  <2> QED
    BY <2>1, <2>3, SameGot
<1>4. CASE ConnectFails(r) \/ Cancelled(r) \/ CloseQueue(r) \/ RemoveReader(r)
             \/ CloseFormat(r)
  <2>1. UNCHANGED <<written, panicked, writer, done, current, queue>>
    BY <1>4 DEF ConnectFails, Cancelled, CloseQueue, RemoveReader, CloseFormat
  <2>2. regs'[x] \in {regs[x], {}}
    BY <1>4 DEF ConnectFails, Cancelled, CloseQueue, RemoveReader, CloseFormat
  <2> QED
    BY <2>1, <2>2, SameGot DEF Received, Alive
<1> QED
  BY <1>1, <1>2, <1>3, <1>4 DEF OwnerRuns

LEMMA WriterGot ==
  ASSUME TypeOK, PlacesInv, NEW r \in Readers, WriterRuns(r), NEW x \in Readers, GotOK(x)
  PROVE  GotOK(x)'
<1>1. UNCHANGED <<written, panicked, regs>>
  BY DEF WriterRuns, Pull, PullClosed, Handled
<1>2. ASSUME Received(x)' = Received(x), Alive(x)' => Alive(x) PROVE GotOK(x)'
  BY <1>1, <1>2, SameGot
<1>3. CASE x # r
  <2>1. /\ writer'[x] = writer[x] /\ done'[x] = done[x] /\ current'[x] = current[x]
        /\ queue'[x] = queue[x]
    BY <1>3 DEF WriterRuns, Pull, PullClosed, Handled, TypeOK
  <2> QED
    BY <1>2, <2>1 DEF Received, Alive
<1>4. CASE x = r /\ Pull(r)
  <2>1. /\ writer[r] = "pulling" /\ queue[r] # <<>> /\ writer'[r] = "busy"
        /\ current'[r] = Head(queue[r]) /\ queue'[r] = Tail(queue[r]) /\ done'[r] = done[r]
    BY <1>4 DEF Pull, TypeOK
  <2>2. Append(done[r], Head(queue[r])) \o Tail(queue[r]) = done[r] \o queue[r]
    BY <2>1, ReceivedType, PullKeeps
  <2> QED
    BY <1>2, <1>4, <2>1, <2>2 DEF Received, Alive
<1>5. CASE x = r /\ PullClosed(r)
  <2>1. Received(x) = done[r] \o queue[r] /\ Received(x)' = done[r] /\ ~Alive(x)'
    BY <1>5 DEF PullClosed, Received, Alive, TypeOK
  <2> QED
    BY <1>1, <2>1, ReceivedType, FewerGot
<1>6. CASE x = r /\ Handled(r)
  <2>1. writer[r] = "busy" /\ Received(x) = Append(done[r], current[r]) \o queue[r]
    BY <1>6 DEF Handled, Received
  <2>2. CASE writer'[r] = "pulling"
    <3>1. done'[r] = Append(done[r], current[r]) /\ queue'[r] = queue[r]
      BY <1>6, <2>2 DEF Handled, TypeOK
    <3> QED
      BY <1>2, <1>6, <2>1, <2>2, <3>1 DEF Received, Alive
  <2>3. CASE writer'[r] = "failed"
    <3>1. Received(x)' = done[r] /\ ~Alive(x)'
      BY <1>6, <2>3 DEF Handled, TypeOK, Received, Alive
    <3>2. /\ done[r] \in Seq(Units) /\ queue[r] \in Seq(Units)
          /\ <<current[r]>> \in Seq(Units) /\ current[r] \in Units
      BY <2>1, ReceivedType
    <3>3. Received(x) = done[r] \o (<<current[r]>> \o queue[r])
          /\ <<current[r]>> \o queue[r] \in Seq(Units)
      BY <2>1, <3>2, AppendInFront
    <3> QED
      BY <1>1, <3>1, <3>2, <3>3, FewerGot
  <2> QED
    BY <1>6, <2>2, <2>3 DEF Handled, TypeOK
<1> QED
  BY <1>3, <1>4, <1>5, <1>6 DEF WriterRuns

LEMMA WriteGot ==
  ASSUME TypeOK, PlacesInv, ~panicked, NEW f \in AllFormats, WriteUnit(f),
         NEW x \in Readers, GotOK(x)
  PROVE  GotOK(x)'
<1>1. /\ written' = Append(written, f) /\ Len(written) < MaxUnits
      /\ written \in Seq(AllFormats)
      /\ UNCHANGED <<regs, writer, current, done>>
  BY DEF WriteUnit, TypeOK
<1>2. InOrder(Received(x), written) /\ Known(Received(x), written)
  BY DEF GotOK
<1>3. InOrder(Received(x), written') /\ Known(Received(x), written')
  BY <1>1, <1>2, ReceivedType, WrittenMore
<1>4. CASE panicked'
  <2>1. Received(x)' = Received(x)
    BY <1>1, <1>4 DEF WriteUnit, Push, Received
  <2> QED
    BY <1>3, <1>4, <2>1 DEF GotOK
<1>5. CASE ~panicked' /\ f \notin regs[x]
  <2>1. Received(x)' = Received(x)
    BY <1>1, <1>5 DEF WriteUnit, Push, Received
  <2>2. regs[x] # {} /\ Alive(x) => Complete(Received(x), written', regs[x])
    BY <1>1, <1>2, <1>5, ReceivedType, Skipped DEF GotOK
  <2> QED
    BY <1>1, <1>3, <2>1, <2>2 DEF GotOK, Alive
<1>6. CASE ~panicked' /\ f \in regs[x] /\ ~Alive(x)
  <2>1. Received(x)' = Received(x)
    BY <1>1, <1>6 DEF Received, Alive
  <2> QED
    BY <1>1, <1>3, <1>6, <2>1 DEF GotOK, Alive
<1>7. CASE ~panicked' /\ f \in regs[x] /\ Alive(x)
  <2> DEFINE e == Len(written) + 1
  <2>1. queue'[x] = Append(queue[x], e)
    BY <1>7 DEF WriteUnit, Push
  <2>2. e \in Units
    BY <1>1, LenProperties, SizesAssumption DEF Units
  <2> HIDE DEF e
  <2>3. done[x] \o Append(queue[x], e) = Append(done[x] \o queue[x], e)
    BY <2>2, ReceivedType, ConcatAppend
  <2>4. writer[x] = "busy" =>
          Append(done[x], current[x]) \o Append(queue[x], e)
            = Append(Append(done[x], current[x]) \o queue[x], e)
    BY <2>2, ReceivedType, ConcatAppend
  <2>5. Received(x)' = Append(Received(x), e)
    BY <1>1, <1>7, <2>1, <2>3, <2>4 DEF Received, Alive
  <2>6. Complete(Received(x), written, regs[x])
    BY <1>7 DEF GotOK
  <2>7. /\ InOrder(Append(Received(x), e), written')
        /\ Known(Append(Received(x), e), written')
        /\ Complete(Append(Received(x), e), written', regs[x])
    BY <1>1, <1>2, <1>7, <2>6, ReceivedType, Pushed DEF e
  <2> QED
    BY <1>1, <2>5, <2>7 DEF GotOK
<1> QED
  BY <1>4, <1>5, <1>6, <1>7

LEMMA RestGot ==
  ASSUME (\E c \in Conns : Join(c) \/ Kick(c)) \/ SetNotReady \/ CloseStream \/ RTSPStream
         \/ UNCHANGED vars,
         NEW x \in Readers, GotOK(x)
  PROVE  GotOK(x)'
<1>1. UNCHANGED <<written, panicked, writer, done, current, queue, regs>>
  BY DEF Join, Kick, SetNotReady, CloseStream, RTSPStream, vars, queueVars
<1> QED
  BY <1>1 DEF GotOK, Received, Alive
-----------------------------------------------------------------------------
LEMMA StreamInit == Init => StreamInv
<1> SUFFICES ASSUME Init PROVE StreamInv
  OBVIOUS
<1>1. TypeOK /\ PlacesInv
  BY TypeInit, PlacesInit
<1>2. ASSUME NEW r \in Readers PROVE GotOK(r)
  <2>1. Received(r) = <<>>
    BY ConcatEmptySeq DEF Init, Received
  <2> QED
    BY <2>1 DEF GotOK, InOrder, Known, Complete
<1> QED
  BY <1>1, <1>2 DEF StreamInv, PlacesInv, GotInOrder

LEMMA StreamStep == StreamInv /\ [Next]_vars => StreamInv'
<1> SUFFICES ASSUME StreamInv, [Next]_vars PROVE StreamInv'
  OBVIOUS
<1>1. TypeOK /\ PlacesInv /\ WriterFollowsOwner
  BY DEF StreamInv, PlacesInv
<1>2. TypeOK' /\ PlacesInv'
  BY <1>1, StreamTypes, PlacesStep
<1>3. ASSUME NEW x \in Readers PROVE GotOK(x)'
  BY <1>1, OwnerGot, WriterGot, WriteGot, RestGot DEF Next, StreamInv, GotInOrder
<1> QED
  BY <1>2, <1>3 DEF StreamInv, PlacesInv, GotInOrder

(* Whatever the publisher, the readers and the path do, StreamInv holds. *)
THEOREM StreamInductive == Spec => []StreamInv
BY StreamInit, StreamStep, PTL DEF Spec

(* A reader gets the units in their order and none is skipped between two of a
   format, however its queue, its writer and its end interleave. *)
THEOREM NoHoles == Spec => []UnitsInOrder
<1>1. StreamInv => UnitsInOrder
  BY DEF StreamInv, GotInOrder, GotOK, InOrder, UnitsInOrder
<1> QED
  BY <1>1, StreamInductive, PTL

(* Whoever is done is not registered any more and has no writer that runs, and
   the stream is closed when no agent records it. *)
THEOREM NothingLeft == Spec => []LeavesNothing
<1>1. StreamInv => LeavesNothing
  BY DEF StreamInv, WriterFollowsOwner, AgentsAreDone, LeavesNothing
<1> QED
  BY <1>1, StreamInductive, PTL
=============================================================================
