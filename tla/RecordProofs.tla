----------------------------- MODULE RecordProofs ----------------------------
(***************************************************************************)
(* Theorems about Record, for any tracks, times, bounds, paths, templates  *)
(* and ages. There is an inductive invariant for each part.                *)
(***************************************************************************)
EXTENDS Record, SequenceTheorems, WellFoundedInduction, TLAPS

(* The cleaner. The timer is set for a time that has not come, and every file there is
   now whose template the cleaner finds will then be no older than its age and one interval:
   it was not expired when the timer was set, or it is younger than that. *)
CleanerTypes ==
  /\ confs \in [Paths ->
       [record : BOOLEAN, template : Templates, format : C!Formats, age : Ages]]
  /\ now \in Nat /\ due \in Nat
  /\ \A file \in onDisk :
       file.path \in Paths /\ confs[file.path].record /\ file.start \in 0..now

CleanerDue ==
  cleaner = "running" =>
    /\ now <= due /\ due <= now + C!Interval
    /\ \A file \in onDisk :
         C!IsFound(confs[file.path].template) =>
           due - file.start <= confs[file.path].age + C!Interval

CleanerInv == CleanerTypes /\ CleanerDue

(* A set of natural numbers that is not empty has a least one. *)
LEMMA MinOfIsLeast ==
  ASSUME NEW S, S \subseteq Nat, S # {}
  PROVE  C!MinOf(S) \in S /\ \A x \in S : C!MinOf(S) <= x
<1> DEFINE Less == {ss \in Nat \X Nat : ss[1] < ss[2]}
<1>1. IsWellFoundedOn(Less, Nat)
  BY NatLessThanWellFounded, Zenon DEF OpToRel
<1> HIDE DEF Less
<1>2. PICK x \in S : \A y \in S : ~(<<y, x>> \in Less)
  BY <1>1, WFMin
<1>3. \A y \in Nat : y < x => <<y, x>> \in Less
  BY <1>2 DEF Less
<1>4. \A y \in S : x <= y
  <2> TAKE y \in S
  <2>1. y \in Nat /\ x \in Nat
    OBVIOUS
  <2>2. ~(y < x)
    BY <1>2, <1>3, <2>1, Zenon
  <2> QED
    BY <2>1, <2>2
<1> QED
  BY <1>2, <1>4 DEF C!MinOf

(* The timer is set for no longer than half the age of any path that records. *)
LEMMA IntervalIsShort ==
  ASSUME CleanerTypes
  PROVE  /\ C!Interval \in Nat
         /\ \A p \in Paths : confs[p].record => 2 * C!Interval <= confs[p].age
<1> DEFINE Halves == {MaxInterval} \cup {e.age \div 2 : e \in C!Entries}
<1>1. \A e \in C!Entries : e.age \in Nat
  BY CleanerAssumption DEF CleanerTypes, C!Entries
<1>2. \A n \in Nat : n \div 2 \in Nat /\ 2 * (n \div 2) <= n
  OBVIOUS
<1>3. Halves \subseteq Nat /\ Halves # {}
  BY <1>1, <1>2, CleanerAssumption
<1>4. C!Interval \in Halves /\ \A x \in Halves : C!Interval <= x
  BY <1>3, MinOfIsLeast DEF C!Interval
<1>5. C!Interval \in Nat
  BY <1>3, <1>4
<1> SUFFICES ASSUME NEW p \in Paths, confs[p].record
             PROVE  2 * C!Interval <= confs[p].age
  BY <1>5
<1> DEFINE e == [template |-> confs[p].template, format |-> confs[p].format,
                 age |-> confs[p].age]
<1>6. confs[p].age \in Nat /\ confs[p].age \div 2 \in Halves
  <2>1. e \in C!Entries /\ e.age = confs[p].age
    BY DEF C!Entries
  <2>2. e.age \div 2 \in Halves
    BY <2>1
  <2> QED
    BY <1>1, <2>1, <2>2
<1>7. C!Interval <= confs[p].age \div 2
  BY <1>4, <1>6
<1> HIDE DEF Halves
<1> QED
  BY <1>2, <1>5, <1>6, <1>7

(* The time that a name tells is not after the time of its file, and short of it by less
   than the precision of the template. *)
LEMMA ToldIsEarlier ==
  ASSUME NEW t \in Templates, NEW start \in Nat
  PROVE  C!Told(t, start) \in Int /\ C!Told(t, start) <= start
         /\ start - C!Told(t, start) < t.precision
<1>1. t.precision \in Nat /\ t.precision > 0
  BY CleanerAssumption
<1>2. start % t.precision \in 0..(t.precision - 1)
  BY <1>1
<1> QED
  BY <1>1, <1>2 DEF C!Told

(* Where the elements of two sequences, and of three, are when they are put together. *)
LEMMA TwoParts ==
  ASSUME NEW d \in Seq(STRING), NEW m \in Seq(STRING)
  PROVE  /\ d \o m \in Seq(STRING) /\ Len(d \o m) = Len(d) + Len(m)
         /\ C!IsAt(d, d \o m, 0) /\ C!IsAt(m, d \o m, Len(d))
<1> DEFINE name == d \o m
<1>1. /\ name \in Seq(STRING) /\ Len(name) = Len(d) + Len(m)
      /\ \A k \in 1..(Len(d) + Len(m)) : name[k] = IF k <= Len(d) THEN d[k] ELSE m[k - Len(d)]
  BY ConcatProperties
<1>2. /\ Len(d) \in Nat /\ Len(m) \in Nat
      /\ DOMAIN d = 1..Len(d) /\ DOMAIN m = 1..Len(m)
  BY LenProperties
<1> HIDE DEF name
<1>3. \A k \in 1..Len(d) : name[0 + k] = d[k]
  BY <1>1, <1>2
<1>4. \A k \in 1..Len(m) : name[Len(d) + k] = m[k]
  <2> TAKE k \in 1..Len(m)
  <2>1. Len(d) + k \in 1..(Len(d) + Len(m)) /\ ~(Len(d) + k <= Len(d))
    BY <1>2
  <2>2. (Len(d) + k) - Len(d) = k
    BY <1>2
  <2> QED
    BY <1>1, <2>1, <2>2
<1>5. C!IsAt(d, name, 0) /\ C!IsAt(m, name, Len(d))
  BY <1>2, <1>3, <1>4 DEF C!IsAt
<1> QED
  BY <1>1, <1>5 DEF name

LEMMA ThreeParts ==
  ASSUME NEW d \in Seq(STRING), NEW n \in Seq(STRING), NEW m \in Seq(STRING)
  PROVE  /\ Len(d \o n \o m) = Len(d) + Len(n) + Len(m)
         /\ C!IsAt(d, d \o n \o m, 0) /\ C!IsAt(m, d \o n \o m, Len(d) + Len(n))
<1> DEFINE front == d \o n
           name == front \o m
<1>1. /\ front \in Seq(STRING) /\ Len(front) = Len(d) + Len(n) /\ C!IsAt(d, front, 0)
  BY TwoParts
<1> HIDE DEF front
<1>2. /\ Len(name) = Len(front) + Len(m)
      /\ C!IsAt(front, name, 0) /\ C!IsAt(m, name, Len(front))
  BY <1>1, TwoParts
<1> HIDE DEF name
<1>3. /\ Len(d) \in Nat /\ Len(n) \in Nat
      /\ DOMAIN d = 1..Len(d) /\ DOMAIN front = 1..Len(front)
  BY <1>1, LenProperties
<1>4. \A k \in 1..Len(d) : name[0 + k] = d[k]
  <2> TAKE k \in 1..Len(d)
  <2>1. k \in DOMAIN d /\ k \in DOMAIN front /\ 0 + k = k
    BY <1>1, <1>3
  <2>2. front[0 + k] = d[k] /\ name[0 + k] = front[k]
    BY <1>1, <1>2, <2>1, Zenon DEF C!IsAt
  <2> QED
    BY <2>1, <2>2, Zenon
<1>5. C!IsAt(d, name, 0)
  BY <1>3, <1>4 DEF C!IsAt
<1> QED
  BY <1>1, <1>2, <1>5 DEF front, name

(* A template that can be found is found in the names that are made from it. *)
LEMMA OwnIsMatched ==
  ASSUME CleanerTypes, NEW p \in Paths, C!IsFound(confs[p].template)
  PROVE  C!Matches(confs[p].template, C!FileName(p))
<1> DEFINE t == confs[p].template
           name == C!FileName(p)
           last == Len(name) - Len(t.time)
<1>1. t.dir \in Seq(STRING) /\ t.time \in Seq(STRING)
  BY CleanerAssumption DEF CleanerTypes
<1>2. Names[p] \in Seq(STRING) /\ Len(Names[p]) > 0
  <2>1. Names[p] \in Seq(STRING) /\ Names[p] # <<>>
    BY CleanerAssumption
  <2> QED
    BY <2>1, EmptySeq
<1>3. name = t.dir \o Names[p] \o t.time
  BY DEF C!FileName
<1>4. ~t.dotted /\ C!IsWalked(t)
  BY DEF C!IsFound, C!IsWalked
<1> HIDE DEF t, name
<1>5. /\ Len(name) = Len(t.dir) + Len(Names[p]) + Len(t.time)
      /\ C!IsAt(t.dir, name, 0) /\ C!IsAt(t.time, name, Len(t.dir) + Len(Names[p]))
  BY <1>1, <1>2, <1>3, ThreeParts
<1>6. Len(t.dir) \in Nat /\ Len(Names[p]) \in Nat /\ Len(t.time) \in Nat
  BY <1>1, <1>2, LenProperties
<1>7. \A i, j, k \in Nat :
        j > 0 => (i + j + k) - k = i + j /\ 0 \in 0..(i + j) /\ 0 + i < i + j
  OBVIOUS
<1>8. last = (Len(t.dir) + Len(Names[p]) + Len(t.time)) - Len(t.time)
  BY <1>5, Zenon
<1> HIDE DEF last
<1>9. last = Len(t.dir) + Len(Names[p]) /\ 0 \in 0..last /\ 0 + Len(t.dir) < last
  BY <1>2, <1>6, <1>7, <1>8, Zenon
<1>10. C!Matches(t, name)
  BY <1>4, <1>5, <1>9 DEF C!Matches, last
<1> QED
  BY <1>10 DEF t, name

LEMMA CleanerInit == C!Init => CleanerInv
<1> SUFFICES ASSUME C!Init PROVE CleanerInv
  OBVIOUS
<1>1. CleanerTypes
  BY DEF C!Init, CleanerTypes
<1>2. C!Interval \in Nat
  BY <1>1, IntervalIsShort
<1> QED
  BY <1>1, <1>2 DEF C!Init, CleanerInv, CleanerDue

LEMMA CleanerNext ==
  ASSUME CleanerInv, C!Next
  PROVE  CleanerInv'
<1> USE DEF CleanerInv
<1>1. C!Interval \in Nat
  BY IntervalIsShort
<1>2. UNCHANGED confs /\ UNCHANGED C!Interval
  BY DEF C!Next, C!NewFile, C!Run, C!Close, C!Tick, C!Interval, C!Entries
<1>3. \A p \in Paths : confs[p].age \in Nat
  BY CleanerAssumption DEF CleanerTypes
<1>4. ASSUME NEW p \in Paths, C!NewFile(p) PROVE CleanerInv'
  <2>1. CleanerTypes'
    BY <1>4 DEF C!NewFile, CleanerTypes
  <2>2. CleanerDue'
    BY <1>1, <1>2, <1>3, <1>4 DEF C!NewFile, CleanerTypes, CleanerDue
  <2> QED
    BY <2>1, <2>2
<1>5. CASE C!Run
  <2>1. CleanerTypes'
    BY <1>1, <1>5 DEF C!Run, C!Kept, CleanerTypes
  <2>2. \A file \in C!Kept :
          C!IsFound(confs[file.path].template) => now - file.start <= confs[file.path].age
    <3> SUFFICES ASSUME NEW file \in C!Kept, C!IsFound(confs[file.path].template)
                 PROVE  now - file.start <= confs[file.path].age
      OBVIOUS
    <3> DEFINE own == confs[file.path]
               e == [template |-> own.template, format |-> own.format, age |-> own.age]
    <3>1. file.path \in Paths /\ file.start \in Nat /\ now \in Nat /\ own.template \in Templates
      BY DEF C!Kept, CleanerTypes
    <3>2. e \in C!Entries /\ ~C!Expired(file, e)
      BY DEF C!Kept, C!Entries, CleanerTypes
    <3>3. C!Matches(own.template, C!FileName(file.path))
      BY <3>1, OwnIsMatched
    <3>4. ~(now - C!Told(own.template, file.start) > own.age)
      BY <3>2, <3>3 DEF C!Expired
    <3> QED
      BY <3>1, <3>4, <1>3, ToldIsEarlier
  <2>3. CleanerDue'
    BY <1>1, <1>2, <1>3, <1>5, <2>2 DEF C!Run, C!Kept, CleanerTypes, CleanerDue
  <2> QED
    BY <2>1, <2>3
<1>6. CASE C!Close
  BY <1>2, <1>6 DEF C!Close, CleanerTypes, CleanerDue
<1>7. CASE C!Tick
  BY <1>1, <1>2, <1>7 DEF C!Tick, CleanerTypes, CleanerDue
<1> QED
  BY <1>4, <1>5, <1>6, <1>7 DEF C!Next

LEMMA CleanerInTime == CleanerInv => C!CleanedInTime
<1> SUFFICES ASSUME CleanerInv, cleaner = "running", NEW file \in onDisk,
                    C!IsFound(confs[file.path].template)
             PROVE  2 * (now - file.start) <= 3 * confs[file.path].age
  BY DEF C!CleanedInTime
<1>1. /\ C!Interval \in Nat /\ 2 * C!Interval <= confs[file.path].age
      /\ confs[file.path].age \in Nat
  BY IntervalIsShort, CleanerAssumption DEF CleanerInv, CleanerTypes
<1>2. /\ now \in Nat /\ due \in Nat /\ file.start \in Nat
      /\ now <= due /\ due - file.start <= confs[file.path].age + C!Interval
  BY DEF CleanerInv, CleanerTypes, CleanerDue
<1> QED
  BY <1>1, <1>2

LEMMA CleanerKeeps ==
  ASSUME CleanerInv, C!Next
  PROVE  C!KeptLongEnoughStep
<1>1. CASE C!Run
  <2> SUFFICES ASSUME NEW file \in onDisk, file \notin C!Kept
               PROVE  \E p \in Paths :
                        LET t == confs[p].template IN
                        /\ confs[p].record /\ confs[p].format = confs[file.path].format
                        /\ C!IsAt(t.dir, C!FileName(file.path), 0)
                        /\ t.dated => now - file.start > confs[p].age - t.precision
    BY <1>1 DEF C!Run, C!KeptLongEnoughStep
  <2>1. PICK e \in C!Entries : C!Expired(file, e)
    BY DEF C!Kept
  <2>2. PICK p \in Paths : /\ confs[p].record /\ e.template = confs[p].template
                           /\ e.format = confs[p].format /\ e.age = confs[p].age
    BY DEF C!Entries
  <2> DEFINE t == confs[p].template
  <2>3. C!IsAt(t.dir, C!FileName(file.path), 0) /\ confs[p].format = confs[file.path].format
    BY <2>1, <2>2 DEF C!Expired, C!Matches
  <2>4. ASSUME t.dated PROVE now - file.start > confs[p].age - t.precision
    <3>1. now - C!Told(t, file.start) > confs[p].age
      BY <2>1, <2>2, <2>4 DEF C!Expired
    <3>2. /\ t \in Templates /\ t.precision \in Nat /\ file.start \in Nat /\ now \in Nat
          /\ confs[p].age \in Nat
      BY CleanerAssumption DEF CleanerInv, CleanerTypes
    <3> QED
      BY <3>1, <3>2, ToldIsEarlier
  <2> QED
    BY <2>2, <2>3, <2>4
<1>2. CASE (\E p \in Paths : C!NewFile(p)) \/ C!Close \/ C!Tick
  BY <1>2 DEF C!NewFile, C!Close, C!Tick, C!KeptLongEnoughStep
<1> QED
  BY <1>1, <1>2 DEF C!Next
-----------------------------------------------------------------------------
(* The agent that writes MPEG-TS. What is being written, whose samples are among the
   first n. *)
TSFile == [samples : Seq(Nat), open : BOOLEAN, completed : Nat]
TSSegment == [startDTS : Nat, lastFlush : Nat, file : Nat]
TSWriting ==
  [segment : TSSegment, buffer : Seq(Nat), broken : BOOLEAN, files : Seq(TSFile),
   clean : BOOLEAN, ok : BOOLEAN, panic : BOOLEAN]

(* A file is open only while it is that of the segment, and then it is the last. *)
Finished(w) ==
  /\ w.segment.file \in {0, Len(w.files)}
  /\ \A f \in DOMAIN w.files :
       /\ w.files[f].open => f = w.segment.file /\ w.files[f].completed = 0
       /\ w.files[f].completed <= 1
       /\ w.clean /\ ~w.files[f].open => w.files[f].completed = 1

TSDisk(fs, i) ==
  \E f \in DOMAIN fs : \E k \in DOMAIN fs[f].samples : fs[f].samples[k] = i

(* In order within a file, from file to file, in the buffer, and from disk to buffer. *)
TSOrder(w, n) ==
  /\ \A f \in DOMAIN w.files : T!InOrder(w.files[f].samples)
  /\ \A f, g \in DOMAIN w.files : f < g =>
       \A k \in DOMAIN w.files[f].samples, l \in DOMAIN w.files[g].samples :
         w.files[f].samples[k] < w.files[g].samples[l]
  /\ T!InOrder(w.buffer)
  /\ \A l \in DOMAIN w.buffer :
       /\ w.buffer[l] \in 1..n
       /\ \A i : TSDisk(w.files, i) => i < w.buffer[l]
  /\ \A i : TSDisk(w.files, i) => i \in 1..n

TSKept(w, n) ==
  /\ w.clean => ~w.broken /\ (w.ok \/ w.panic)
  /\ w.clean /\ ~w.panic =>
       \A i \in 1..n : TSDisk(w.files, i) \/ \E k \in DOMAIN w.buffer : w.buffer[k] = i
  /\ w.panic => w.segment = T!NoSegment
  /\ w.segment = T!NoSegment \/ w.segment.startDTS # 0

TSGood(w, n) == w \in TSWriting /\ Finished(w) /\ TSOrder(w, n) /\ TSKept(w, n)

(* What fails changes nothing else. *)
LEMMA TSFails ==
  ASSUME NEW n \in Nat, NEW w, TSGood(w, n)
  PROVE  /\ TSGood(T!Failing(w), n) /\ TSGood(T!Breaking(w), n)
         /\ \A c \in {T!Failing(w), T!Breaking(w)} :
              ~c.ok /\ ~c.clean /\ c.panic = w.panic /\ c.segment = w.segment
<1> USE DEF T!Failing, T!Breaking
<1>1. \A c \in {T!Failing(w), T!Breaking(w)} :
        /\ c \in TSWriting /\ ~c.ok /\ ~c.clean /\ c.panic = w.panic
        /\ c.segment = w.segment /\ c.buffer = w.buffer /\ c.files = w.files
  BY DEF TSGood, TSWriting
<1> QED
  BY <1>1 DEF TSGood, Finished, TSOrder, TSKept

LEMMA TSCreates ==
  ASSUME NEW n \in Nat, NEW w, TSGood(w, n), w.segment # T!NoSegment,
         NEW c \in T!CreateFile(w)
  PROVE  /\ TSGood(c, n) /\ c.segment # T!NoSegment
         /\ c.ok => w.ok /\ c.segment.file # 0
         /\ c.clean => w.clean
         /\ c.panic = w.panic
<1>1. CASE w.segment.file # 0
  BY <1>1 DEF T!CreateFile
<1>2. CASE c = T!Breaking(w)
  BY <1>2, TSFails
<1>3. CASE w.segment.file = 0 /\ c # T!Breaking(w)
  <2> DEFINE file == [samples |-> <<>>, open |-> TRUE, completed |-> 0]
  <2>1. c = [w EXCEPT !.files = Append(@, file), !.segment.file = Len(w.files) + 1]
    BY <1>3 DEF T!CreateFile
  <2>2. /\ w \in TSWriting /\ Len(w.files) \in Nat /\ w.files \in Seq(TSFile)
        /\ w.segment \in TSSegment
    BY DEF TSGood, TSWriting
  <2>3. file \in TSFile
    BY DEF TSFile
  <2>4. Append(w.files, file) \in Seq(TSFile)
    BY <2>2, <2>3
  <2>5. /\ c \in TSWriting
        /\ c.files = Append(w.files, file)
        /\ c.segment = [w.segment EXCEPT !.file = Len(w.files) + 1]
        /\ c.buffer = w.buffer /\ c.broken = w.broken /\ c.clean = w.clean /\ c.ok = w.ok
        /\ c.panic = w.panic
    <3> DEFINE v == [w EXCEPT !.files = Append(w.files, file)]
               s == [w.segment EXCEPT !.file = Len(w.files) + 1]
    <3>1. v \in TSWriting /\ v.files = Append(w.files, file) /\ v.segment = w.segment
          /\ v.buffer = w.buffer /\ v.broken = w.broken /\ v.clean = w.clean /\ v.ok = w.ok
          /\ v.panic = w.panic
      BY <2>2, <2>4 DEF TSWriting
    <3>2. s \in TSSegment
      BY <2>2 DEF TSSegment
    <3>3. c = [v EXCEPT !.segment = s]
      BY <2>1, <3>1
    <3> HIDE DEF v, s
    <3> QED
      BY <3>1, <3>2, <3>3 DEF TSWriting, s
  <2>6. /\ c.segment.file = Len(w.files) + 1
        /\ c.segment.startDTS = w.segment.startDTS
    BY <2>2, <2>5 DEF TSSegment
  <2>7. c.segment # T!NoSegment /\ c.segment.startDTS # 0
    BY <2>6 DEF T!NoSegment, TSGood, TSKept
  <2> HIDE DEF file
  <2>8. /\ DOMAIN c.files = 1..(Len(w.files) + 1)
        /\ Len(c.files) = Len(w.files) + 1
        /\ \A f \in DOMAIN w.files : f \in 1..Len(w.files) /\ c.files[f] = w.files[f]
        /\ c.files[Len(w.files) + 1] = file
    BY <2>2, <2>3, <2>5
  <2>9. DOMAIN file.samples = {} /\ file.open = TRUE /\ file.completed = 0
    BY DEF file
  <2>10. \A i : TSDisk(c.files, i) <=> TSDisk(w.files, i)
    BY <2>2, <2>8, <2>9 DEF TSDisk
  <2>11. TSOrder(c, n)
    BY <2>2, <2>5, <2>8, <2>9, <2>10 DEF TSGood, TSOrder, T!InOrder
  <2>12. Finished(c)
    BY <1>3, <2>2, <2>5, <2>6, <2>8, <2>9 DEF TSGood, Finished
  <2>13. TSKept(c, n)
    BY <2>5, <2>7, <2>10 DEF TSGood, TSKept
  <2> QED
    BY <2>2, <2>5, <2>6, <2>7, <2>11, <2>12, <2>13 DEF TSGood
<1> QED
  BY <1>1, <1>2, <1>3

(* A sequence and one more, place by place. *)
LEMMA Appended ==
  ASSUME NEW S, NEW s \in Seq(S), NEW x \in S
  PROVE  /\ Append(s, x) \in Seq(S) /\ Len(s) \in Nat
         /\ Len(Append(s, x)) = Len(s) + 1
         /\ Len(s) + 1 \in DOMAIN Append(s, x) /\ Append(s, x)[Len(s) + 1] = x
         /\ \A k \in DOMAIN s :
              k \in DOMAIN Append(s, x) /\ Append(s, x)[k] = s[k] /\ k < Len(s) + 1
         /\ \A k \in DOMAIN Append(s, x) : k \in Nat /\ (k \in DOMAIN s \/ k = Len(s) + 1)
         /\ \A k, l \in DOMAIN Append(s, x) : k < l => k \in DOMAIN s
<1> DEFINE sx == Append(s, x)
<1>1. /\ sx \in Seq(S) /\ Len(s) \in Nat /\ Len(sx) = Len(s) + 1
      /\ DOMAIN s = 1..Len(s) /\ DOMAIN sx = 1..(Len(s) + 1)
      /\ \A k \in 1..Len(s) : sx[k] = s[k]
      /\ sx[Len(s) + 1] = x
  BY AppendProperties, LenProperties
<1> HIDE DEF sx
<1>2. \A k \in DOMAIN sx : k \in Nat /\ (k \in DOMAIN s \/ k = Len(s) + 1)
  BY <1>1
<1>3. \A k, l \in DOMAIN sx : k < l => k \in DOMAIN s
  BY <1>1
<1>4. \A k \in DOMAIN s : k \in DOMAIN sx /\ sx[k] = s[k] /\ k < Len(s) + 1
  BY <1>1
<1>5. Len(s) + 1 \in DOMAIN sx
  BY <1>1
<1> QED
  BY <1>1, <1>2, <1>3, <1>4, <1>5 DEF sx

(* One sequence after another, place by place. *)
LEMMA Joined ==
  ASSUME NEW s \in Seq(Nat), NEW t \in Seq(Nat)
  PROVE  /\ Len(s) \in Nat /\ Len(t) \in Nat /\ s \o t \in Seq(Nat)
         /\ DOMAIN s = 1..Len(s) /\ DOMAIN t = 1..Len(t)
         /\ DOMAIN (s \o t) = 1..(Len(s) + Len(t))
         /\ \A k \in DOMAIN s : k \in DOMAIN (s \o t) /\ (s \o t)[k] = s[k]
         /\ \A k \in DOMAIN (s \o t) : k \notin DOMAIN s =>
              k - Len(s) \in DOMAIN t /\ (s \o t)[k] = t[k - Len(s)]
         /\ \A l \in DOMAIN t :
              Len(s) + l \in DOMAIN (s \o t) /\ (s \o t)[Len(s) + l] = t[l]
<1>1. /\ Len(s) \in Nat /\ Len(t) \in Nat /\ s \o t \in Seq(Nat)
      /\ DOMAIN s = 1..Len(s) /\ DOMAIN t = 1..Len(t)
      /\ DOMAIN (s \o t) = 1..(Len(s) + Len(t))
      /\ \A k \in 1..(Len(s) + Len(t)) :
           (s \o t)[k] = IF k <= Len(s) THEN s[k] ELSE t[k - Len(s)]
  BY ConcatProperties, LenProperties
<1> DEFINE st == s \o t
<1> HIDE DEF st
<1>2. ASSUME NEW l \in DOMAIN t
      PROVE  Len(s) + l \in DOMAIN st /\ st[Len(s) + l] = t[l]
  <2>1. Len(s) + l \in 1..(Len(s) + Len(t)) /\ ~(Len(s) + l <= Len(s)) /\ Len(s) + l - Len(s) = l
    BY <1>1
  <2> QED
    BY <1>1, <2>1 DEF st
<1> QED
  BY <1>1, <1>2 DEF st

(* The buffer is written at the end of the last file. *)
LEMMA TSWrites ==
  ASSUME NEW n \in Nat, NEW w, TSGood(w, n), w.segment # T!NoSegment,
         w.ok => w.segment.file # 0,
         NEW c \in T!WriteBuffer(w)
  PROVE  /\ TSGood(c, n) /\ c.segment = w.segment /\ c.panic = w.panic
         /\ c.ok => w.ok
         /\ c.clean => w.clean /\ c.buffer = <<>>
<1>1. CASE ~w.ok \/ w.broken
  BY <1>1 DEF T!WriteBuffer, TSGood, TSKept
<1>2. CASE c = T!Breaking(w)
  BY <1>2, TSFails
<1>3. CASE w.ok /\ ~w.broken /\ c # T!Breaking(w)
  <2> DEFINE last == Len(w.files)
             file == [w.files[last] EXCEPT !.samples = @ \o w.buffer]
             fs == [w.files EXCEPT ![last] = file]
  <2>1. /\ w \in TSWriting /\ last \in Nat /\ w.files \in Seq(TSFile)
        /\ w.segment \in TSSegment /\ w.buffer \in Seq(Nat)
        /\ w.segment.file = last /\ last \in DOMAIN w.files
    BY <1>3 DEF TSGood, TSWriting, TSSegment, Finished
  <2>2. w.files[last] \in TSFile /\ w.files[last].samples \in Seq(Nat)
    <3>1. w.files[last] \in TSFile
      BY <2>1, ElementOfSeq
    <3> QED
      BY <3>1 DEF TSFile
  <2>3. w.files[last].samples \o w.buffer \in Seq(Nat)
    BY <2>1, <2>2, Joined
  <2>4. /\ file \in TSFile /\ file.samples = w.files[last].samples \o w.buffer
        /\ file.open = w.files[last].open /\ file.completed = w.files[last].completed
    BY <2>2, <2>3 DEF TSFile
  <2> HIDE DEF file
  <2>5. /\ fs \in Seq(TSFile) /\ Len(fs) = last /\ DOMAIN fs = DOMAIN w.files
        /\ fs[last] = file /\ \A f \in DOMAIN w.files : f # last => fs[f] = w.files[f]
    BY <2>1, <2>4
  <2>6. c = [w EXCEPT !.files[last].samples = @ \o w.buffer, !.buffer = <<>>]
    BY <1>3, <2>1 DEF T!WriteBuffer
  <2>7. /\ c \in TSWriting /\ c.files = fs /\ c.buffer = <<>>
        /\ c.segment = w.segment /\ c.broken = w.broken /\ c.clean = w.clean /\ c.ok = w.ok
        /\ c.panic = w.panic
    <3> DEFINE v == [w EXCEPT !.files = fs]
    <3>1. v = [w EXCEPT !.files[last].samples = @ \o w.buffer]
      BY <2>1 DEF file
    <3> HIDE DEF fs
    <3>2. v \in TSWriting /\ v.files = fs
          /\ v.segment = w.segment /\ v.broken = w.broken /\ v.clean = w.clean /\ v.ok = w.ok
          /\ v.panic = w.panic
      BY <2>1, <2>5 DEF TSWriting
    <3>3. c = [v EXCEPT !.buffer = <<>>]
      BY <2>6, <3>1
    <3> HIDE DEF v
    <3>4. <<>> \in Seq(Nat)
      OBVIOUS
    <3> QED
      BY <3>2, <3>3, <3>4 DEF TSWriting
  <2> HIDE DEF fs
  <2>8. DOMAIN c.buffer = {}
    BY <2>7
  <2> DEFINE old == w.files[last].samples
  <2>9. /\ DOMAIN file.samples = 1..(Len(old) + Len(w.buffer))
        /\ Len(old) \in Nat /\ Len(w.buffer) \in Nat
        /\ DOMAIN old = 1..Len(old) /\ DOMAIN w.buffer = 1..Len(w.buffer)
        /\ \A k \in DOMAIN old : file.samples[k] = old[k]
        /\ \A k \in DOMAIN file.samples : k \notin DOMAIN old =>
             k - Len(old) \in DOMAIN w.buffer /\ file.samples[k] = w.buffer[k - Len(old)]
        /\ \A l \in DOMAIN w.buffer :
             Len(old) + l \in DOMAIN file.samples /\ file.samples[Len(old) + l] = w.buffer[l]
    <3>1. old \in Seq(Nat) /\ w.buffer \in Seq(Nat) /\ file.samples = old \o w.buffer
      BY <2>1, <2>2, <2>4
    <3> HIDE DEF old
    <3> QED
      BY SMTT(20), <3>1, Joined
  <2> HIDE DEF last, old
  <2>10. \A l \in DOMAIN w.buffer : TSDisk(c.files, w.buffer[l])
    <3> TAKE l \in DOMAIN w.buffer
    <3>1. last \in DOMAIN c.files /\ c.files[last] = file
      BY <2>1, <2>5, <2>7
    <3>2. Len(old) + l \in DOMAIN file.samples /\ file.samples[Len(old) + l] = w.buffer[l]
      BY <2>9
    <3> QED
      BY <3>1, <3>2 DEF TSDisk
  <2>11. \A i : TSDisk(w.files, i) => TSDisk(c.files, i)
    <3> SUFFICES ASSUME NEW f \in DOMAIN w.files, NEW k \in DOMAIN w.files[f].samples
                 PROVE  TSDisk(c.files, w.files[f].samples[k])
      BY DEF TSDisk
    <3>1. k \in DOMAIN c.files[f].samples /\ c.files[f].samples[k] = w.files[f].samples[k]
      <4>1. CASE f = last
        <5>1. c.files[f].samples = file.samples /\ w.files[f].samples = old
          BY <4>1, <2>5, <2>7 DEF old
        <5> QED
          BY <5>1, <2>9
      <4>2. CASE f # last
        BY <4>2, <2>5, <2>7
      <4> QED
        BY <4>1, <4>2
    <3> QED
      BY <3>1, <2>5, <2>7 DEF TSDisk
  <2>12. ASSUME NEW f \in DOMAIN c.files, NEW k \in DOMAIN c.files[f].samples
         PROVE  \/ /\ k \in DOMAIN w.files[f].samples
                   /\ c.files[f].samples[k] = w.files[f].samples[k]
                \/ /\ f = last /\ k \notin DOMAIN old
                   /\ k - Len(old) \in DOMAIN w.buffer
                   /\ c.files[f].samples[k] = w.buffer[k - Len(old)]
    <3>1. CASE f = last
      <4>1. c.files[f].samples = file.samples
        BY <3>1, <2>5, <2>7
      <4>2. CASE k \in DOMAIN old
        BY <3>1, <4>1, <4>2, <2>9 DEF old
      <4>3. CASE k \notin DOMAIN old
        BY <3>1, <4>1, <4>3, <2>9
      <4> QED
        BY <4>2, <4>3
    <3>2. CASE f # last
      BY <3>2, <2>5, <2>7
    <3> QED
      BY <3>1, <3>2
  <2>13. \A i : TSDisk(c.files, i) => TSDisk(w.files, i) \/ \E l \in DOMAIN w.buffer : w.buffer[l] = i
    BY <2>12, <2>5, <2>7 DEF TSDisk
  <2>14. \A f \in DOMAIN w.files : \A k \in DOMAIN w.files[f].samples, l \in DOMAIN w.buffer :
           w.files[f].samples[k] < w.buffer[l]
    BY DEF TSGood, TSOrder, TSDisk
  <2>15. TSOrder(c, n)
    <3>1. \A f \in DOMAIN c.files : T!InOrder(c.files[f].samples)
      <4> SUFFICES ASSUME NEW f \in DOMAIN c.files, NEW k \in DOMAIN c.files[f].samples,
                          NEW l \in DOMAIN c.files[f].samples, k < l
                   PROVE  c.files[f].samples[k] < c.files[f].samples[l]
        BY DEF T!InOrder
      <4>1. CASE f # last
        BY <4>1, <2>5, <2>7 DEF TSGood, TSOrder, T!InOrder
      <4>2. CASE f = last
        <5>1. c.files[f].samples = file.samples
          BY <4>2, <2>5, <2>7
        <5>2. T!InOrder(old) /\ T!InOrder(w.buffer) /\ k \in Nat /\ l \in Nat
          BY <5>1, <2>1, <2>9 DEF old, TSGood, TSOrder
        <5>3. CASE l \in DOMAIN old
          <6>1. k \in DOMAIN old
            BY <5>1, <5>2, <5>3, <2>9
          <6> QED
            BY <5>1, <5>2, <5>3, <6>1, <2>9 DEF T!InOrder
        <5>4. CASE l \notin DOMAIN old /\ k \in DOMAIN old
          <6>1. /\ l - Len(old) \in DOMAIN w.buffer
                /\ file.samples[l] = w.buffer[l - Len(old)] /\ file.samples[k] = old[k]
            BY <5>1, <5>4, <2>9
          <6>2. old[k] < w.buffer[l - Len(old)]
            BY <5>4, <6>1, <2>1, <2>14 DEF old
          <6> QED
            BY <5>1, <6>1, <6>2
        <5>5. CASE l \notin DOMAIN old /\ k \notin DOMAIN old
          <6>1. /\ l - Len(old) \in DOMAIN w.buffer /\ k - Len(old) \in DOMAIN w.buffer
                /\ file.samples[l] = w.buffer[l - Len(old)]
                /\ file.samples[k] = w.buffer[k - Len(old)]
            BY <5>1, <5>5, <2>9
          <6>2. k - Len(old) < l - Len(old)
            BY <5>2, <2>9
          <6> QED
            BY <5>1, <5>2, <6>1, <6>2 DEF T!InOrder
        <5> QED
          BY <5>3, <5>4, <5>5
      <4> QED
        BY <4>1, <4>2
    <3>2. ASSUME NEW f \in DOMAIN c.files, NEW g \in DOMAIN c.files, f < g,
                 NEW k \in DOMAIN c.files[f].samples, NEW l \in DOMAIN c.files[g].samples
          PROVE  c.files[f].samples[k] < c.files[g].samples[l]
      <4>1. f # last /\ f \in DOMAIN w.files /\ g \in DOMAIN w.files
        BY <3>2, <2>1, <2>5, <2>7
      <4>2. k \in DOMAIN w.files[f].samples /\ c.files[f].samples[k] = w.files[f].samples[k]
        BY <4>1, <2>5, <2>7
      <4> QED
        BY <3>2, <4>1, <4>2, <2>12, <2>14 DEF TSGood, TSOrder
    <3>3. \A i : TSDisk(c.files, i) => i \in 1..n
      BY <2>13 DEF TSGood, TSOrder
    <3> QED
      BY <3>1, <3>2, <3>3, <2>8 DEF TSOrder, T!InOrder
  <2>16. Finished(c)
    BY SMTT(20), <2>1, <2>4, <2>5, <2>7 DEF TSGood, Finished
  <2>17. TSKept(c, n)
    BY <2>7, <2>10, <2>11 DEF TSGood, TSKept
  <2> QED
    BY <2>7, <2>15, <2>16, <2>17 DEF TSGood
<1> QED
  BY <1>1, <1>2, <1>3 DEF T!WriteBuffer

LEMMA TSFlushes ==
  ASSUME NEW n \in Nat, NEW w, TSGood(w, n), ~w.panic,
         NEW c \in T!Flush(w)
  PROVE  /\ TSGood(c, n)
         /\ c.segment = T!NoSegment <=> w.segment = T!NoSegment
         /\ c.ok => w.ok
         /\ c.clean /\ ~c.panic => c.buffer = <<>>
         /\ c.panic => ~c.ok
<1>1. CASE w.broken
  BY <1>1, TSFails DEF T!Flush
<1>2. CASE ~w.broken /\ w.buffer = <<>>
  BY <1>2 DEF T!Flush
<1>3. CASE ~w.broken /\ w.buffer # <<>> /\ w.segment = T!NoSegment
  <2>1. c = [w EXCEPT !.panic = TRUE, !.ok = FALSE]
    BY <1>3 DEF T!Flush
  <2>2. /\ c \in TSWriting /\ c.panic = TRUE /\ c.ok = FALSE /\ c.segment = w.segment
        /\ c.buffer = w.buffer /\ c.broken = w.broken /\ c.files = w.files /\ c.clean = w.clean
    BY <2>1 DEF TSGood, TSWriting
  <2> QED
    BY <1>3, <2>2 DEF TSGood, Finished, TSOrder, TSKept
<1>4. CASE ~w.broken /\ w.buffer # <<>> /\ w.segment # T!NoSegment
  <2>1. PICK d \in T!CreateFile(w) : c \in T!WriteBuffer(d)
    BY <1>4 DEF T!Flush
  <2>2. /\ TSGood(d, n) /\ d.segment # T!NoSegment /\ d.panic = w.panic
        /\ d.ok => w.ok /\ d.segment.file # 0
    BY <1>4, TSCreates
  <2> QED
    BY <1>4, <2>1, <2>2, TSWrites
<1> QED
  BY <1>1, <1>2, <1>3, <1>4

(* The next sample goes to the end of the buffer; or, when something has failed, need
   not go anywhere. *)
LEMMA TSPushes ==
  ASSUME NEW n \in Nat, NEW w, TSGood(w, n)
  PROVE  /\ TSGood(T!Push(w, n + 1), n + 1)
         /\ T!Push(w, n + 1).segment = w.segment
         /\ T!Push(w, n + 1).panic = w.panic /\ T!Push(w, n + 1).ok = w.ok
         /\ T!Push(w, n + 1).clean = w.clean
         /\ ~w.clean \/ w.panic => TSGood(w, n + 1)
<1> DEFINE b == Append(w.buffer, n + 1)
           v == T!Push(w, n + 1)
           end == Len(w.buffer) + 1
<1>1. w \in TSWriting /\ w.buffer \in Seq(Nat) /\ Len(w.buffer) \in Nat
  BY DEF TSGood, TSWriting
<1>2. /\ b \in Seq(Nat) /\ end \in DOMAIN b /\ b[end] = n + 1
      /\ \A k \in DOMAIN w.buffer : k \in DOMAIN b /\ b[k] = w.buffer[k]
      /\ \A k \in DOMAIN b : k \in DOMAIN w.buffer \/ k = end
      /\ \A k, l \in DOMAIN b : k < l => k \in DOMAIN w.buffer
  BY <1>1, Appended
<1> HIDE DEF b, end
<1>3. /\ v \in TSWriting /\ v.buffer = b
      /\ v.segment = w.segment /\ v.broken = w.broken /\ v.files = w.files
      /\ v.clean = w.clean /\ v.ok = w.ok /\ v.panic = w.panic
  BY <1>1, <1>2 DEF b, T!Push, TSWriting
<1> HIDE DEF v
<1>4. \A i \in 1..n : i \in 1..(n + 1) /\ i < n + 1
  OBVIOUS
<1>5. n + 1 \in 1..(n + 1)
  OBVIOUS
<1>6. T!InOrder(b)
  <2> SUFFICES ASSUME NEW k \in DOMAIN b, NEW l \in DOMAIN b, k < l PROVE b[k] < b[l]
    BY DEF T!InOrder
  <2>1. k \in DOMAIN w.buffer /\ b[k] = w.buffer[k] /\ w.buffer[k] \in 1..n
    BY <1>1, <1>2 DEF TSGood, TSOrder
  <2>2. CASE l = end
    BY <2>1, <2>2, <1>2, <1>4
  <2>3. CASE l \in DOMAIN w.buffer
    BY <2>1, <2>3, <1>2 DEF TSGood, TSOrder, T!InOrder
  <2> QED
    BY <1>2, <2>2, <2>3
<1>7. ASSUME NEW l \in DOMAIN b
      PROVE  b[l] \in 1..(n + 1) /\ \A i : TSDisk(w.files, i) => i < b[l]
  BY <1>2, <1>4, <1>5 DEF TSGood, TSOrder
<1>8. TSOrder(v, n + 1) /\ (TSOrder(w, n) => TSOrder(w, n + 1))
  BY <1>3, <1>4, <1>6, <1>7 DEF TSGood, TSOrder
<1>9. TSKept(v, n + 1)
  <2>1. ASSUME w.clean, ~w.panic, NEW i \in 1..(n + 1)
        PROVE  TSDisk(w.files, i) \/ \E k \in DOMAIN b : b[k] = i
    <3>1. CASE i = n + 1
      BY <3>1, <1>1, <1>2
    <3>2. CASE i \in 1..n
      BY <2>1, <3>2, <1>1, <1>2 DEF TSGood, TSKept
    <3> QED
      BY <3>1, <3>2
  <2> QED
    BY <2>1, <1>3 DEF TSGood, TSKept
<1>10. Finished(v)
  BY <1>3 DEF TSGood, Finished
<1>11. TSGood(v, n + 1)
  BY <1>3, <1>8, <1>9, <1>10 DEF TSGood
<1>12. ~w.clean \/ w.panic => TSGood(w, n + 1)
  BY <1>8 DEF TSGood, TSKept
<1> QED
  BY <1>3, <1>11, <1>12 DEF v

(* Writing sample n + 1. Nothing but a buffer without a segment ends the program. *)
LEMMA TSWritesSample ==
  ASSUME NEW n \in Nat, NEW w, TSGood(w, n), ~w.panic,
         NEW c \in T!WriteSample(w, n + 1)
  PROVE  /\ TSGood(c, n + 1)
         /\ c.segment = T!NoSegment <=> w.segment = T!NoSegment
<1>1. CASE ~w.ok
  BY <1>1, TSPushes DEF T!WriteSample, TSGood, TSKept
<1>2. CASE w.ok /\ w.broken
  BY <1>2, TSFails, TSPushes DEF T!WriteSample
<1>3. CASE w.ok /\ ~w.broken /\ c = T!Push(w, n + 1)
  BY <1>3, TSPushes
<1>4. CASE w.ok /\ ~w.broken /\ c \in T!Flush(T!Push(w, n + 1))
  <2>1. /\ TSGood(T!Push(w, n + 1), n + 1) /\ ~T!Push(w, n + 1).panic
        /\ T!Push(w, n + 1).segment = w.segment
    BY TSPushes
  <2>2. n + 1 \in Nat
    OBVIOUS
  <2> QED
    BY <1>4, <2>1, <2>2, TSFlushes
<1>5. CASE /\ w.ok /\ ~w.broken
           /\ \E d \in T!Flush(w) : c = IF d.ok THEN T!Push(d, n + 1) ELSE d
  <2>1. PICK d \in T!Flush(w) : c = IF d.ok THEN T!Push(d, n + 1) ELSE d
    BY <1>5
  <2>2. /\ TSGood(d, n)
        /\ d.segment = T!NoSegment <=> w.segment = T!NoSegment
    BY TSFlushes
  <2>3. ~d.ok => ~d.clean \/ d.panic
    BY <2>2 DEF TSGood, TSKept
  <2> QED
    BY <2>1, <2>2, <2>3, TSPushes
<1> QED
  BY <1>1, <1>2, <1>3, <1>4, <1>5 DEF T!WriteSample

(* No file is open. *)
Shut(w) == \A f \in DOMAIN w.files : ~w.files[f].open

LEMMA TSCloses ==
  ASSUME NEW n \in Nat, NEW w, TSGood(w, n), ~w.panic,
         NEW c \in T!CloseSegment(w)
  PROVE  /\ TSGood(c, n) /\ Shut(c)
         /\ c.ok => w.ok
         /\ w.segment # T!NoSegment => c.segment # T!NoSegment /\ ~c.panic
                                       /\ (c.clean => c.buffer = <<>>)
<1>1. PICK d \in T!Flush(w) : c \in T!CloseFile(d)
  BY DEF T!CloseSegment
<1>2. /\ TSGood(d, n) /\ (d.ok => w.ok)
      /\ d.segment = T!NoSegment <=> w.segment = T!NoSegment
      /\ d.clean /\ ~d.panic => d.buffer = <<>>
      /\ d.segment # T!NoSegment => ~d.panic
  BY TSFlushes DEF TSGood, TSKept
<1>3. CASE d.segment.file = 0
  <2>1. c = d
    BY <1>1, <1>3 DEF T!CloseFile
  <2>2. \A f \in DOMAIN d.files : f # 0
    BY <1>2 DEF TSGood, TSWriting
  <2>3. Shut(c)
    BY <1>2, <1>3, <2>1, <2>2 DEF TSGood, Finished, Shut
  <2> QED
    BY <1>2, <2>1, <2>3
<1>4. CASE d.segment.file # 0
  <2> DEFINE last == Len(d.files)
  <2>1. /\ d \in TSWriting /\ last \in Nat /\ d.files \in Seq(TSFile)
        /\ d.segment.file = last /\ last \in DOMAIN d.files /\ d.files[last] \in TSFile
    BY <1>2, <1>4 DEF TSGood, TSWriting, TSSegment, Finished
  <2>0. d.files[last].completed \in Nat /\ d.files[last].completed + 1 \in Nat
         /\ d.files[last].completed + 0 = d.files[last].completed
    BY <2>1 DEF TSFile
  <2>2. PICK told \in {0, 1}, fails \in BOOLEAN, file \in TSFile :
          /\ file = [d.files[last] EXCEPT !.open = FALSE, !.completed = @ + told]
          /\ fails \/ (d.files[last].open /\ told = 1)
          /\ fails => told = 0
          /\ c = IF fails THEN T!Failing([d EXCEPT !.files = [d.files EXCEPT ![last] = file]])
                          ELSE [d EXCEPT !.files = [d.files EXCEPT ![last] = file]]
    <3>1. CASE c = T!Failing([d EXCEPT !.files[last].open = FALSE])
      <4> DEFINE file == [d.files[last] EXCEPT !.open = FALSE, !.completed = @ + 0]
      <4>1. file \in TSFile /\ file = [d.files[last] EXCEPT !.open = FALSE]
        BY <2>1, <2>0 DEF TSFile
      <4>2. c = T!Failing([d EXCEPT !.files = [d.files EXCEPT ![last] = file]])
        BY <3>1, <4>1
      <4> QED
        BY <4>1, <4>2
    <3>2. CASE /\ d.files[last].open
               /\ c = [d EXCEPT !.files[last].open = FALSE, !.files[last].completed = @ + 1]
      <4> DEFINE file == [d.files[last] EXCEPT !.open = FALSE, !.completed = @ + 1]
      <4>1. file \in TSFile
        BY <2>1, <2>0 DEF TSFile
      <4>2. c = [d EXCEPT !.files = [d.files EXCEPT ![last] = file]]
        BY <3>2, <2>1 DEF TSFile, TSWriting
      <4> QED
        BY <3>2, <4>1, <4>2
    <3> QED
      BY <1>1, <1>4, <2>1, <3>1, <3>2 DEF T!CloseFile
  <2>3. /\ file.samples = d.files[last].samples /\ file.open = FALSE
        /\ file.completed = d.files[last].completed + told
    BY <2>1, <2>2 DEF TSFile
  <2> DEFINE fs == [d.files EXCEPT ![last] = file]
             v == [d EXCEPT !.files = fs]
  <2>4. /\ fs \in Seq(TSFile) /\ Len(fs) = last /\ DOMAIN fs = DOMAIN d.files
        /\ fs[last] = file /\ \A f \in DOMAIN d.files : f # last => fs[f] = d.files[f]
    BY <2>1
  <2> HIDE DEF fs
  <2>5. /\ v \in TSWriting /\ v.files = fs
        /\ v.segment = d.segment /\ v.buffer = d.buffer /\ v.broken = d.broken
        /\ v.clean = d.clean /\ v.ok = d.ok /\ v.panic = d.panic
    BY <2>1, <2>4 DEF TSWriting
  <2> HIDE DEF v
  <2>6. /\ c \in TSWriting /\ c.files = fs
        /\ c.segment = d.segment /\ c.buffer = d.buffer /\ c.broken = d.broken
        /\ c.panic = d.panic
        /\ IF fails THEN ~c.ok /\ ~c.clean ELSE c.ok = d.ok /\ c.clean = d.clean
    BY <2>2, <2>5 DEF v, fs, T!Failing, TSWriting
  <2>7. \A f \in DOMAIN d.files : fs[f].samples = d.files[f].samples
    BY <2>3, <2>4
  <2>8. \A i : TSDisk(c.files, i) <=> TSDisk(d.files, i)
    BY <2>4, <2>6, <2>7 DEF TSDisk
  <2>9. TSOrder(c, n)
    BY <1>2, <2>4, <2>6, <2>7, <2>8 DEF TSGood, TSOrder
  <2>10. TSKept(c, n)
    BY <1>2, <2>6, <2>8 DEF TSGood, TSKept
  <2>11. Shut(c)
    BY <1>2, <2>1, <2>3, <2>4, <2>6 DEF TSGood, Finished, Shut
  <2>12. Finished(c)
    <3> SUFFICES ASSUME NEW f \in DOMAIN c.files
                 PROVE  /\ c.files[f].completed <= 1
                        /\ c.clean => c.files[f].completed = 1
      BY <2>1, <2>4, <2>6, <2>11 DEF Finished, Shut
    <3>1. CASE f = last
      <4>1. c.files[f].completed = d.files[last].completed + told
        BY <3>1, <2>3, <2>4, <2>6
      <4>2. d.files[last].completed \in Nat /\ d.files[last].completed <= 1
        BY <1>2, <2>1 DEF TSGood, Finished, TSFile
      <4>3. CASE fails
        BY <4>1, <4>2, <4>3, <2>2, <2>6
      <4>4. CASE ~fails
        <5>1. d.files[last].completed = 0 /\ told = 1
          BY <4>4, <1>2, <2>1, <2>2 DEF TSGood, Finished
        <5> QED
          BY <4>1, <5>1
      <4> QED
        BY <4>3, <4>4
    <3>2. CASE f # last
      BY SMTT(20), <3>2, <1>2, <2>1, <2>4, <2>6 DEF TSGood, Finished
    <3> QED
      BY <3>1, <3>2
  <2> QED
    BY <1>2, <2>6, <2>9, <2>10, <2>11, <2>12 DEF TSGood
<1> QED
  BY <1>3, <1>4

(* The samples received: their times start from 1. *)
TSSample == [track : Tracks \cup AC3, dts : Nat \ {0}, sync : BOOLEAN]

(* A segment that starts at a sample, when no file is open. *)
LEMMA TSSwitches ==
  ASSUME NEW n \in Nat, NEW w, TSGood(w, n), ~w.panic, Shut(w),
         received' \in Seq(TSSample), NEW i \in DOMAIN received'
  PROVE  /\ TSGood([w EXCEPT !.segment = T!NewSegment(i)], n)
         /\ [w EXCEPT !.segment = T!NewSegment(i)].segment # T!NoSegment
         /\ ~[w EXCEPT !.segment = T!NewSegment(i)].panic
<1> DEFINE s == T!NewSegment(i)
           c == [w EXCEPT !.segment = s]
<1>1. received'[i] \in TSSample
  BY ElementOfSeq
<1>2. received'[i].dts \in Nat \ {0}
  BY <1>1 DEF TSSample
<1>3. s \in TSSegment /\ s.startDTS # 0 /\ s.file = 0
  BY <1>2 DEF T!NewSegment, T!DTS, TSSegment
<1>4. s # T!NoSegment
  BY <1>3 DEF T!NoSegment
<1> HIDE DEF s
<1>5. /\ c \in TSWriting /\ c.segment = s
      /\ c.buffer = w.buffer /\ c.broken = w.broken /\ c.files = w.files
      /\ c.clean = w.clean /\ c.ok = w.ok /\ c.panic = w.panic
  BY <1>3 DEF TSGood, TSWriting
<1> HIDE DEF c
<1>6. TSGood(c, n)
  BY <1>3, <1>5 DEF TSGood, Finished, Shut, TSOrder, TSKept
<1> QED
  BY <1>4, <1>5, <1>6 DEF s, c

LEMMA TSSetsUp ==
  ASSUME NEW n \in Nat, NEW w, TSGood(w, n), ~w.panic,
         received' \in Seq(TSSample), NEW i \in DOMAIN received',
         NEW t, NEW c \in T!SetupSegment(w, t, i)
  PROVE  TSGood(c, n) /\ c.segment # T!NoSegment /\ ~c.panic
<1>1. CASE w.segment = T!NoSegment
  <2>1. Shut(w)
    <3>1. \A f \in DOMAIN w.files : f # 0
      BY DEF TSGood, TSWriting
    <3>2. w.segment.file = 0
      BY <1>1 DEF T!NoSegment
    <3> QED
      BY <3>1, <3>2 DEF TSGood, Finished, Shut
  <2>2. c = [w EXCEPT !.segment = T!NewSegment(i)]
    BY <1>1 DEF T!SetupSegment
  <2> QED
    BY <2>1, <2>2, TSSwitches
<1>2. CASE w.segment # T!NoSegment /\ c \in T!Rotate(w, i)
  <2>1. PICK d \in T!CloseSegment(w) :
          c = IF d.ok THEN [d EXCEPT !.segment = T!NewSegment(i)] ELSE d
    BY <1>2 DEF T!Rotate
  <2>2. TSGood(d, n) /\ Shut(d) /\ d.segment # T!NoSegment /\ ~d.panic
    BY <1>2, TSCloses
  <2> QED
    BY <2>1, <2>2, TSSwitches
<1>3. CASE w.segment # T!NoSegment /\ c \in T!FlushPart(w, i)
  <2>1. PICK d \in T!Flush(w) :
          c = IF d.ok THEN [d EXCEPT !.segment.lastFlush = T!DTS(i)] ELSE d
    BY <1>3 DEF T!FlushPart
  <2>2. TSGood(d, n) /\ d.segment # T!NoSegment /\ ~d.panic
    BY <1>3, TSFlushes DEF TSGood, TSKept
  <2> DEFINE s == [d.segment EXCEPT !.lastFlush = T!DTS(i)]
             v == [d EXCEPT !.segment = s]
  <2>3. received'[i] \in TSSample
    BY ElementOfSeq
  <2>4. T!DTS(i) \in Nat
    BY <2>3 DEF TSSample, T!DTS
  <2>5. d.segment \in TSSegment
    BY <2>2 DEF TSGood, TSWriting
  <2>6. s \in TSSegment /\ s.startDTS = d.segment.startDTS /\ s.file = d.segment.file
    BY <2>4, <2>5 DEF TSSegment
  <2>7. s.startDTS # 0 /\ s # T!NoSegment
    BY <2>2, <2>6 DEF TSGood, TSKept, T!NoSegment
  <2> HIDE DEF s
  <2>8. /\ v \in TSWriting /\ v.segment = s
        /\ v.buffer = d.buffer /\ v.broken = d.broken /\ v.files = d.files
        /\ v.clean = d.clean /\ v.ok = d.ok /\ v.panic = d.panic
    BY <2>2, <2>6 DEF TSGood, TSWriting
  <2>9. v = [d EXCEPT !.segment.lastFlush = T!DTS(i)]
    BY DEF s
  <2> HIDE DEF v
  <2>10. TSGood(v, n)
    BY <2>2, <2>6, <2>7, <2>8 DEF TSGood, Finished, TSOrder, TSKept
  <2> QED
    BY <2>1, <2>2, <2>7, <2>8, <2>9, <2>10
<1>4. CASE w.segment # T!NoSegment /\ c = w
  BY <1>4
<1> QED
  BY <1>1, <1>2, <1>3, <1>4 DEF T!SetupSegment

(* A set of numbers up to n that is not empty has a greatest one. *)
LEMMA MaxIsIn ==
  ASSUME NEW n \in Nat, NEW S, S \subseteq 1..n, S # {}
  PROVE  T!Max(S) \in S
<1> DEFINE U == {n - x : x \in S}
<1>1. U \subseteq Nat /\ U # {}
  <2>1. \A x \in S : n - x \in Nat
    OBVIOUS
  <2>2. PICK x \in S : TRUE
    OBVIOUS
  <2>3. n - x \in U
    OBVIOUS
  <2> QED
    BY <2>1, <2>3
<1>2. C!MinOf(U) \in U /\ \A u \in U : C!MinOf(U) <= u
  BY <1>1, MinOfIsLeast
<1>3. PICK x \in S : C!MinOf(U) = n - x
  BY <1>2
<1>4. \A y \in S : n - x <= n - y
  BY <1>2, <1>3
<1>5. \A y \in S : x >= y
  BY <1>4
<1> QED
  BY <1>5 DEF T!Max
-----------------------------------------------------------------------------
(* What is being written when the agent waits for a unit; until there is a segment,
   there was nothing but AC-3, and what an agent that is done leaves. *)
TSNow ==
  [segment |-> currentSegment, buffer |-> buffer, broken |-> broken, files |-> files,
   clean |-> clean, ok |-> agent # "panicked", panic |-> agent = "panicked"]

OnlyAC3 == \A i \in DOMAIN received : received[i].track \in AC3

TSInv ==
  /\ received \in Seq(TSSample)
  /\ agent \in {"recording", "failed", "panicked", "done"}
  /\ TSGood(TSNow, Len(received))
  /\ currentSegment = T!NoSegment => OnlyAC3
  /\ agent = "done" =>
       Shut(TSNow) /\ (clean /\ currentSegment # T!NoSegment => buffer = <<>>)

LEMMA TSInit == T!Init => TSInv
<1> SUFFICES ASSUME T!Init PROVE TSInv
  OBVIOUS
<1>1. /\ received = <<>> /\ buffer = <<>> /\ files = <<>> /\ clean = TRUE /\ broken = FALSE
      /\ currentSegment = T!NoSegment /\ agent = "recording"
  BY DEF T!Init
<1>2. DOMAIN received = {} /\ DOMAIN files = {} /\ DOMAIN buffer = {}
      /\ Len(received) = 0 /\ Len(files) = 0
  BY <1>1
<1>3. TSNow \in TSWriting
  <2>1. T!NoSegment \in TSSegment
    BY DEF T!NoSegment, TSSegment
  <2>2. <<>> \in Seq(Nat) /\ <<>> \in Seq(TSFile)
    OBVIOUS
  <2> QED
    BY <1>1, <2>1, <2>2 DEF TSNow, TSWriting
<1>4. TSGood(TSNow, Len(received))
  <2>1. /\ TSNow.segment = T!NoSegment /\ T!NoSegment.file = 0 /\ ~TSNow.broken /\ TSNow.ok
        /\ ~TSNow.panic /\ TSNow.files = files /\ TSNow.buffer = buffer
    BY <1>1 DEF TSNow, T!NoSegment
  <2>2. Finished(TSNow)
    BY <1>2, <2>1 DEF Finished
  <2>3. TSOrder(TSNow, 0)
    BY <1>2, <2>1 DEF TSOrder, TSDisk, T!InOrder
  <2>4. TSKept(TSNow, 0)
    BY <2>1 DEF TSKept
  <2> QED
    BY <1>2, <1>3, <2>2, <2>3, <2>4 DEF TSGood
<1> QED
  BY <1>1, <1>2, <1>4 DEF TSInv, OnlyAC3

(* What an operation leaves is what the agent goes on with. *)
LEMMA TSGoesOn ==
  ASSUME NEW n \in Nat, NEW w, TSGood(w, n), T!Becomes(w),
         (agent' = "panicked") <=> w.panic
  PROVE  TSGood(TSNow', n) /\ (Shut(w) => Shut(TSNow'))
<1>1. /\ TSNow'.segment = w.segment /\ TSNow'.buffer = w.buffer /\ TSNow'.broken = w.broken
      /\ TSNow'.files = w.files /\ TSNow'.clean = w.clean
      /\ TSNow'.ok = ~w.panic /\ TSNow'.panic = w.panic
  BY DEF TSNow, T!Becomes, TSGood, TSWriting
<1>2. TSNow' \in TSWriting
  BY DEF TSNow, T!Becomes, TSGood, TSWriting
<1> HIDE DEF TSNow
<1> QED
  BY ZenonT(30), <1>1, <1>2 DEF TSGood, Finished, Shut, TSOrder, TSKept

LEMMA TSStep ==
  ASSUME TSInv, T!Next
  PROVE  TSInv'
<1> DEFINE n == Len(received)
<1>1. n \in Nat /\ received \in Seq(TSSample) /\ DOMAIN received = 1..n
  BY DEF TSInv
<1>2. agent # "panicked" =>
        /\ TSNow = T!Writing /\ TSGood(T!Writing, n) /\ ~T!Writing.panic
        /\ T!Writing.segment = currentSegment
  BY DEF TSInv, TSNow, T!Writing
<1>3. ASSUME NEW t \in Tracks \cup AC3, NEW sync \in BOOLEAN, NEW setup \in BOOLEAN,
             T!Sample(t, sync, setup), ~setup => t \in AC3
      PROVE  TSInv'
  <2>1. agent = "recording"
    BY <1>3 DEF T!Sample
  <2>2. PICK gap \in Gaps :
          received' = Append(received, [track |-> t, dts |-> T!LastDTS(t) + gap, sync |-> sync])
    BY <1>3 DEF T!Sample
  <2>3. T!LastDTS(t) \in Nat \ {0}
    <3> DEFINE own == {i \in DOMAIN received : received[i].track = t}
    <3>1. CASE own = {}
      BY <3>1 DEF T!LastDTS
    <3>2. CASE own # {}
      <4>1. own \subseteq 1..n
        BY <1>1
      <4> HIDE DEF n
      <4>2. T!Max(own) \in own
        BY <1>1, <3>2, <4>1, MaxIsIn
      <4>3. received[T!Max(own)] \in TSSample
        BY <1>1, <4>2, ElementOfSeq
      <4> QED
        BY <3>2, <4>3 DEF T!LastDTS, TSSample
    <3> QED
      BY <3>1, <3>2
  <2> DEFINE x == [track |-> t, dts |-> T!LastDTS(t) + gap, sync |-> sync]
  <2>4. x \in TSSample
    BY <2>3, AgentAssumption DEF TSSample
  <2>5. x.track = t
    OBVIOUS
  <2> HIDE DEF x
  <2>6. /\ received' \in Seq(TSSample) /\ Len(received') = n + 1
        /\ n + 1 \in DOMAIN received' /\ received'[n + 1] = x
        /\ \A i \in DOMAIN received : i \in DOMAIN received' /\ received'[i] = received[i]
        /\ \A i \in DOMAIN received' : i \in DOMAIN received \/ i = n + 1
    BY <1>1, <2>2, <2>4, Appended DEF x
  <2> HIDE DEF n
  <2>7. PICK s \in IF setup THEN T!SetupSegment(T!Writing, t, n + 1) ELSE {T!Writing} :
        \E w \in T!WriteSample(s, n + 1) :
          /\ T!Becomes(w)
          /\ agent' = CASE w.panic -> "panicked"
                        [] ~w.panic /\ w.ok -> agent
                        [] OTHER -> "failed"
    BY <1>3 DEF T!Sample, n
  <2>8. PICK w \in T!WriteSample(s, n + 1) :
          /\ T!Becomes(w)
          /\ agent' = CASE w.panic -> "panicked"
                        [] ~w.panic /\ w.ok -> agent
                        [] OTHER -> "failed"
    BY <2>7
  <2>9. /\ TSGood(s, n) /\ ~s.panic
        /\ setup => s.segment # T!NoSegment
        /\ ~setup => s.segment = currentSegment
    BY <1>1, <1>2, <2>1, <2>6, <2>7, TSSetsUp
  <2>10. /\ TSGood(w, n + 1)
         /\ w.segment = T!NoSegment <=> s.segment = T!NoSegment
    BY <1>1, <2>8, <2>9, TSWritesSample
  <2>11. /\ agent' \in {"recording", "failed", "panicked"}
         /\ agent' = "panicked" <=> w.panic
    BY <2>1, <2>8
  <2>12. TSGood(TSNow', n + 1)
    BY <1>1, <2>8, <2>10, <2>11, TSGoesOn
  <2>13. ASSUME currentSegment' = T!NoSegment PROVE OnlyAC3'
    <3>1. currentSegment = T!NoSegment /\ t \in AC3
      BY <1>3, <2>8, <2>9, <2>10, <2>13 DEF T!Becomes
    <3> QED
      BY <3>1, <2>5, <2>6 DEF TSInv, OnlyAC3
  <2> QED
    BY <2>6, <2>11, <2>12, <2>13 DEF TSInv
<1>4. CASE T!InvalidUnit
  <2>1. TSNow' = TSNow /\ UNCHANGED <<received, currentSegment>> /\ agent' = "failed"
    BY <1>4 DEF T!InvalidUnit, T!writing, TSNow
  <2> QED
    BY <2>1 DEF TSInv, OnlyAC3
<1>5. CASE T!Close
  <2>1. agent \in {"recording", "failed"} /\ agent' = "done" /\ UNCHANGED received
    BY <1>5 DEF T!Close
  <2>2. PICK w \in IF currentSegment = T!NoSegment THEN {T!Writing}
                                                   ELSE T!CloseSegment(T!Writing) :
          T!Becomes(w)
    BY <1>5 DEF T!Close
  <2> HIDE DEF n
  <2>3. TSGood(w, n) /\ Shut(w) /\ ~w.panic
    <3>1. CASE currentSegment = T!NoSegment
      <4>1. \A f \in DOMAIN T!Writing.files : f # 0
        BY <1>2, <2>1 DEF TSGood, TSWriting
      <4>2. T!Writing.segment.file = 0
        BY <3>1, <1>2, <2>1 DEF T!NoSegment
      <4> QED
        BY <3>1, <4>1, <4>2, <1>2, <2>1, <2>2 DEF TSGood, Finished, Shut
    <3>2. CASE currentSegment # T!NoSegment
      BY <3>2, <1>1, <1>2, <2>1, <2>2, TSCloses
    <3> QED
      BY <3>1, <3>2
  <2>4. /\ currentSegment = T!NoSegment <=> currentSegment' = T!NoSegment
        /\ clean' /\ currentSegment' # T!NoSegment => buffer' = <<>>
    <3>1. CASE currentSegment = T!NoSegment
      BY <3>1, <2>2 DEF T!Becomes, T!Writing
    <3>2. CASE currentSegment # T!NoSegment
      BY <3>2, <1>1, <1>2, <2>1, <2>2, TSCloses DEF T!Becomes
    <3> QED
      BY <3>1, <3>2
  <2>5. TSGood(TSNow', n) /\ Shut(TSNow')
    BY <1>1, <2>1, <2>2, <2>3, TSGoesOn
  <2>6. n' = n
    BY <2>1 DEF n
  <2> QED
    BY <2>1, <2>4, <2>5, <2>6 DEF TSInv, OnlyAC3, n
<1>6. CASE \E t \in Tracks \cup AC3 : T!VideoUnit(t) \/ T!AudioUnit(t) \/ T!AC3Unit(t)
  BY <1>3, <1>6 DEF T!VideoUnit, T!AudioUnit, T!AC3Unit
<1> QED
  BY <1>4, <1>5, <1>6 DEF T!Next

LEMMA TSIsFinished == TSInv => T!FilesAreFinished
<1> SUFFICES ASSUME TSInv PROVE T!FilesAreFinished
  OBVIOUS
<1>1. TSNow.files = files /\ TSNow.clean = clean /\ TSNow.segment = currentSegment
  BY DEF TSNow
<1> QED
  BY <1>1 DEF TSInv, TSGood, Finished, Shut, T!FilesAreFinished

LEMMA TSLosesNothing == TSInv => T!NothingLost
<1> SUFFICES ASSUME TSInv PROVE T!NothingLost
  OBVIOUS
<1>1. /\ TSNow.files = files /\ TSNow.clean = clean /\ TSNow.segment = currentSegment
      /\ TSNow.buffer = buffer /\ TSNow.panic = (agent = "panicked")
  BY DEF TSNow
<1>2. TSOrder(TSNow, Len(received)) /\ TSKept(TSNow, Len(received))
      /\ DOMAIN received = 1..Len(received)
  BY DEF TSInv, TSGood
<1>3. \A i : i \in T!OnDisk <=> TSDisk(files, i)
  <2>1. T!OnDisk = UNION {T!Range(files[f].samples) : f \in DOMAIN files}
    BY DEF T!OnDisk, T!Range
  <2> QED
    BY <2>1 DEF TSDisk, T!Range
<1>4. \A f, g \in DOMAIN files :
        /\ T!InOrder(files[f].samples)
        /\ f < g => \A i \in T!Range(files[f].samples), j \in T!Range(files[g].samples) : i < j
  BY <1>1, <1>2 DEF TSOrder, T!Range
<1>5. clean /\ agent # "panicked" =>
        /\ T!OnDisk \cup T!Range(buffer) = DOMAIN received
        /\ T!InOrder(buffer)
        /\ \A i \in T!OnDisk, j \in T!Range(buffer) : i < j
  BY ZenonT(30), <1>1, <1>2, <1>3 DEF TSOrder, TSKept, T!Range
<1>6. /\ agent = "done" /\ clean /\ ~OnlyAC3 => buffer = <<>>
      /\ agent = "panicked" => OnlyAC3
  BY <1>1, <1>2 DEF TSInv, TSKept
<1> QED
  BY <1>4, <1>5, <1>6 DEF T!NothingLost, OnlyAC3
-----------------------------------------------------------------------------
(* The agent that writes fMP4. *)
F4Part == [number : Nat, samples : Seq(Nat)]
F4File == [init : Nat, parts : Seq(F4Part), open : BOOLEAN, completed : Nat]
F4Segment == [startDTS : Nat, file : Nat, part : Seq(Nat), number : Nat]
F4Writing ==
  [segment : F4Segment, number : Nat, files : Seq(F4File), clean : BOOLEAN, ok : BOOLEAN]

(* Of two samples of one track, i came first. *)
Later(rec, i, j) == rec[i].track = rec[j].track => i < j

InSequence(rec, s) == \A k, l \in DOMAIN s : k < l => Later(rec, s[k], s[l])

F4Disk(fs, i) ==
  \E f \in DOMAIN fs : \E p \in DOMAIN fs[f].parts :
    \E k \in DOMAIN fs[f].parts[p].samples : fs[f].parts[p].samples[k] = i

(* In order within a part, and from part to part. *)
F4Order(fs, rec) ==
  \A f, g \in DOMAIN fs : \A p \in DOMAIN fs[f].parts, q \in DOMAIN fs[g].parts :
    /\ InSequence(rec, fs[f].parts[p].samples)
    /\ f < g \/ (f = g /\ p < q) =>
         /\ fs[f].parts[p].number < fs[g].parts[q].number
         /\ \A k \in DOMAIN fs[f].parts[p].samples, l \in DOMAIN fs[g].parts[q].samples :
              Later(rec, fs[f].parts[p].samples[k], fs[g].parts[q].samples[l])

(* The numbers on disk, the versions there, and what may follow it. *)
Below(fs, n) ==
  \A f \in DOMAIN fs : \A p \in DOMAIN fs[f].parts : fs[f].parts[p].number < n

Recent(fs, rec) ==
  \A f \in DOMAIN fs : \A p \in DOMAIN fs[f].parts : \A k \in DOMAIN fs[f].parts[p].samples :
    rec[fs[f].parts[p].samples[k]].version <= fs[f].init

DiskBefore(fs, rec, s) ==
  \A i : F4Disk(fs, i) => \A l \in DOMAIN s : Later(rec, i, s[l])

(* Where the samples are all, of the set all of samples received whose duration is
   known. The file of the segment starts with version ver of the parameters. *)
F4Base(w, rec, all, ver) ==
  /\ w \in F4Writing /\ Finished(w)
  /\ F4Order(w.files, rec) /\ InSequence(rec, w.segment.part)
  /\ Below(w.files, w.number)
  /\ w.segment.part # <<>> => w.segment.number < w.number
  /\ Recent(w.files, rec)
  /\ w.segment.file # 0 => w.files[w.segment.file].init = ver
  /\ \A i \in all : rec[i].version <= ver
  /\ \A i : F4Disk(w.files, i) => i \in all
  /\ \A k \in DOMAIN w.segment.part : w.segment.part[k] \in all
  /\ w.clean => w.ok
  /\ w.clean => \A i \in all :
       F4Disk(w.files, i) \/ \E k \in DOMAIN w.segment.part : w.segment.part[k] = i

(* The current part is not on disk. A part of a segment whose file was closed may be,
   but it cannot be written again. *)
Fresh(w, rec) ==
  /\ w.segment.part # <<>> => Below(w.files, w.segment.number)
  /\ DiskBefore(w.files, rec, w.segment.part)

Writable(w) == w.segment.file = 0 \/ w.files[w.segment.file].open

F4Good(w, rec, all, ver) ==
  /\ F4Base(w, rec, all, ver)
  /\ Writable(w) => Fresh(w, rec)
  /\ w.clean => Writable(w)

(* Files with the same parts. *)
SameParts(fs, gs) ==
  \A f, p :
    /\ f \in DOMAIN fs /\ p \in DOMAIN fs[f].parts <=> f \in DOMAIN gs /\ p \in DOMAIN gs[f].parts
    /\ f \in DOMAIN fs /\ p \in DOMAIN fs[f].parts =>
         gs[f].parts[p] = fs[f].parts[p] /\ gs[f].init = fs[f].init

LEMMA SamePartsSame ==
  ASSUME NEW fs, NEW gs, SameParts(fs, gs)
  PROVE  /\ \A rec : F4Order(fs, rec) => F4Order(gs, rec)
         /\ \A i : F4Disk(fs, i) <=> F4Disk(gs, i)
         /\ \A n : Below(fs, n) => Below(gs, n)
         /\ \A rec : Recent(fs, rec) => Recent(gs, rec)
         /\ \A rec, s : DiskBefore(fs, rec, s) => DiskBefore(gs, rec, s)
<1>1. \A i : F4Disk(fs, i) <=> F4Disk(gs, i)
  BY DEF SameParts, F4Disk
<1>2. \A rec : F4Order(fs, rec) => F4Order(gs, rec)
  BY DEF SameParts, F4Order
<1>3. \A n : Below(fs, n) => Below(gs, n)
  BY DEF SameParts, Below
<1>4. \A rec : Recent(fs, rec) => Recent(gs, rec)
  BY DEF SameParts, Recent
<1>5. \A rec, s : DiskBefore(fs, rec, s) => DiskBefore(gs, rec, s)
  BY <1>1 DEF DiskBefore
<1> QED
  BY <1>1, <1>2, <1>3, <1>4, <1>5

LEMMA F4Fails ==
  ASSUME NEW rec, NEW all, NEW ver, NEW w, F4Base(w, rec, all, ver)
  PROVE  /\ F4Base(F!Failing(w), rec, all, ver)
         /\ F!Failing(w).segment = w.segment /\ F!Failing(w).files = w.files
         /\ ~F!Failing(w).ok /\ ~F!Failing(w).clean
         /\ F4Good(w, rec, all, ver) => F4Good(F!Failing(w), rec, all, ver)
<1> DEFINE c == F!Failing(w)
<1>1. /\ c \in F4Writing /\ ~c.ok /\ ~c.clean
      /\ c.segment = w.segment /\ c.number = w.number /\ c.files = w.files
  BY DEF F!Failing, F4Base, F4Writing
<1> HIDE DEF c
<1>2. F4Base(c, rec, all, ver)
  BY <1>1 DEF F4Base, Finished
<1>3. F4Good(w, rec, all, ver) => F4Good(c, rec, all, ver)
  BY <1>1, <1>2 DEF F4Good, Fresh, Writable
<1> QED
  BY <1>1, <1>2, <1>3 DEF c

(* What keeps the parts on disk, the current part and the numbers. *)
LEMMA F4Same ==
  ASSUME NEW rec, NEW all, NEW ver, NEW w, F4Base(w, rec, all, ver),
         NEW c \in F4Writing, Finished(c), SameParts(w.files, c.files),
         c.segment.part = w.segment.part, c.segment.number = w.segment.number,
         c.number = w.number, c.clean => w.clean, c.clean => c.ok,
         c.segment.file # 0 => c.files[c.segment.file].init = ver
  PROVE  /\ F4Base(c, rec, all, ver)
         /\ Fresh(w, rec) => Fresh(c, rec)
         /\ \A i : F4Disk(w.files, i) <=> F4Disk(c.files, i)
<1> DEFINE gs == c.files
<1>1. /\ F4Order(w.files, rec) => F4Order(gs, rec)
      /\ \A i : F4Disk(w.files, i) <=> F4Disk(gs, i)
      /\ \A n : Below(w.files, n) => Below(gs, n)
      /\ Recent(w.files, rec) => Recent(gs, rec)
      /\ \A t : DiskBefore(w.files, rec, t) => DiskBefore(gs, rec, t)
  BY SamePartsSame
<1>2. F4Order(gs, rec) /\ Below(gs, c.number) /\ Recent(gs, rec)
  BY <1>1 DEF F4Base
<1>3. InSequence(rec, c.segment.part)
  BY DEF F4Base
<1>4. \A i : F4Disk(gs, i) => i \in all
  BY <1>1 DEF F4Base
<1>5. ASSUME c.clean, NEW i \in all
      PROVE  F4Disk(gs, i) \/ \E k \in DOMAIN c.segment.part : c.segment.part[k] = i
  BY <1>1, <1>5 DEF F4Base
<1>6. /\ c.segment.part # <<>> => c.segment.number < c.number
      /\ \A i \in all : rec[i].version <= ver
      /\ \A k \in DOMAIN c.segment.part : c.segment.part[k] \in all
  BY DEF F4Base
<1>7. F4Base(c, rec, all, ver)
  BY <1>2, <1>3, <1>4, <1>5, <1>6 DEF F4Base
<1>8. ASSUME Fresh(w, rec) PROVE Fresh(c, rec)
  BY <1>1, <1>8 DEF Fresh
<1> QED
  BY <1>1, <1>7, <1>8

(* A file that is created has no part; its parameters are those of now. *)
LEMMA F4Creates ==
  ASSUME NEW rec, NEW all, NEW ver, NEW w, F4Good(w, rec, all, ver),
         version' \in Nat, version' = ver \/ w.segment.file # 0,
         NEW c \in F!CreateFile(w)
  PROVE  /\ F4Good(c, rec, all, ver)
         /\ c.segment.part = w.segment.part /\ c.segment.number = w.segment.number
         /\ c.ok => w.ok /\ c.segment.file # 0
         /\ c.clean => w.clean
<1>1. CASE w.segment.file # 0
  BY <1>1 DEF F!CreateFile
<1>2. CASE c = F!Failing(w)
  BY <1>2, F4Fails DEF F4Good
<1> DEFINE file(open) == [init |-> version', parts |-> <<>>, open |-> open, completed |-> 0]
           fs(open) == Append(w.files, file(open))
           v(open) == [w EXCEPT !.files = fs(open)]
<1>3. /\ w \in F4Writing /\ Len(w.files) \in Nat /\ w.files \in Seq(F4File)
      /\ w.segment \in F4Segment
  BY DEF F4Good, F4Base, F4Writing
<1>4. ASSUME NEW open \in BOOLEAN
      PROVE  /\ fs(open) \in Seq(F4File) /\ Len(fs(open)) = Len(w.files) + 1
             /\ Len(w.files) + 1 \in DOMAIN fs(open)
             /\ fs(open)[Len(w.files) + 1] = file(open)
             /\ \A f \in DOMAIN w.files : f \in DOMAIN fs(open) /\ fs(open)[f] = w.files[f]
                                          /\ f # Len(w.files) + 1
             /\ \A f \in DOMAIN fs(open) : f \in DOMAIN w.files \/ f = Len(w.files) + 1
             /\ SameParts(w.files, fs(open))
  <2>1. <<>> \in Seq(F4Part)
    OBVIOUS
  <2>2. file(open) \in F4File
    BY <2>1 DEF F4File
  <2>3. DOMAIN file(open).parts = {}
    OBVIOUS
  <2> HIDE DEF file
  <2>4. /\ fs(open) \in Seq(F4File) /\ Len(fs(open)) = Len(w.files) + 1
        /\ Len(w.files) + 1 \in DOMAIN fs(open)
        /\ fs(open)[Len(w.files) + 1] = file(open)
        /\ \A f \in DOMAIN w.files : f \in DOMAIN fs(open) /\ fs(open)[f] = w.files[f]
                                     /\ f < Len(w.files) + 1
        /\ \A f \in DOMAIN fs(open) : f \in Nat /\ (f \in DOMAIN w.files \/ f = Len(w.files) + 1)
    BY <1>3, <2>2, Appended
  <2>5. \A f \in DOMAIN w.files : f # Len(w.files) + 1
    BY <1>3
  <2> HIDE DEF fs
  <2> QED
    BY <2>3, <2>4, <2>5 DEF SameParts
<1>5. ASSUME NEW open \in BOOLEAN
      PROVE  /\ v(open) \in F4Writing /\ v(open).files = fs(open)
             /\ v(open).segment = w.segment /\ v(open).number = w.number
             /\ v(open).clean = w.clean /\ v(open).ok = w.ok
  <2> HIDE DEF fs
  <2> QED
    BY <1>3, <1>4 DEF F4Writing
<1>6. CASE w.segment.file = 0 /\ c = F!Failing(v(FALSE))
  <2> DEFINE u == v(FALSE)
             gs == fs(FALSE)
  <2>1. /\ c \in F4Writing /\ ~c.ok /\ ~c.clean
        /\ c.segment = w.segment /\ c.number = w.number /\ c.files = gs
    <3>1. /\ u \in F4Writing /\ u.files = gs
          /\ u.segment = w.segment /\ u.number = w.number
      BY <1>5
    <3> HIDE DEF u
    <3> QED
      BY <1>6, <3>1 DEF F!Failing, F4Writing, u
  <2>2. SameParts(w.files, gs)
    BY <1>4
  <2>3. Finished(c)
    <3>1. c.segment.file = 0 /\ ~c.clean
      BY <1>6, <2>1
    <3>2. \A f \in DOMAIN gs : ~gs[f].open /\ gs[f].completed <= 1
      <4>1. ASSUME NEW f \in DOMAIN w.files PROVE ~w.files[f].open /\ w.files[f].completed <= 1
        BY <1>3, <1>6 DEF F4Good, F4Base, Finished
      <4>2. ~file(FALSE).open /\ file(FALSE).completed <= 1
        OBVIOUS
      <4> HIDE DEF file, fs
      <4> QED
        BY <1>4, <4>1, <4>2
    <3> QED
      BY <3>1, <3>2, <2>1 DEF Finished
  <2>4. w.segment.file = 0 /\ F4Base(w, rec, all, ver)
    BY <1>6 DEF F4Good
  <2>5. Fresh(w, rec)
    BY <2>4 DEF F4Good, Writable
  <2> HIDE DEF gs, fs, v, file
  <2>6. F4Base(c, rec, all, ver) /\ Fresh(c, rec)
    BY <2>1, <2>2, <2>3, <2>4, <2>5, F4Same
  <2> QED
    BY <2>1, <2>4, <2>6 DEF F4Good
<1>7. CASE /\ w.segment.file = 0 /\ c # F!Failing(w) /\ c # F!Failing(v(FALSE))
  <2> DEFINE s == [w.segment EXCEPT !.file = Len(w.files) + 1]
             u == v(TRUE)
             gs == fs(TRUE)
  <2>1. c = [u EXCEPT !.segment = s]
    <3>1. c = [w EXCEPT !.files = fs(TRUE), !.segment.file = Len(w.files) + 1]
      BY <1>7 DEF F!CreateFile
    <3> QED
      BY <3>1, <1>3 DEF F4Writing
  <2>2. /\ s \in F4Segment /\ s.part = w.segment.part /\ s.number = w.segment.number
        /\ s.file = Len(w.files) + 1
    <3> DEFINE next == Len(w.files) + 1
    <3>1. next \in Nat /\ w.segment \in F4Segment
      BY <1>3
    <3> HIDE DEF next
    <3>2. [w.segment EXCEPT !.file = next] \in F4Segment
      BY <3>1 DEF F4Segment
    <3>3. /\ [w.segment EXCEPT !.file = next].part = w.segment.part
          /\ [w.segment EXCEPT !.file = next].number = w.segment.number
          /\ [w.segment EXCEPT !.file = next].file = next
      BY <3>1 DEF F4Segment
    <3> QED
      BY <3>2, <3>3 DEF next
  <2>3. /\ u \in F4Writing /\ u.files = gs /\ u.number = w.number
        /\ u.clean = w.clean /\ u.ok = w.ok
    BY <1>5
  <2> HIDE DEF u, s
  <2>4. /\ c \in F4Writing /\ c.ok = w.ok /\ c.clean = w.clean
        /\ c.segment = s /\ c.number = w.number /\ c.files = gs
    BY <2>1, <2>2, <2>3 DEF F4Writing
  <2>5. SameParts(w.files, gs)
    BY <1>4
  <2>6. file(TRUE).open /\ file(TRUE).completed = 0 /\ file(TRUE).init = version'
    OBVIOUS
  <2>7. /\ gs[Len(w.files) + 1] = file(TRUE) /\ Len(gs) = Len(w.files) + 1
        /\ \A f \in DOMAIN w.files : gs[f] = w.files[f]
        /\ \A f \in DOMAIN gs : f \in DOMAIN w.files \/ f = Len(w.files) + 1
        /\ Len(w.files) + 1 # 0
    BY <1>3, <1>4
  <2> HIDE DEF gs, fs, v, file
  <2>8. Finished(c)
    <3>1. w.segment.file = 0 /\ Finished(w)
      BY <1>7 DEF F4Good, F4Base
    <3>2. ASSUME NEW f \in DOMAIN w.files
          PROVE  /\ ~w.files[f].open /\ w.files[f].completed <= 1
                 /\ w.clean => w.files[f].completed = 1
      BY <1>3, <3>1, <3>2 DEF Finished
    <3>3. c.segment.file = Len(gs) /\ c.segment.file = Len(w.files) + 1
      BY <2>2, <2>4, <2>7
    <3>4. ASSUME NEW f \in DOMAIN gs
          PROVE  /\ gs[f].open => f = c.segment.file /\ gs[f].completed = 0
                 /\ gs[f].completed <= 1
                 /\ c.clean /\ ~gs[f].open => gs[f].completed = 1
      <4>1. CASE f \in DOMAIN w.files
        BY <4>1, <3>2, <2>4, <2>7
      <4>2. CASE f = Len(w.files) + 1
        <5>1. gs[f] = file(TRUE) /\ f = c.segment.file
          BY <4>2, <3>3, <2>7
        <5>2. gs[f].open /\ gs[f].completed = 0
          BY <5>1, <2>6
        <5>3. gs[f].completed <= 1
          BY <5>2
        <5> QED
          BY <5>1, <5>2, <5>3
      <4> QED
        BY <4>1, <4>2, <2>7
    <3> QED
      BY <3>3, <3>4, <2>4 DEF Finished
  <2>9. F4Base(w, rec, all, ver) /\ Fresh(w, rec) /\ version' = ver
    BY <1>7 DEF F4Good, Writable
  <2>10. w.clean => w.ok
    BY <2>9 DEF F4Base
  <2>11. c.segment.file # 0 /\ gs[c.segment.file].init = ver /\ gs[c.segment.file].open
    BY <2>2, <2>4, <2>6, <2>7, <2>9
  <2>12. F4Base(c, rec, all, ver) /\ Fresh(c, rec)
    BY <2>2, <2>4, <2>5, <2>8, <2>9, <2>10, <2>11, F4Same
  <2>13. Writable(c)
    BY <2>4, <2>11 DEF Writable
  <2> QED
    BY <2>2, <2>4, <2>11, <2>12, <2>13 DEF F4Good
<1> QED
  BY <1>1, <1>2, <1>6, <1>7

(* The part of an open segment is written after all that is on disk. *)
LEMMA F4WritesPart ==
  ASSUME NEW rec, NEW all, NEW ver, ver \in Nat, NEW w, F4Good(w, rec, all, ver),
         w.ok => w.segment.file # 0, w.segment.part # <<>>,
         NEW c \in F!WritePart(w)
  PROVE  /\ F4Base(c, rec, all, ver)
         /\ c.segment = w.segment
         /\ c.clean => w.clean
         /\ c.ok => /\ c.segment.file # 0 /\ Writable(c)
                    /\ \A k \in DOMAIN c.segment.part : F4Disk(c.files, c.segment.part[k])
         /\ ~c.ok => F4Good(c, rec, all, ver)
<1>1. CASE c = w /\ ~w.ok
  BY <1>1 DEF F4Good
<1>2. CASE c = F!Failing(w)
  BY <1>2, F4Fails DEF F4Good
<1> DEFINE f == w.segment.file
           added == [number |-> w.segment.number, samples |-> w.segment.part]
           ps == w.files[f].parts
           last == Len(ps) + 1
           file == [w.files[f] EXCEPT !.parts = Append(ps, added)]
           gs == [w.files EXCEPT ![f] = file]
<1>3. CASE w.ok /\ w.files[f].open /\ c = [w EXCEPT !.files = gs]
  <2>1. /\ w \in F4Writing /\ Len(w.files) \in Nat /\ w.files \in Seq(F4File)
        /\ w.segment \in F4Segment /\ f = Len(w.files) /\ f # 0
    BY <1>3 DEF F4Good, F4Base, F4Writing, Finished
  <2>2. f \in DOMAIN w.files /\ \A g \in DOMAIN w.files : g \in Nat /\ g <= f
    BY <2>1
  <2>3. w.files[f] \in F4File /\ ps \in Seq(F4Part)
    <3>1. w.files[f] \in F4File
      BY <2>1, <2>2
    <3> QED
      BY <3>1 DEF F4File
  <2>4. added \in F4Part
    BY <2>1 DEF F4Segment, F4Part
  <2>5. added.number = w.segment.number /\ added.samples = w.segment.part
    OBVIOUS
  <2> HIDE DEF added
  <2>6. /\ Append(ps, added) \in Seq(F4Part)
        /\ last \in DOMAIN Append(ps, added) /\ Append(ps, added)[last] = added
        /\ \A p \in DOMAIN ps :
             p \in DOMAIN Append(ps, added) /\ Append(ps, added)[p] = ps[p]
        /\ \A p \in DOMAIN Append(ps, added) : p \in DOMAIN ps \/ p = last
        /\ \A p, q \in DOMAIN Append(ps, added) : p < q => p \in DOMAIN ps
    BY SMTT(20), <2>3, <2>4, Appended
  <2>7. /\ file \in F4File /\ file.init = w.files[f].init /\ file.open = w.files[f].open
        /\ file.completed = w.files[f].completed /\ file.parts = Append(ps, added)
    BY <2>3, <2>6 DEF F4File
  <2> HIDE DEF file
  <2>8. /\ gs \in Seq(F4File) /\ Len(gs) = Len(w.files) /\ DOMAIN gs = DOMAIN w.files
        /\ gs[f] = file /\ \A g \in DOMAIN w.files : g # f => gs[g] = w.files[g]
    BY <2>1, <2>2, <2>7
  <2> HIDE DEF gs
  <2>9. /\ c \in F4Writing /\ c.files = gs /\ c.segment = w.segment /\ c.number = w.number
        /\ c.clean = w.clean /\ c.ok = w.ok
    BY <1>3, <2>1, <2>8 DEF F4Writing
  <2>10. /\ gs[f].open = w.files[f].open /\ gs[f].init = w.files[f].init
         /\ gs[f].completed = w.files[f].completed /\ gs[f].parts = Append(ps, added)
    BY <2>7, <2>8
  <2> HIDE DEF last
  <2>11. ASSUME NEW g \in DOMAIN gs, NEW p \in DOMAIN gs[g].parts
         PROVE  \/ /\ g \in DOMAIN w.files /\ p \in DOMAIN w.files[g].parts
                   /\ gs[g].parts[p] = w.files[g].parts[p] /\ gs[g].init = w.files[g].init
                \/ g = f /\ p = last /\ gs[g].parts[p] = added
    BY <2>6, <2>8, <2>10
  <2>12. ASSUME NEW g \in DOMAIN w.files, NEW p \in DOMAIN w.files[g].parts
         PROVE  /\ g \in DOMAIN gs /\ p \in DOMAIN gs[g].parts
                /\ gs[g].parts[p] = w.files[g].parts[p]
    BY <2>6, <2>8, <2>10
  <2>13. f \in DOMAIN gs /\ last \in DOMAIN gs[f].parts /\ gs[f].parts[last] = added
    BY <2>2, <2>6, <2>8, <2>10
  <2>14. /\ F4Base(w, rec, all, ver) /\ Below(w.files, w.segment.number)
         /\ DiskBefore(w.files, rec, w.segment.part)
    BY <1>3 DEF F4Good, Writable, Fresh
  <2>15. w.segment.number < w.number /\ w.segment.number \in Nat /\ w.number \in Nat
    BY <2>1, <2>14 DEF F4Base, F4Writing, F4Segment
  <2>16. \A i : F4Disk(gs, i) <=>
                  F4Disk(w.files, i) \/ \E k \in DOMAIN added.samples : added.samples[k] = i
    <3>1. ASSUME NEW i, F4Disk(gs, i)
          PROVE  F4Disk(w.files, i) \/ \E k \in DOMAIN added.samples : added.samples[k] = i
      BY <2>11, <3>1 DEF F4Disk
    <3>2. ASSUME NEW i, F4Disk(w.files, i) PROVE F4Disk(gs, i)
      BY <2>12, <3>2 DEF F4Disk
    <3>3. ASSUME NEW k \in DOMAIN added.samples PROVE F4Disk(gs, added.samples[k])
      BY <2>13 DEF F4Disk
    <3> QED
      BY <3>1, <3>2, <3>3
  <2>17. Below(gs, c.number)
    <3> SUFFICES ASSUME NEW g \in DOMAIN gs, NEW p \in DOMAIN gs[g].parts
                 PROVE  gs[g].parts[p].number < w.number
      BY <2>9 DEF Below
    <3> QED
      BY <2>5, <2>11, <2>14, <2>15 DEF F4Base, Below
  <2>18. Recent(gs, rec)
    <3> SUFFICES ASSUME NEW g \in DOMAIN gs, NEW p \in DOMAIN gs[g].parts,
                        NEW k \in DOMAIN gs[g].parts[p].samples
                 PROVE  rec[gs[g].parts[p].samples[k]].version <= gs[g].init
      BY DEF Recent
    <3>1. CASE g = f /\ gs[g].parts[p] = added
      BY <2>1, <2>5, <2>10, <2>14, <3>1 DEF F4Base
    <3>2. CASE /\ g \in DOMAIN w.files /\ p \in DOMAIN w.files[g].parts
               /\ gs[g].parts[p] = w.files[g].parts[p] /\ gs[g].init = w.files[g].init
      BY <2>14, <3>2 DEF F4Base, Recent
    <3> QED
      BY <2>11, <3>1, <3>2
  <2>19. F4Order(gs, rec)
    <3> SUFFICES ASSUME NEW g \in DOMAIN gs, NEW h \in DOMAIN gs,
                        NEW p \in DOMAIN gs[g].parts, NEW q \in DOMAIN gs[h].parts
                 PROVE  /\ InSequence(rec, gs[g].parts[p].samples)
                        /\ g < h \/ (g = h /\ p < q) =>
                             /\ gs[g].parts[p].number < gs[h].parts[q].number
                             /\ \A k \in DOMAIN gs[g].parts[p].samples,
                                   l \in DOMAIN gs[h].parts[q].samples :
                                  Later(rec, gs[g].parts[p].samples[k], gs[h].parts[q].samples[l])
      BY DEF F4Order
    <3>1. InSequence(rec, added.samples)
      BY <2>5, <2>14 DEF F4Base
    <3>2. InSequence(rec, gs[g].parts[p].samples)
      BY <2>11, <2>14, <3>1 DEF F4Base, F4Order
    <3>3. ASSUME g < h \/ (g = h /\ p < q)
          PROVE  /\ g \in DOMAIN w.files /\ p \in DOMAIN w.files[g].parts
                 /\ gs[g].parts[p] = w.files[g].parts[p]
      <4>1. CASE g < h
        <5>1. g # f
          BY <2>2, <2>8, <4>1
        <5> QED
          BY <2>11, <5>1
      <4>2. CASE g = h /\ p < q /\ g = f
        <5>1. p \in DOMAIN ps /\ gs[f].parts[p] = ps[p]
          BY <2>6, <2>10, <4>2
        <5> QED
          BY <2>2, <4>2, <5>1
      <4>3. CASE g # f
        BY <2>11, <4>3
      <4> QED
        BY <3>3, <4>1, <4>2, <4>3
    <3>4. ASSUME g < h \/ (g = h /\ p < q), gs[h].parts[q] = added
          PROVE  /\ gs[g].parts[p].number < gs[h].parts[q].number
                 /\ \A k \in DOMAIN gs[g].parts[p].samples,
                       l \in DOMAIN gs[h].parts[q].samples :
                      Later(rec, gs[g].parts[p].samples[k], gs[h].parts[q].samples[l])
      <4>1. gs[g].parts[p].number < gs[h].parts[q].number
        BY <2>5, <2>14, <3>3, <3>4 DEF Below
      <4>2. ASSUME NEW k \in DOMAIN gs[g].parts[p].samples
            PROVE  F4Disk(w.files, gs[g].parts[p].samples[k])
        BY <3>3, <3>4 DEF F4Disk
      <4> QED
        BY <2>5, <2>14, <3>4, <4>1, <4>2 DEF DiskBefore
    <3>5. ASSUME g < h \/ (g = h /\ p < q), gs[h].parts[q] # added
          PROVE  /\ gs[g].parts[p].number < gs[h].parts[q].number
                 /\ \A k \in DOMAIN gs[g].parts[p].samples,
                       l \in DOMAIN gs[h].parts[q].samples :
                      Later(rec, gs[g].parts[p].samples[k], gs[h].parts[q].samples[l])
      <4>1. /\ h \in DOMAIN w.files /\ q \in DOMAIN w.files[h].parts
            /\ gs[h].parts[q] = w.files[h].parts[q]
        BY <2>11, <3>5
      <4> QED
        BY <2>14, <3>3, <3>5, <4>1 DEF F4Base, F4Order
    <3> QED
      BY <3>2, <3>4, <3>5
  <2>20. Finished(c)
    <3>1. Finished(w)
      BY <2>14 DEF F4Base
    <3>2. ASSUME NEW g \in DOMAIN gs
          PROVE  gs[g].open = w.files[g].open /\ gs[g].completed = w.files[g].completed
      BY <2>8, <2>10
    <3> QED
      BY <2>8, <2>9, <3>1, <3>2 DEF Finished
  <2>21. F4Base(c, rec, all, ver)
    <3>1. /\ InSequence(rec, c.segment.part)
          /\ c.segment.part # <<>> => c.segment.number < c.number
          /\ c.segment.file # 0 => gs[c.segment.file].init = ver
          /\ \A i \in all : rec[i].version <= ver
          /\ \A k \in DOMAIN c.segment.part : c.segment.part[k] \in all
          /\ c.clean => c.ok
      BY <2>9, <2>10, <2>14, <2>15 DEF F4Base
    <3>2. \A i : F4Disk(gs, i) => i \in all
      BY <2>5, <2>14, <2>16 DEF F4Base
    <3>3. ASSUME c.clean, NEW i \in all
          PROVE  F4Disk(gs, i) \/ \E k \in DOMAIN c.segment.part : c.segment.part[k] = i
      BY <2>9, <2>14, <2>16, <3>3 DEF F4Base
    <3>4. /\ c \in F4Writing /\ Finished(c) /\ F4Order(c.files, rec)
          /\ Below(c.files, c.number) /\ Recent(c.files, rec)
          /\ c.segment.file # 0 => c.files[c.segment.file].init = ver
          /\ \A i : F4Disk(c.files, i) => i \in all
      BY <2>9, <2>17, <2>18, <2>19, <2>20, <3>1, <3>2
    <3>5. c.clean => \A i \in all :
            F4Disk(c.files, i) \/ \E k \in DOMAIN c.segment.part : c.segment.part[k] = i
      BY <2>9, <3>3
    <3> QED
      BY <3>1, <3>4, <3>5 DEF F4Base
  <2>22. \A k \in DOMAIN c.segment.part : F4Disk(c.files, c.segment.part[k])
    BY <2>5, <2>9, <2>16
  <2>23. Writable(c)
    BY <1>3, <2>9, <2>10 DEF Writable
  <2> QED
    BY <1>3, <2>1, <2>9, <2>21, <2>22, <2>23
<1> QED
  <2>1. CASE w.ok /\ w.files[f].open
    <3>1. [w EXCEPT !.files[f].parts = Append(@, added)] = [w EXCEPT !.files = gs]
      OBVIOUS
    <3> QED
      BY <1>2, <1>3, <2>1, <3>1 DEF F!WritePart
  <2> QED
    BY <1>1, <1>2, <2>1 DEF F!WritePart

(* What comes of writing the current part: it is on disk, or something failed. *)
LEMMA F4ClosesPart ==
  ASSUME NEW rec, NEW all, NEW ver, ver \in Nat, NEW w, F4Good(w, rec, all, ver),
         version' \in Nat, version' = ver \/ w.segment.file # 0,
         w.segment.part # <<>>, NEW c \in F!ClosePart(w)
  PROVE  /\ F4Base(c, rec, all, ver)
         /\ c.segment.part = w.segment.part /\ c.segment.number = w.segment.number
         /\ c.clean => w.clean
         /\ c.ok => /\ c.segment.file # 0 /\ Writable(c)
                    /\ \A k \in DOMAIN c.segment.part : F4Disk(c.files, c.segment.part[k])
         /\ ~c.ok => F4Good(c, rec, all, ver)
<1>1. PICK v \in F!CreateFile(w) : c \in F!WritePart(v)
  BY DEF F!ClosePart
<1>2. /\ F4Good(v, rec, all, ver)
      /\ v.segment.part = w.segment.part /\ v.segment.number = w.segment.number
      /\ v.ok => v.segment.file # 0
      /\ v.clean => w.clean
  BY F4Creates
<1>3. /\ F4Base(c, rec, all, ver)
      /\ c.segment = v.segment
      /\ c.clean => v.clean
      /\ c.ok => /\ c.segment.file # 0 /\ Writable(c)
                 /\ \A k \in DOMAIN c.segment.part : F4Disk(c.files, c.segment.part[k])
      /\ ~c.ok => F4Good(c, rec, all, ver)
  BY <1>1, <1>2, F4WritesPart
<1> QED
  BY <1>2, <1>3

(* Closing the file keeps all else. *)
LEMMA F4ClosesFile ==
  ASSUME NEW rec, NEW all, NEW ver, NEW w, F4Base(w, rec, all, ver),
         w.segment.file = 0 => Fresh(w, rec), NEW c \in F!CloseFile(w)
  PROVE  /\ F4Base(c, rec, all, ver) /\ Shut(c)
         /\ c.segment = w.segment
         /\ Writable(c) => Fresh(c, rec)
         /\ c.clean => w.clean
         /\ c.ok => w.ok
         /\ ~c.ok => ~c.clean
         /\ \A i : F4Disk(w.files, i) <=> F4Disk(c.files, i)
<1>1. /\ w \in F4Writing /\ Len(w.files) \in Nat /\ w.files \in Seq(F4File)
      /\ w.segment \in F4Segment /\ Finished(w)
      /\ w.clean => w.ok
  BY DEF F4Base, F4Writing
<1>2. CASE w.segment.file = 0
  <2>1. c = w
    BY <1>2 DEF F!CloseFile
  <2>2. Shut(w)
    BY <1>1, <1>2 DEF Finished, Shut
  <2> QED
    BY <1>1, <1>2, <2>1, <2>2
<1> DEFINE f == w.segment.file
<1>3. CASE f # 0
  <2>1. f = Len(w.files) /\ f \in DOMAIN w.files /\ w.files[f] \in F4File
    BY <1>1, <1>3 DEF Finished
  <2>2. PICK file \in F4File, fails \in BOOLEAN :
          /\ file.init = w.files[f].init /\ file.parts = w.files[f].parts /\ ~file.open
          /\ file.completed <= 1
          /\ ~fails => file.completed = 1
          /\ c = IF fails THEN F!Failing([w EXCEPT !.files = [w.files EXCEPT ![f] = file]])
                 ELSE [w EXCEPT !.files = [w.files EXCEPT ![f] = file]]
    <3>1. /\ w.files[f].completed \in Nat /\ w.files[f].completed <= 1
          /\ w.files[f].completed + 1 \in Nat
          /\ w.files[f].open => w.files[f].completed = 0
      BY <1>1, <2>1 DEF Finished, F4File
    <3>2. CASE c = F!Failing([w EXCEPT !.files[f].open = FALSE])
      <4> DEFINE file == [w.files[f] EXCEPT !.open = FALSE]
      <4>1. /\ file \in F4File /\ file.init = w.files[f].init
            /\ file.parts = w.files[f].parts /\ ~file.open
            /\ file.completed = w.files[f].completed
        BY <2>1 DEF F4File
      <4>2. c = F!Failing([w EXCEPT !.files = [w.files EXCEPT ![f] = file]])
        BY <3>2
      <4> HIDE DEF file
      <4> QED
        BY <3>1, <4>1, <4>2
    <3>3. CASE /\ w.files[f].open
               /\ c = [w EXCEPT !.files[f].open = FALSE, !.files[f].completed = @ + 1]
      <4> DEFINE file == [w.files[f] EXCEPT !.open = FALSE, !.completed = w.files[f].completed + 1]
      <4>1. /\ file \in F4File /\ file.init = w.files[f].init
            /\ file.parts = w.files[f].parts /\ ~file.open
            /\ file.completed = w.files[f].completed + 1
        BY <2>1, <3>1 DEF F4File
      <4>2. c = [w EXCEPT !.files = [w.files EXCEPT ![f] = file]]
        BY <1>1, <2>1, <3>3 DEF F4Writing
      <4> HIDE DEF file
      <4>3. file.completed = 1 /\ file.completed <= 1
        BY <3>1, <3>3, <4>1
      <4>4. c = IF FALSE THEN F!Failing([w EXCEPT !.files = [w.files EXCEPT ![f] = file]])
                ELSE [w EXCEPT !.files = [w.files EXCEPT ![f] = file]]
        BY <4>2
      <4> QED
        BY <4>1, <4>3, <4>4
    <3> QED
      BY <1>3, <3>2, <3>3 DEF F!CloseFile
  <2> DEFINE gs == [w.files EXCEPT ![f] = file]
             v == [w EXCEPT !.files = gs]
  <2>3. /\ gs \in Seq(F4File) /\ Len(gs) = Len(w.files) /\ DOMAIN gs = DOMAIN w.files
        /\ gs[f] = file /\ \A g \in DOMAIN w.files : g # f => gs[g] = w.files[g]
    BY <1>1, <2>1
  <2> HIDE DEF gs
  <2>4. /\ v \in F4Writing /\ v.files = gs /\ v.segment = w.segment /\ v.number = w.number
        /\ v.clean = w.clean /\ v.ok = w.ok
    BY <1>1, <2>3 DEF F4Writing
  <2>5. c = IF fails THEN F!Failing(v) ELSE v
    BY <2>2 DEF gs
  <2> HIDE DEF v
  <2>6. /\ c \in F4Writing /\ c.files = gs /\ c.segment = w.segment /\ c.number = w.number
        /\ c.clean => w.clean /\ ~fails
        /\ c.ok => w.ok
        /\ c.clean => c.ok
    BY <1>1, <2>4, <2>5 DEF F!Failing, F4Writing
  <2>7. SameParts(w.files, gs)
    BY <2>1, <2>2, <2>3 DEF SameParts
  <2>8. Finished(c)
    <3>1. ASSUME NEW g \in DOMAIN gs
          PROVE  /\ ~gs[g].open /\ gs[g].completed <= 1
                 /\ c.clean => gs[g].completed = 1
      <4>1. CASE g = f
        BY <2>2, <2>3, <2>6, <4>1
      <4>2. CASE g # f
        BY <1>1, <2>3, <2>6, <4>2 DEF Finished
      <4> QED
        BY <4>1, <4>2
    <3> QED
      BY <2>1, <2>3, <2>6, <3>1 DEF Finished
  <2>9. c.files[f].init = ver
    BY <1>3, <2>2, <2>3, <2>6 DEF F4Base
  <2>10. F4Base(c, rec, all, ver) /\ \A i : F4Disk(w.files, i) <=> F4Disk(c.files, i)
    BY <2>6, <2>7, <2>8, <2>9, F4Same
  <2>11. Shut(c) /\ ~Writable(c)
    <3>1. ~gs[f].open
      BY <2>2, <2>3
    <3> QED
      BY <1>3, <2>1, <2>3, <2>6, <2>8, <3>1 DEF Finished, Shut, Writable
  <2> QED
    BY <2>6, <2>10, <2>11
<1> QED
  BY <1>2, <1>3

(* Closing a segment leaves no file open, and all samples on disk unless something
   failed. *)
LEMMA F4ClosesSegment ==
  ASSUME NEW rec, NEW all, NEW ver, ver \in Nat, NEW w, F4Good(w, rec, all, ver),
         version' \in Nat, version' = ver \/ w.segment.file # 0,
         NEW c \in F!CloseSegment(w)
  PROVE  /\ F4Base(c, rec, all, ver) /\ Shut(c)
         /\ Writable(c) => Fresh(c, rec)
         /\ ~c.ok => ~c.clean
         /\ c.clean => \A i \in all : F4Disk(c.files, i)
<1>1. PICK v \in IF w.segment.part = <<>> THEN {w} ELSE F!ClosePart(w) : c \in F!CloseFile(v)
  BY DEF F!CloseSegment
<1>2. /\ F4Base(v, rec, all, ver)
      /\ v.segment.file = 0 => Fresh(v, rec)
      /\ v.clean => \A k \in DOMAIN v.segment.part : F4Disk(v.files, v.segment.part[k])
  <2>1. CASE w.segment.part = <<>>
    <3>1. v = w /\ DOMAIN w.segment.part = {}
      BY <1>1, <2>1
    <3> QED
      BY <2>1, <3>1 DEF F4Good, Writable
  <2>2. CASE w.segment.part # <<>>
    <3>1. v \in F!ClosePart(w)
      BY <1>1, <2>2
    <3>2. /\ F4Base(v, rec, all, ver)
          /\ v.ok => /\ v.segment.file # 0
                     /\ \A k \in DOMAIN v.segment.part : F4Disk(v.files, v.segment.part[k])
          /\ ~v.ok => F4Good(v, rec, all, ver)
      BY <2>2, <3>1, F4ClosesPart
    <3> QED
      BY <3>2 DEF F4Base, F4Good, Writable
  <2> QED
    BY <2>1, <2>2
<1>3. /\ F4Base(c, rec, all, ver) /\ Shut(c)
      /\ c.segment = v.segment
      /\ Writable(c) => Fresh(c, rec)
      /\ c.clean => v.clean
      /\ ~c.ok => ~c.clean
      /\ \A i : F4Disk(v.files, i) <=> F4Disk(c.files, i)
  BY <1>1, <1>2, F4ClosesFile
<1>4. ASSUME c.clean, NEW i \in all PROVE F4Disk(c.files, i)
  <2>1. F4Disk(v.files, i) \/ \E k \in DOMAIN v.segment.part : v.segment.part[k] = i
    BY <1>2, <1>3, <1>4 DEF F4Base
  <2> QED
    BY <1>2, <1>3, <1>4, <2>1
<1> QED
  BY <1>3, <1>4

(* A segment that starts when all is on disk, or something failed. *)
LEMMA F4StartsSegment ==
  ASSUME NEW rec, NEW all, NEW ver \in Nat, NEW next \in Nat, ver <= next,
         \A i \in all : rec[i].version \in Nat,
         NEW w, F4Base(w, rec, all, ver), Shut(w),
         w.clean => \A i \in all : F4Disk(w.files, i),
         NEW c \in F4Writing, c.files = w.files, c.number = w.number, c.clean = w.clean,
         c.clean => c.ok, c.segment.file = 0, c.segment.part = <<>>
  PROVE  F4Good(c, rec, all, next)
<1>1. DOMAIN c.segment.part = {}
  OBVIOUS
<1>2. Finished(c)
  BY DEF F4Base, Finished, Shut
<1>3. \A i \in all : rec[i].version <= next
  BY DEF F4Base
<1>4. F4Base(c, rec, all, next)
  BY <1>1, <1>2, <1>3 DEF F4Base, InSequence
<1> QED
  BY <1>1, <1>4 DEF F4Good, Fresh, Writable, DiskBefore

(* A segment of which nothing is on disk, or that was closed, takes newer parameters. *)
LEMMA F4Updates ==
  ASSUME NEW rec, NEW all, NEW ver \in Nat, version' \in Nat, ver <= version',
         \A i \in all : rec[i].version \in Nat,
         NEW w, F4Good(w, rec, all, ver), w.ok, NEW c \in F!UpdateCodecs(w)
  PROVE  F4Good(c, rec, all, version') /\ c.ok
<1>1. CASE w.segment.file = 0
  <2>1. c = w
    BY <1>1 DEF F!UpdateCodecs
  <2>2. \A i \in all : rec[i].version <= version'
    BY DEF F4Good, F4Base
  <2>3. F4Base(w, rec, all, version')
    BY <1>1, <2>2 DEF F4Good, F4Base
  <2> QED
    BY <2>1, <2>3 DEF F4Good
<1>2. CASE w.segment.file # 0
  <2>1. PICK v \in F!CloseSegment(w) : c = [v EXCEPT !.segment = F!NoSegment, !.ok = TRUE]
    BY <1>2 DEF F!UpdateCodecs
  <2>2. /\ F4Base(v, rec, all, ver) /\ Shut(v)
        /\ v.clean => \A i \in all : F4Disk(v.files, i)
    BY <1>2, F4ClosesSegment
  <2>3. F!NoSegment \in F4Segment /\ F!NoSegment.file = 0 /\ F!NoSegment.part = <<>>
    <3>1. <<>> \in Seq(Nat)
      OBVIOUS
    <3> QED
      BY <3>1 DEF F!NoSegment, F4Segment
  <2>4. /\ c \in F4Writing /\ c.files = v.files /\ c.number = v.number /\ c.clean = v.clean
        /\ c.ok /\ c.segment = F!NoSegment
    BY <2>1, <2>2, <2>3 DEF F4Base, F4Writing
  <2> QED
    BY <2>2, <2>3, <2>4, F4StartsSegment
<1> QED
  BY <1>1, <1>2

(* A part that starts with sample i, when all the samples before it are on disk. *)
LEMMA F4StartsPart ==
  ASSUME NEW rec, NEW all, NEW ver, NEW w, F4Base(w, rec, all, ver),
         w.clean => Writable(w) /\ \A j \in all : F4Disk(w.files, j),
         NEW i \in Nat, \A j \in all : Later(rec, j, i), rec[i].version <= ver
  PROVE  /\ F4Good(F!StartPart(w, i), rec, all \cup {i}, ver)
         /\ F!StartPart(w, i).ok = w.ok
<1> DEFINE c == F!StartPart(w, i)
           s == [w.segment EXCEPT !.part = <<i>>, !.number = w.number]
<1>1. /\ w \in F4Writing /\ w.segment \in F4Segment /\ w.number \in Nat /\ w.number + 1 \in Nat
      /\ Finished(w)
  BY DEF F4Base, F4Writing
<1>2. <<i>> \in Seq(Nat) /\ DOMAIN <<i>> = {1} /\ <<i>>[1] = i /\ <<i>> # <<>>
  OBVIOUS
<1>3. s \in F4Segment /\ s.file = w.segment.file /\ s.part = <<i>> /\ s.number = w.number
  BY <1>1, <1>2 DEF F4Segment
<1>4. c = [w EXCEPT !.segment = s, !.number = w.number + 1]
  BY <1>1 DEF F!StartPart, F4Writing, F4Segment
<1> HIDE DEF s, c
<1>5. /\ c \in F4Writing /\ c.files = w.files /\ c.clean = w.clean /\ c.ok = w.ok
      /\ c.segment.part = <<i>> /\ c.segment.number = w.number
      /\ c.number = w.number + 1 /\ c.segment.file = w.segment.file
  BY <1>1, <1>3, <1>4 DEF F4Writing
<1>6. Finished(c)
  BY <1>1, <1>5 DEF Finished
<1>7. Below(w.files, w.number) /\ Below(w.files, c.number)
  <2>1. Below(w.files, w.number)
    BY DEF F4Base
  <2>2. ASSUME NEW f \in DOMAIN w.files, NEW p \in DOMAIN w.files[f].parts
        PROVE  w.files[f].parts[p].number < c.number
    <3>1. w.files[f].parts[p].number \in Nat
      <4>1. w.files[f] \in F4File
        BY <1>1 DEF F4Writing
      <4>2. w.files[f].parts[p] \in F4Part
        BY <4>1 DEF F4File
      <4> QED
        BY <4>2 DEF F4Part
    <3>2. w.files[f].parts[p].number < w.number
      BY <2>1 DEF Below
    <3> QED
      BY <1>1, <1>5, <3>1, <3>2
  <2> QED
    BY <2>1, <2>2 DEF Below
<1>8. InSequence(rec, c.segment.part) /\ DiskBefore(w.files, rec, c.segment.part)
  <2>1. InSequence(rec, <<i>>)
    BY <1>2 DEF InSequence
  <2>2. DiskBefore(w.files, rec, <<i>>)
    BY <1>2 DEF DiskBefore, F4Base
  <2> QED
    BY <1>5, <2>1, <2>2
<1>9. c.segment.number < c.number
  BY <1>1, <1>5
<1>10. /\ \A j \in all \cup {i} : rec[j].version <= ver
       /\ \A j : F4Disk(w.files, j) => j \in all \cup {i}
       /\ \A k \in DOMAIN c.segment.part : c.segment.part[k] \in all \cup {i}
       /\ c.clean => c.ok
       /\ c.segment.file # 0 => w.files[c.segment.file].init = ver
       /\ F4Order(w.files, rec) /\ Recent(w.files, rec)
  BY <1>2, <1>5 DEF F4Base
<1>11. ASSUME c.clean, NEW j \in all \cup {i}
       PROVE  F4Disk(c.files, j) \/ \E k \in DOMAIN c.segment.part : c.segment.part[k] = j
  BY <1>2, <1>5, <1>11
<1>12. F4Base(c, rec, all \cup {i}, ver)
  <2>1. /\ F4Order(c.files, rec) /\ Below(c.files, c.number) /\ Recent(c.files, rec)
        /\ \A j : F4Disk(c.files, j) => j \in all \cup {i}
        /\ c.segment.file # 0 => c.files[c.segment.file].init = ver
    BY <1>5, <1>7, <1>10
  <2> QED
    BY <1>5, <1>6, <1>8, <1>9, <1>10, <1>11, <2>1 DEF F4Base
<1>13. Fresh(c, rec) /\ (c.clean => Writable(c))
  BY <1>5, <1>7, <1>8 DEF Fresh, Writable
<1> QED
  BY <1>5, <1>12, <1>13 DEF F4Good, c

(* A part that goes on with sample i. *)
LEMMA F4Extends ==
  ASSUME NEW rec, NEW all, NEW ver, NEW w, F4Good(w, rec, all, ver),
         w.segment.part # <<>>,
         NEW i \in Nat, \A j \in all : Later(rec, j, i), rec[i].version <= ver,
         NEW c, c = [w EXCEPT !.segment.part = Append(@, i)]
  PROVE  F4Good(c, rec, all \cup {i}, ver) /\ c.ok = w.ok
<1> DEFINE old == w.segment.part
           new == Append(old, i)
           s == [w.segment EXCEPT !.part = new]
<1>1. /\ w \in F4Writing /\ w.segment \in F4Segment /\ old \in Seq(Nat) /\ Finished(w)
      /\ F4Base(w, rec, all, ver)
  BY DEF F4Good, F4Base, F4Writing, F4Segment
<1>2. /\ new \in Seq(Nat) /\ Len(old) + 1 \in DOMAIN new /\ new[Len(old) + 1] = i
      /\ \A k \in DOMAIN old : k \in DOMAIN new /\ new[k] = old[k]
      /\ \A k \in DOMAIN new : k \in DOMAIN old \/ k = Len(old) + 1
      /\ \A k, l \in DOMAIN new : k < l => k \in DOMAIN old
  BY <1>1, Appended
<1> HIDE DEF new
<1>3. /\ s \in F4Segment /\ s.file = w.segment.file /\ s.part = new
      /\ s.number = w.segment.number
  BY <1>1, <1>2 DEF F4Segment
<1>4. c = [w EXCEPT !.segment = s]
  BY <1>1 DEF F4Writing, F4Segment, new
<1> HIDE DEF s
<1>5. /\ c \in F4Writing /\ c.files = w.files /\ c.clean = w.clean /\ c.ok = w.ok
      /\ c.number = w.number /\ c.segment = s
  BY <1>1, <1>3, <1>4 DEF F4Writing
<1>6. Finished(c)
  BY ZenonT(30), <1>1, <1>3, <1>5 DEF Finished
<1>7. \A k \in DOMAIN old : old[k] \in all
  BY <1>1 DEF F4Base
<1>8. InSequence(rec, new)
  <2> SUFFICES ASSUME NEW k \in DOMAIN new, NEW l \in DOMAIN new, k < l
               PROVE  Later(rec, new[k], new[l])
    BY DEF InSequence
  <2>1. k \in DOMAIN old /\ new[k] = old[k]
    BY <1>2
  <2>2. CASE l \in DOMAIN old
    BY <1>1, <1>2, <2>1, <2>2 DEF F4Base, InSequence
  <2>3. CASE l = Len(old) + 1
    BY <1>2, <1>7, <2>1, <2>3
  <2> QED
    BY <1>2, <2>2, <2>3
<1>9. ASSUME DiskBefore(w.files, rec, old) PROVE DiskBefore(w.files, rec, new)
  <2> SUFFICES ASSUME NEW j, F4Disk(w.files, j), NEW l \in DOMAIN new
               PROVE  Later(rec, j, new[l])
    BY DEF DiskBefore
  <2>1. CASE l \in DOMAIN old
    BY <1>2, <1>9, <2>1 DEF DiskBefore
  <2>2. CASE l = Len(old) + 1
    BY <1>1, <1>2, <2>2 DEF F4Base
  <2> QED
    BY <1>2, <2>1, <2>2
<1>10. /\ \A j \in all \cup {i} : rec[j].version <= ver
       /\ \A j : F4Disk(c.files, j) => j \in all \cup {i}
       /\ c.clean => c.ok
       /\ c.segment.file # 0 => c.files[c.segment.file].init = ver
       /\ F4Order(c.files, rec) /\ Recent(c.files, rec) /\ Below(c.files, c.number)
       /\ c.segment.number < c.number
  BY <1>1, <1>3, <1>5 DEF F4Base
<1>11. \A k \in DOMAIN c.segment.part : c.segment.part[k] \in all \cup {i}
  BY <1>2, <1>3, <1>5, <1>7
<1>12. ASSUME c.clean, NEW j \in all \cup {i}
       PROVE  F4Disk(c.files, j) \/ \E k \in DOMAIN c.segment.part : c.segment.part[k] = j
  <2>1. CASE j = i
    BY <1>2, <1>3, <1>5, <2>1
  <2>2. CASE j \in all
    <3>1. F4Disk(w.files, j) \/ \E k \in DOMAIN old : old[k] = j
      BY <1>1, <1>5, <1>12, <2>2 DEF F4Base
    <3> QED
      BY <1>2, <1>3, <1>5, <3>1
  <2> QED
    BY <2>1, <2>2
<1>13. F4Base(c, rec, all \cup {i}, ver)
  <2>1. InSequence(rec, c.segment.part)
    BY <1>3, <1>5, <1>8
  <2> QED
    BY <1>5, <1>6, <1>10, <1>11, <1>12, <2>1 DEF F4Base
<1>14. /\ Writable(c) => Fresh(c, rec)
       /\ c.clean => Writable(c)
  <2>1. Writable(c) <=> Writable(w)
    BY <1>3, <1>5 DEF Writable
  <2>2. ASSUME Writable(w) PROVE Fresh(c, rec)
    <3>1. Below(w.files, w.segment.number) /\ DiskBefore(w.files, rec, old)
      BY <2>2 DEF F4Good, Fresh
    <3> QED
      BY <1>3, <1>5, <1>9, <3>1 DEF Fresh
  <2> QED
    BY <1>5, <2>1, <2>2 DEF F4Good
<1> QED
  BY <1>5, <1>13, <1>14 DEF F4Good

(* The segment gives up its part when that could not be written. *)
LEMMA F4GivesUp ==
  ASSUME NEW rec, NEW all, NEW ver, NEW w, F4Base(w, rec, all, ver), ~w.ok,
         NEW i, rec[i].version <= ver,
         NEW c, c = [w EXCEPT !.segment.part = <<>>]
  PROVE  F4Good(c, rec, all \cup {i}, ver) /\ c.ok = w.ok
<1> DEFINE s == [w.segment EXCEPT !.part = <<>>]
<1>1. w \in F4Writing /\ w.segment \in F4Segment /\ Finished(w) /\ <<>> \in Seq(Nat)
  BY DEF F4Base, F4Writing
<1>2. s \in F4Segment /\ s.file = w.segment.file /\ s.part = <<>>
  BY <1>1 DEF F4Segment
<1>3. c = [w EXCEPT !.segment = s]
  BY <1>1 DEF F4Writing, F4Segment
<1> HIDE DEF s
<1>4. /\ c \in F4Writing /\ c.files = w.files /\ c.clean = w.clean /\ c.ok = w.ok
      /\ c.number = w.number /\ c.segment = s
  BY <1>1, <1>2, <1>3 DEF F4Writing
<1>5. ~c.clean /\ DOMAIN c.segment.part = {}
  BY <1>2, <1>4 DEF F4Base
<1>6. Finished(c)
  BY <1>1, <1>2, <1>4 DEF Finished
<1>7. /\ \A j \in all \cup {i} : rec[j].version <= ver
      /\ \A j : F4Disk(c.files, j) => j \in all \cup {i}
      /\ c.segment.file # 0 => c.files[c.segment.file].init = ver
      /\ F4Order(c.files, rec) /\ Recent(c.files, rec) /\ Below(c.files, c.number)
  BY <1>2, <1>4 DEF F4Base
<1>8. F4Base(c, rec, all \cup {i}, ver)
  BY <1>2, <1>4, <1>5, <1>6, <1>7 DEF F4Base, InSequence
<1> QED
  BY <1>2, <1>4, <1>5, <1>8 DEF F4Good, Fresh, DiskBefore

(* The segment records sample i, which comes after all that were recorded. *)
LEMMA F4Records ==
  ASSUME NEW rec, NEW all, NEW w, version' \in Nat, F4Good(w, rec, all, version'),
         NEW i \in Nat, \A j \in all : Later(rec, j, i), rec[i].version <= version',
         NEW c \in F!SegmentRecord(w, i)
  PROVE  F4Good(c, rec, all \cup {i}, version')
<1> DEFINE old == w.segment.part
           rid(d) == [d EXCEPT !.segment.part = <<>>]
<1>1. CASE old = <<>>
  <2>1. c = F!StartPart(w, i)
    BY <1>1 DEF F!SegmentRecord
  <2>2. DOMAIN old = {}
    BY <1>1
  <2>3. F4Base(w, rec, all, version') /\ (w.clean => Writable(w) /\ \A j \in all : F4Disk(w.files, j))
    BY <2>2 DEF F4Good, F4Base
  <2> QED
    BY <2>1, <2>3, F4StartsPart
<1>2. CASE old # <<>> /\ \E d \in F!ClosePart(w) : c = IF d.ok THEN F!StartPart(d, i) ELSE rid(d)
  <2>1. PICK d \in F!ClosePart(w) : c = IF d.ok THEN F!StartPart(d, i) ELSE rid(d)
    BY <1>2
  <2>2. /\ F4Base(d, rec, all, version')
        /\ d.ok => /\ Writable(d)
                   /\ \A k \in DOMAIN d.segment.part : F4Disk(d.files, d.segment.part[k])
    BY <1>2, F4ClosesPart
  <2>3. CASE d.ok
    <3>1. d.clean => Writable(d) /\ \A j \in all : F4Disk(d.files, j)
      BY <2>2, <2>3 DEF F4Base
    <3>2. c = F!StartPart(d, i)
      BY <2>1, <2>3
    <3> QED
      BY <2>2, <3>1, <3>2, F4StartsPart
  <2>4. CASE ~d.ok
    BY <2>1, <2>2, <2>4, F4GivesUp
  <2> QED
    BY <2>3, <2>4
<1>3. CASE old # <<>> /\ c = [w EXCEPT !.segment.part = Append(@, i)]
  BY <1>3, F4Extends
<1> QED
  BY <1>1, <1>2, <1>3 DEF F!SegmentRecord

(* A new segment, or the one there is that could not be closed. *)
LEMMA F4Rotates ==
  ASSUME NEW rec, NEW all, NEW w, version' \in Nat, F4Good(w, rec, all, version'),
         \A j \in all : rec[j].version \in Nat,
         NEW i, F!DTS(i) \in Nat, NEW c \in F!Rotate(w, i)
  PROVE  F4Good(c, rec, all, version')
<1>1. PICK d \in F!CloseSegment(w) :
        c = IF d.ok THEN [d EXCEPT !.segment = F!NewSegment(i)] ELSE d
  BY DEF F!Rotate
<1>2. /\ F4Base(d, rec, all, version') /\ Shut(d)
      /\ Writable(d) => Fresh(d, rec)
      /\ ~d.ok => ~d.clean
      /\ d.clean => \A j \in all : F4Disk(d.files, j)
  BY F4ClosesSegment
<1>3. CASE ~d.ok
  BY <1>1, <1>2, <1>3 DEF F4Good
<1>4. CASE d.ok
  <2>1. /\ F!NewSegment(i) \in F4Segment
        /\ F!NewSegment(i).file = 0 /\ F!NewSegment(i).part = <<>>
    <3>1. <<>> \in Seq(Nat)
      OBVIOUS
    <3> QED
      BY <3>1 DEF F!NewSegment, F!NoSegment, F4Segment
  <2>2. /\ c \in F4Writing /\ c.files = d.files /\ c.number = d.number /\ c.clean = d.clean
        /\ c.ok /\ c.segment = F!NewSegment(i)
    BY <1>1, <1>2, <1>4, <2>1 DEF F4Base, F4Writing
  <2> QED
    BY <1>2, <2>1, <2>2, F4StartsSegment
<1> QED
  BY <1>3, <1>4

(* A sample i of a track is received: the one before it, if there is one, is recorded. *)
LEMMA F4TrackRecords ==
  ASSUME NEW rec, NEW all, NEW more, NEW w, version' \in Nat, F4Good(w, rec, all, version'),
         NEW t, NEW i, F!DTS(i) \in Nat,
         nextSample[t] = 0 => more = all,
         nextSample[t] # 0 => /\ more = all \cup {nextSample[t]}
                              /\ nextSample[t] \in Nat
                              /\ \A j \in all : Later(rec, j, nextSample[t]),
         \A j \in more : rec[j].version \in Nat /\ rec[j].version <= version',
         NEW c \in F!TrackRecord(w, t, i)
  PROVE  F4Good(c, rec, more, version')
<1> DEFINE s == IF w.segment = F!NoSegment THEN [w EXCEPT !.segment = F!NewSegment(i)] ELSE w
<1>1. F4Good(s, rec, all, version')
  <2>1. CASE w.segment # F!NoSegment
    BY <2>1
  <2>2. CASE w.segment = F!NoSegment
    <3>1. w \in F4Writing /\ F4Base(w, rec, all, version')
      BY DEF F4Good, F4Base
    <3>2. /\ F!NewSegment(i) \in F4Segment
          /\ F!NewSegment(i).file = 0 /\ F!NewSegment(i).part = <<>>
          /\ w.segment.file = 0 /\ w.segment.part = <<>>
      <4>1. <<>> \in Seq(Nat)
        OBVIOUS
      <4>2. /\ F!NewSegment(i) \in F4Segment
            /\ F!NewSegment(i).file = 0 /\ F!NewSegment(i).part = <<>>
        BY <4>1 DEF F!NewSegment, F!NoSegment, F4Segment
      <4>3. F!NoSegment.file = 0 /\ F!NoSegment.part = <<>>
        BY DEF F!NoSegment
      <4> QED
        BY <2>2, <4>2, <4>3
    <3>3. /\ s \in F4Writing /\ s.files = w.files /\ s.number = w.number /\ s.clean = w.clean
          /\ s.ok = w.ok /\ s.segment = F!NewSegment(i)
      BY <2>2, <3>1, <3>2 DEF F4Writing
    <3> HIDE DEF s
    <3>4. DOMAIN w.segment.part = {}
      BY <3>2
    <3>5. Shut(w) /\ (w.clean => w.ok) /\ (w.clean => \A j \in all : F4Disk(w.files, j))
      BY <3>1, <3>2, <3>4 DEF F4Base, Finished, Shut, F4Writing
    <3>6. \A j \in all : rec[j].version \in Nat
      OBVIOUS
    <3> QED
      BY <3>1, <3>2, <3>3, <3>5, <3>6, F4StartsSegment
  <2> QED
    BY <2>1, <2>2
<1> HIDE DEF s
<1>2. CASE nextSample[t] = 0
  BY <1>1, <1>2 DEF F!TrackRecord, s
<1>3. CASE nextSample[t] # 0
  <2>1. PICK d \in F!SegmentRecord(s, nextSample[t]) :
          c \in IF d.ok /\ F!Rotates(d, t, i) THEN F!Rotate(d, i) ELSE {d}
    BY <1>3 DEF F!TrackRecord, s
  <2>2. F4Good(d, rec, more, version')
    <3>1. rec[nextSample[t]].version <= version'
      BY <1>3
    <3> QED
      BY <1>1, <1>3, <3>1, F4Records
  <2>3. CASE c \in F!Rotate(d, i)
    <3>1. \A j \in more : rec[j].version \in Nat
      OBVIOUS
    <3> QED
      BY <2>2, <2>3, <3>1, F4Rotates
  <2> QED
    BY <2>1, <2>2, <2>3
<1> QED
  BY <1>2, <1>3

F4Sample == [track : Tracks, dts : Nat \ {0}, sync : BOOLEAN, version : Nat]

(* Whose duration is known: all but the last of each track. *)
Known == {i \in DOMAIN received : i # nextSample[received[i].track]}

F4Tracks ==
  /\ received \in Seq(F4Sample) /\ version \in Nat /\ nextSample \in [Tracks -> Nat]
  /\ \A i \in DOMAIN received :
       received[i].version <= version /\ i <= nextSample[received[i].track]
  /\ \A t \in Tracks : nextSample[t] # 0 =>
       nextSample[t] \in DOMAIN received /\ received[nextSample[t]].track = t

F4Inv ==
  /\ F4Tracks
  /\ agent \in {"recording", "failed", "done"}
  /\ F4Base(F!Writing, received, Known, version)
  /\ agent # "done" => F4Good(F!Writing, received, Known, version)
  /\ agent = "done" => Shut(F!Writing) /\ (clean => \A i \in Known : F4Disk(files, i))

LEMMA F4Init == F!Init => F4Inv
<1> SUFFICES ASSUME F!Init PROVE F4Inv
  OBVIOUS
<1>1. /\ received = <<>> /\ files = <<>> /\ clean = TRUE /\ version = 1
      /\ nextSample = [t \in Tracks |-> 0] /\ nextSequenceNumber = 0
      /\ currentSegment = F!NoSegment /\ agent = "recording"
  BY DEF F!Init
<1>2. DOMAIN received = {} /\ DOMAIN files = {} /\ Len(files) = 0
  BY <1>1
<1>3. F!NoSegment \in F4Segment /\ F!NoSegment.file = 0 /\ F!NoSegment.part = <<>>
  <2>1. <<>> \in Seq(Nat)
    OBVIOUS
  <2> QED
    BY <2>1 DEF F!NoSegment, F4Segment
<1>4. F!Writing \in F4Writing
  <2>1. <<>> \in Seq(F4File)
    OBVIOUS
  <2> QED
    BY <1>1, <1>3, <2>1 DEF F!Writing, F4Writing
<1>5. /\ F!Writing.segment = F!NoSegment /\ F!Writing.files = files /\ F!Writing.ok
      /\ F!Writing.segment.file = 0 /\ DOMAIN F!Writing.segment.part = {}
      /\ F!Writing.segment.part = <<>>
  BY <1>1, <1>3 DEF F!Writing
<1>6. Known = {}
  BY <1>2 DEF Known
<1>7. Finished(F!Writing)
  BY <1>2, <1>5 DEF Finished
<1>8. F4Base(F!Writing, received, Known, version)
  BY <1>2, <1>4, <1>5, <1>6, <1>7
     DEF F4Base, F4Order, InSequence, Below, Recent, F4Disk
<1>9. F4Good(F!Writing, received, Known, version)
  BY <1>2, <1>5, <1>8 DEF F4Good, Fresh, Writable, DiskBefore
<1>10. F4Tracks
  <2>1. received \in Seq(F4Sample)
    BY <1>1
  <2> QED
    BY <1>1, <1>2, <2>1 DEF F4Tracks
<1> QED
  BY <1>1, <1>8, <1>9, <1>10 DEF F4Inv

(* What an operation leaves is what the agent goes on with: only whether its last call
   failed is forgotten. *)
LEMMA F4GoesOn ==
  ASSUME NEW rec, NEW all, NEW ver, NEW w, F!Becomes(w), F4Base(w, rec, all, ver)
  PROVE  /\ F4Base(F!Writing', rec, all, ver)
         /\ F4Good(w, rec, all, ver) => F4Good(F!Writing', rec, all, ver)
         /\ Shut(w) => Shut(F!Writing')
         /\ files' = w.files /\ clean' = w.clean
<1> DEFINE c == F!Writing'
<1>1. /\ w \in F4Writing /\ Finished(w)
      /\ files' = w.files /\ clean' = w.clean
  BY DEF F4Base, F!Becomes
<1>2. /\ c \in F4Writing /\ c.segment = w.segment /\ c.number = w.number
      /\ c.files = w.files /\ c.clean = w.clean /\ c.ok
  BY <1>1 DEF F!Becomes, F!Writing, F4Writing
<1> HIDE DEF c
<1>3. F4Base(c, rec, all, ver)
  BY <1>1, <1>2 DEF F4Base, Finished
<1>4. F4Good(w, rec, all, ver) => F4Good(c, rec, all, ver)
  BY <1>2, <1>3 DEF F4Good, Fresh, Writable
<1>5. Shut(w) => Shut(c)
  BY <1>2 DEF Shut
<1> QED
  BY <1>1, <1>3, <1>4, <1>5 DEF c

(* Only the samples recorded so far matter. *)
LEMMA F4Agrees ==
  ASSUME NEW rec, NEW all, NEW ver, NEW w, F4Good(w, rec, all, ver),
         NEW more, \A j \in all : more[j] = rec[j]
  PROVE  F4Good(w, more, all, ver)
<1>1. \A i \in all, j \in all : Later(rec, i, j) => Later(more, i, j)
  BY DEF Later
<1>2. \A i : F4Disk(w.files, i) => i \in all
  BY DEF F4Good, F4Base
<1>3. ASSUME NEW f \in DOMAIN w.files, NEW p \in DOMAIN w.files[f].parts,
             NEW k \in DOMAIN w.files[f].parts[p].samples
      PROVE  w.files[f].parts[p].samples[k] \in all
  BY <1>2 DEF F4Disk
<1>4. \A k \in DOMAIN w.segment.part : w.segment.part[k] \in all
  BY DEF F4Good, F4Base
<1>5. F4Order(w.files, more)
  <2>1. F4Order(w.files, rec)
    BY DEF F4Good, F4Base
  <2> SUFFICES ASSUME NEW f \in DOMAIN w.files, NEW g \in DOMAIN w.files,
                      NEW p \in DOMAIN w.files[f].parts, NEW q \in DOMAIN w.files[g].parts
               PROVE  /\ InSequence(more, w.files[f].parts[p].samples)
                      /\ f < g \/ (f = g /\ p < q) =>
                           /\ w.files[f].parts[p].number < w.files[g].parts[q].number
                           /\ \A k \in DOMAIN w.files[f].parts[p].samples,
                                 l \in DOMAIN w.files[g].parts[q].samples :
                                Later(more, w.files[f].parts[p].samples[k],
                                            w.files[g].parts[q].samples[l])
    BY DEF F4Order
  <2>2. InSequence(rec, w.files[f].parts[p].samples)
    BY <2>1 DEF F4Order
  <2>3. InSequence(more, w.files[f].parts[p].samples)
    BY <1>1, <1>3, <2>2 DEF InSequence
  <2>4. ASSUME f < g \/ (f = g /\ p < q)
        PROVE  /\ w.files[f].parts[p].number < w.files[g].parts[q].number
               /\ \A k \in DOMAIN w.files[f].parts[p].samples,
                     l \in DOMAIN w.files[g].parts[q].samples :
                    Later(rec, w.files[f].parts[p].samples[k], w.files[g].parts[q].samples[l])
    BY <2>1, <2>4 DEF F4Order
  <2> QED
    BY <1>1, <1>3, <2>3, <2>4
<1>6. InSequence(more, w.segment.part)
  BY <1>1, <1>4 DEF F4Good, F4Base, InSequence
<1>7. Recent(w.files, more)
  BY <1>3 DEF F4Good, F4Base, Recent
<1>8. \A j \in all : more[j].version <= ver
  BY DEF F4Good, F4Base
<1>9. F4Base(w, more, all, ver)
  BY <1>5, <1>6, <1>7, <1>8 DEF F4Good, F4Base
<1>10. ASSUME Fresh(w, rec) PROVE Fresh(w, more)
  BY <1>1, <1>2, <1>4, <1>10 DEF Fresh, DiskBefore
<1> QED
  BY <1>9, <1>10 DEF F4Good

LEMMA F4Receives ==
  ASSUME F4Inv, agent = "recording", NEW t \in Tracks, NEW sync \in BOOLEAN,
         NEW new \in BOOLEAN, F!Record(t, sync, new)
  PROVE  F4Inv'
<1> DEFINE i == Len(received) + 1
           last == nextSample[t]
           sample(gap) == [track |-> t, dts |-> F!LastDTS(t) + gap,
                           sync |-> sync, version |-> version']
<1>1. /\ received \in Seq(F4Sample) /\ version \in Nat /\ nextSample \in [Tracks -> Nat]
      /\ Len(received) \in Nat /\ DOMAIN received = 1..Len(received) /\ i \in Nat \ {0}
      /\ i \notin DOMAIN received /\ last \in Nat
  BY DEF F4Inv, F4Tracks
<1>2. version' \in Nat /\ version <= version' /\ nextSample' = [nextSample EXCEPT ![t] = i]
  BY <1>1 DEF F!Record
<1>3. F!LastDTS(t) \in Nat \ {0}
  <2>1. CASE last = 0
    BY <2>1 DEF F!LastDTS
  <2>2. CASE last # 0
    <3>1. received[last] \in F4Sample
      BY <1>1, <2>2 DEF F4Inv, F4Tracks
    <3> QED
      BY <2>2, <3>1 DEF F!LastDTS, F4Sample
  <2> QED
    BY <2>1, <2>2
<1>4. PICK gap \in Gaps : received' = Append(received, sample(gap))
  BY DEF F!Record
<1>5. sample(gap) \in F4Sample /\ sample(gap).track = t /\ sample(gap).version = version'
  <2>1. F!LastDTS(t) + gap \in Nat \ {0}
    BY <1>3, AgentAssumption
  <2> QED
    BY <1>2, <2>1 DEF F4Sample
<1> HIDE DEF sample
<1>6. /\ received' \in Seq(F4Sample) /\ i \in DOMAIN received' /\ received'[i] = sample(gap)
      /\ \A j \in DOMAIN received : j \in DOMAIN received' /\ received'[j] = received[j] /\ j < i
      /\ \A j \in DOMAIN received' : j \in DOMAIN received \/ j = i
  BY <1>1, <1>4, <1>5, Appended
<1>7. /\ nextSample' \in [Tracks -> Nat] /\ nextSample'[t] = i
      /\ \A u \in Tracks \ {t} : nextSample'[u] = nextSample[u]
  BY <1>1, <1>2
<1>8. \A j \in DOMAIN received :
        /\ received[j].track \in Tracks /\ received[j].version \in Nat
        /\ received[j].version <= version /\ j <= nextSample[received[j].track] /\ j \in Nat
  <2> TAKE j \in DOMAIN received
  <2>1. received[j] \in F4Sample /\ j \in Nat
    BY <1>1
  <2>2. received[j].version <= version /\ j <= nextSample[received[j].track]
    BY DEF F4Inv, F4Tracks
  <2> QED
    BY <2>1, <2>2 DEF F4Sample
<1> HIDE DEF i
<1>9. F4Tracks'
  <2>1. ASSUME NEW j \in DOMAIN received'
        PROVE  received'[j].version <= version' /\ j <= nextSample'[received'[j].track]
    <3>1. CASE j = i
      BY <1>1, <1>2, <1>5, <1>6, <1>7, <3>1
    <3>2. CASE j \in DOMAIN received /\ received[j].track = t
      BY <1>1, <1>2, <1>6, <1>7, <1>8, <3>2
    <3>3. CASE j \in DOMAIN received /\ received[j].track # t
      BY <1>1, <1>2, <1>6, <1>7, <1>8, <3>3
    <3> QED
      BY <1>6, <3>1, <3>2, <3>3
  <2>2. ASSUME NEW u \in Tracks, nextSample'[u] # 0
        PROVE  nextSample'[u] \in DOMAIN received' /\ received'[nextSample'[u]].track = u
    <3>1. CASE u = t
      BY <1>5, <1>6, <1>7, <3>1
    <3>2. CASE u # t
      <4>1. nextSample'[u] = nextSample[u] /\ nextSample[u] # 0
        BY <1>7, <2>2, <3>2
      <4>2. nextSample[u] \in DOMAIN received /\ received[nextSample[u]].track = u
        BY <4>1 DEF F4Inv, F4Tracks
      <4> QED
        BY <1>6, <4>1, <4>2
    <3> QED
      BY <3>1, <3>2
  <2> QED
    BY <1>2, <1>6, <1>7, <2>1, <2>2 DEF F4Tracks
<1>10. \A j \in DOMAIN received :
         j \in Known' <=> j \in Known \/ j = last
  <2> TAKE j \in DOMAIN received
  <2>1. received'[j] = received[j] /\ j \in DOMAIN received' /\ j # i
    BY <1>1, <1>6
  <2>2. CASE received[j].track = t
    BY <1>7, <2>1, <2>2 DEF Known
  <2>3. CASE received[j].track # t
    <3>1. j # last
      BY <1>8, <2>3 DEF F4Inv, F4Tracks
    <3> QED
      BY <1>7, <1>8, <2>1, <2>3, <3>1 DEF Known
  <2> QED
    BY <2>2, <2>3
<1>11. i \notin Known' /\ Known \subseteq DOMAIN received /\ Known' \subseteq DOMAIN received
  BY <1>5, <1>6, <1>7 DEF Known
<1>12. last # 0 => last \in DOMAIN received /\ received[last].track = t
  BY DEF F4Inv, F4Tracks
<1>13. /\ last = 0 => Known' = Known
       /\ last # 0 => Known' = Known \cup {last}
  <2>1. last = 0 => last \notin DOMAIN received
    BY <1>1
  <2>2. ASSUME last = 0 PROVE Known' = Known
    <3>1. \A j : j \in Known' <=> j \in Known
      BY <1>10, <1>11, <2>1, <2>2
    <3> QED
      BY <3>1
  <2>3. ASSUME last # 0 PROVE Known' = Known \cup {last}
    <3>1. \A j : j \in Known' <=> j \in Known \/ j = last
      BY <1>10, <1>11, <1>12, <2>3
    <3> QED
      BY <3>1
  <2> QED
    BY <2>2, <2>3
<1>14. last # 0 => \A j \in Known : Later(received', j, last)
  <2> SUFFICES ASSUME last # 0, NEW j \in Known, received'[j].track = received'[last].track
               PROVE  j < last
    BY DEF Later
  <2>1. j \in DOMAIN received /\ received[j].track = t /\ received'[j] = received[j]
    BY <1>6, <1>11, <1>12
  <2>2. j <= last /\ j # last /\ j \in Nat
    BY <1>8, <2>1 DEF Known
  <2> QED
    BY <1>1, <2>2
<1>15. F4Good(F!Writing, received', Known, version)
  <2>1. F4Good(F!Writing, received, Known, version)
    BY DEF F4Inv
  <2> QED
    BY <1>6, <1>11, <2>1, F4Agrees
<1>16. \A j \in Known' :
         received'[j].version \in Nat /\ received'[j].version <= version'
  BY <1>1, <1>2, <1>6, <1>8, <1>11
<1>17. F!Writing.ok
  BY DEF F!Writing
<1>18. PICK u \in IF new THEN F!UpdateCodecs(F!Writing) ELSE {F!Writing} :
         \E w \in F!TrackRecord(u, t, i) :
           F!Becomes(w) /\ agent' = IF w.ok THEN agent ELSE "failed"
  BY DEF F!Record, i
<1>19. F4Good(u, received', Known, version')
  <2>1. CASE new
    <3>1. \A j \in Known : received'[j].version \in Nat
      BY <1>13, <1>16
    <3> QED
      BY <1>1, <1>2, <1>15, <1>17, <1>18, <2>1, <3>1, F4Updates
  <2>2. CASE ~new
    <3>1. version' = version
      BY <2>2 DEF F!Record
    <3> QED
      BY <1>15, <1>18, <2>2, <3>1
  <2> QED
    BY <2>1, <2>2
<1>20. PICK w \in F!TrackRecord(u, t, i) :
         F!Becomes(w) /\ agent' = IF w.ok THEN agent ELSE "failed"
  BY <1>18
<1>21. F!DTS(i) \in Nat
  BY <1>5, <1>6 DEF F!DTS, F4Sample
<1>22. F4Good(w, received', Known', version')
  BY <1>1, <1>2, <1>13, <1>14, <1>16, <1>19, <1>21, F4TrackRecords
<1>23. F4Good(F!Writing', received', Known', version') /\ F4Base(F!Writing', received', Known', version')
  BY <1>20, <1>22, F4GoesOn DEF F4Good
<1>24. agent' \in {"recording", "failed"}
  BY <1>20
<1> QED
  BY <1>9, <1>23, <1>24 DEF F4Inv

LEMMA F4Step == ASSUME F4Inv, F!Next PROVE F4Inv'
<1>1. /\ received \in Seq(F4Sample) /\ version \in Nat
      /\ \A j \in Known : received[j].version \in Nat
      /\ F!Writing.ok /\ F!Writing.files = files /\ F!Writing.clean = clean
      /\ F!Writing.segment = currentSegment
  <2>1. received \in Seq(F4Sample) /\ version \in Nat
    BY DEF F4Inv, F4Tracks
  <2>2. \A j \in Known : received[j] \in F4Sample
    BY <2>1 DEF Known
  <2> QED
    BY <2>1, <2>2 DEF F4Sample, F!Writing
<1>2. ASSUME NEW t \in Tracks, F!VideoUnit(t) \/ F!AudioUnit(t) PROVE F4Inv'
  BY <1>2, F4Receives DEF F!VideoUnit, F!AudioUnit
<1>3. ASSUME UNCHANGED <<received, nextSample>>, version' \in Nat, version <= version'
      PROVE  F4Tracks' /\ Known' = Known /\ received' = received
  <2>1. \A i \in DOMAIN received : received[i].version <= version'
    <3> TAKE i \in DOMAIN received
    <3>1. received[i] \in F4Sample /\ received[i].version <= version
      BY <1>1 DEF F4Inv, F4Tracks
    <3>2. received[i].version \in Nat
      BY <3>1 DEF F4Sample
    <3> QED
      BY <1>1, <1>3, <3>1, <3>2
  <2>2. F4Tracks'
    BY <1>3, <2>1 DEF F4Inv, F4Tracks
  <2>3. Known' = Known
    BY <1>3 DEF Known
  <2> QED
    BY <1>3, <2>2, <2>3
<1>4. ASSUME NEW t \in Tracks, F!UnrecordedUnit(t) PROVE F4Inv'
  <2>1. /\ agent = "recording" /\ agent' \in {"recording", "failed"}
        /\ UNCHANGED <<received, nextSample>>
    BY <1>4 DEF F!UnrecordedUnit
  <2>2. F4Good(F!Writing, received, Known, version)
    BY <2>1 DEF F4Inv
  <2>3. CASE UNCHANGED <<version, F!writing>>
    <3>1. UNCHANGED F!Writing /\ version' = version
      BY <2>3 DEF F!writing, F!Writing
    <3>2. F4Tracks' /\ Known' = Known /\ received' = received
      BY <1>1, <1>3, <2>1, <3>1
    <3> QED
      BY <2>1, <2>2, <3>1, <3>2 DEF F4Inv, F4Good
  <2>4. CASE /\ version' = version + 1
             /\ \E w \in F!UpdateCodecs(F!Writing) : F!Becomes(w)
    <3>1. version' \in Nat /\ version <= version'
      BY <1>1, <2>4
    <3>2. F4Tracks' /\ Known' = Known /\ received' = received
      BY <1>3, <2>1, <3>1
    <3>3. PICK w \in F!UpdateCodecs(F!Writing) : F!Becomes(w)
      BY <2>4
    <3>4. F4Good(w, received, Known, version') /\ F4Base(w, received, Known, version')
      <4>1. F4Good(w, received, Known, version')
        BY <1>1, <2>2, <3>1, <3>3, F4Updates
      <4> QED
        BY <4>1 DEF F4Good
    <3>5. F4Good(F!Writing', received, Known, version') /\ F4Base(F!Writing', received, Known, version')
      BY <3>3, <3>4, F4GoesOn
    <3> QED
      BY <2>1, <3>2, <3>5 DEF F4Inv
  <2> QED
    BY <1>4, <2>3, <2>4 DEF F!UnrecordedUnit
<1>5. CASE F!Close
  <2>1. /\ agent # "done" /\ agent' = "done" /\ version' = version
        /\ UNCHANGED <<received, nextSample>>
    BY <1>5 DEF F!Close
  <2>2. F4Good(F!Writing, received, Known, version) /\ F4Base(F!Writing, received, Known, version)
    BY <2>1 DEF F4Inv
  <2>3. F4Tracks' /\ Known' = Known /\ received' = received
    BY <1>1, <1>3, <2>1
  <2>4. PICK w \in IF currentSegment = F!NoSegment THEN {F!Writing} ELSE F!CloseSegment(F!Writing) :
          F!Becomes(w)
    BY <1>5 DEF F!Close
  <2>5. /\ F4Base(w, received, Known, version) /\ Shut(w)
        /\ w.clean => \A i \in Known : F4Disk(w.files, i)
    <3>1. CASE currentSegment = F!NoSegment
      <4>1. w = F!Writing /\ currentSegment.file = 0 /\ currentSegment.part = <<>>
        BY <2>4, <3>1 DEF F!NoSegment
      <4>2. DOMAIN currentSegment.part = {}
        BY <4>1
      <4>3. \A f \in DOMAIN F!Writing.files : f # 0
        BY <2>2 DEF F4Base, F4Writing
      <4> QED
        BY <1>1, <2>2, <4>1, <4>2, <4>3 DEF F4Base, Finished, Shut
    <3>2. CASE currentSegment # F!NoSegment
      BY <1>1, <2>1, <2>2, <2>4, <3>2, F4ClosesSegment
    <3> QED
      BY <3>1, <3>2
  <2>6. /\ F4Base(F!Writing', received, Known, version) /\ Shut(F!Writing')
        /\ files' = w.files /\ clean' = w.clean
    BY <2>4, <2>5, F4GoesOn
  <2> QED
    BY <2>1, <2>3, <2>5, <2>6 DEF F4Inv
<1> QED
  BY <1>2, <1>4, <1>5 DEF F!Next

LEMMA F4IsFinished == F4Inv => F!FilesAreFinished
<1> SUFFICES ASSUME F4Inv PROVE F!FilesAreFinished
  OBVIOUS
<1>1. /\ F!Writing.files = files /\ F!Writing.clean = clean
      /\ F!Writing.segment = currentSegment
  BY DEF F!Writing
<1> QED
  BY <1>1 DEF F4Inv, F4Base, Finished, Shut, F!FilesAreFinished

LEMMA F4Parameters == F4Inv => F!ParametersOfInit
<1> SUFFICES ASSUME F4Inv PROVE F!ParametersOfInit
  OBVIOUS
<1>1. Recent(files, received)
  BY DEF F4Inv, F4Base, F!Writing
<1>2. /\ F!Range(files) = {files[f] : f \in DOMAIN files}
      /\ \A f \in DOMAIN files :
           F!Range(files[f].parts) = {files[f].parts[p] : p \in DOMAIN files[f].parts}
      /\ \A f \in DOMAIN files : \A p \in DOMAIN files[f].parts :
           F!Range(files[f].parts[p].samples)
             = {files[f].parts[p].samples[k] : k \in DOMAIN files[f].parts[p].samples}
  BY DEF F!Range
<1>3. ASSUME NEW f \in DOMAIN files, NEW p \in DOMAIN files[f].parts,
             NEW i \in F!Range(files[f].parts[p].samples)
      PROVE  received[i].version <= files[f].init
  <2>1. PICK k \in DOMAIN files[f].parts[p].samples : i = files[f].parts[p].samples[k]
    BY DEF F!Range
  <2> QED
    BY <1>1, <2>1 DEF Recent
<1> QED
  BY <1>2, <1>3 DEF F!ParametersOfInit

LEMMA F4LosesNothing == F4Inv => F!NothingLost
<1> SUFFICES ASSUME F4Inv PROVE F!NothingLost
  OBVIOUS
<1>1. /\ F!Writing.files = files /\ F!Writing.clean = clean
      /\ F!Writing.segment = currentSegment
  BY DEF F!Writing
<1>2. F4Base(F!Writing, received, Known, version)
  BY DEF F4Inv
<1>3. \A i, j : F!Earlier(i, j) <=> Later(received, i, j)
  BY DEF F!Earlier, Later
<1>4. \A i : i \in F!OnDisk <=> F4Disk(files, i)
  <2>1. F!OnDisk = UNION {F!Range(written.samples) :
                              written \in UNION {F!Range(file.parts) : file \in F!Range(files)}}
    BY DEF F!OnDisk
  <2> QED
    BY <2>1 DEF F4Disk, F!Range
<1>5. ASSUME NEW f \in DOMAIN files, NEW g \in DOMAIN files,
             NEW p \in DOMAIN files[f].parts, NEW q \in DOMAIN files[g].parts
      PROVE  /\ F!InOrder(F!Part(f, p).samples)
             /\ f < g \/ (f = g /\ p < q) =>
                  /\ F!Part(f, p).number < F!Part(g, q).number
                  /\ \A i \in F!Range(F!Part(f, p).samples), j \in F!Range(F!Part(g, q).samples) :
                       F!Earlier(i, j)
  <2>1. /\ InSequence(received, files[f].parts[p].samples)
        /\ f < g \/ (f = g /\ p < q) =>
             /\ files[f].parts[p].number < files[g].parts[q].number
             /\ \A k \in DOMAIN files[f].parts[p].samples, l \in DOMAIN files[g].parts[q].samples :
                  Later(received, files[f].parts[p].samples[k], files[g].parts[q].samples[l])
    BY <1>1, <1>2 DEF F4Base, F4Order
  <2>2. F!InOrder(files[f].parts[p].samples)
    BY <1>3, <2>1 DEF InSequence, F!InOrder
  <2> QED
    BY <1>3, <2>1, <2>2 DEF F!Part, F!Range
<1> DEFINE waiting == IF agent = "done" THEN <<>> ELSE currentSegment.part
<1>6. ASSUME clean
      PROVE  /\ F!OnDisk \cup F!Range(waiting) = Known
             /\ F!InOrder(waiting)
             /\ \A i \in F!OnDisk, j \in F!Range(waiting) : F!Earlier(i, j)
  <2>1. F!Range(waiting) = {waiting[k] : k \in DOMAIN waiting}
    BY DEF F!Range
  <2>2. \A i \in F!OnDisk : i \in Known
    BY <1>1, <1>2, <1>4 DEF F4Base
  <2>3. CASE agent = "done"
    <3>1. DOMAIN waiting = {}
      BY <2>3
    <3>2. \A i \in Known : i \in F!OnDisk
      BY <1>4, <1>6, <2>3 DEF F4Inv
    <3> HIDE DEF waiting
    <3> QED
      BY <2>1, <2>2, <3>1, <3>2 DEF F!InOrder
  <2>4. CASE agent # "done"
    <3>1. waiting = currentSegment.part
      BY <2>4
    <3> HIDE DEF waiting
    <3>2. F4Good(F!Writing, received, Known, version)
      BY <2>4 DEF F4Inv
    <3>3. DiskBefore(files, received, waiting)
      BY <1>1, <1>6, <3>1, <3>2 DEF F4Good, Fresh
    <3>4. F!OnDisk \cup F!Range(waiting) = Known
      <4>1. \A k \in DOMAIN waiting : waiting[k] \in Known
        BY <1>1, <1>2, <3>1 DEF F4Base
      <4>2. \A i \in Known : F4Disk(files, i) \/ \E k \in DOMAIN waiting : waiting[k] = i
        BY <1>1, <1>2, <1>6, <3>1 DEF F4Base
      <4> QED
        BY <1>4, <2>1, <2>2, <4>1, <4>2
    <3>5. F!InOrder(waiting)
      BY <1>1, <1>2, <1>3, <3>1 DEF F4Base, InSequence, F!InOrder
    <3> QED
      BY <1>3, <1>4, <2>1, <3>3, <3>4, <3>5 DEF DiskBefore
  <2> QED
    BY <2>3, <2>4
<1> QED
  BY <1>5, <1>6 DEF F!NothingLost, Known

-----------------------------------------------------------------------------
(* Record is one of the three. *)
RecordInv ==
  /\ part \in {"fmp4", "mpegts", "cleaner"}
  /\ part = "fmp4" => F4Inv
  /\ part = "mpegts" => TSInv
  /\ part = "cleaner" => CleanerInv

LEMMA RecordStart == Init => RecordInv
BY F4Init, TSInit, CleanerInit DEF Init, RecordInv

LEMMA RecordStep == RecordInv /\ [Next]_vars => RecordInv'
<1> SUFFICES ASSUME RecordInv, [Next]_vars PROVE RecordInv'
  OBVIOUS
<1>1. CASE FMP4Step
  BY <1>1, F4Step DEF FMP4Step, RecordInv
<1>2. CASE MPEGTSStep
  BY <1>2, TSStep DEF MPEGTSStep, RecordInv
<1>3. CASE CleanerStep
  BY <1>3, CleanerNext DEF CleanerStep, RecordInv
<1>4. CASE UNCHANGED vars
  <2>1. UNCHANGED <<part, received, hasVideo, currentSegment, files, clean, agent>>
    BY <1>4 DEF vars, agentVars
  <2>2. /\ UNCHANGED <<version, nextSample, nextSequenceNumber, buffer, broken>>
        /\ UNCHANGED <<confs, now, due, onDisk, cleaner>>
    BY <1>4 DEF vars, fmp4Vars, mpegtsVars, cleanerVars
  <2>3. F4Inv => F4Inv'
    <3>1. UNCHANGED <<F!Writing, Known>>
      BY <2>1, <2>2 DEF F!Writing, Known
    <3> QED
      BY <2>1, <2>2, <3>1 DEF F4Inv, F4Tracks
  <2>4. TSInv => TSInv'
    <3>1. UNCHANGED <<TSNow, OnlyAC3>>
      BY <2>1, <2>2 DEF TSNow, OnlyAC3
    <3> QED
      BY <2>1, <2>2, <3>1 DEF TSInv
  <2>5. CleanerInv => CleanerInv'
    <3>1. UNCHANGED C!Interval
      BY <2>2 DEF C!Interval, C!Entries, C!MinOf
    <3> QED
      BY <2>2, <3>1 DEF CleanerInv, CleanerTypes, CleanerDue
  <2> QED
    BY <2>1, <2>3, <2>4, <2>5 DEF RecordInv
<1> QED
  BY <1>1, <1>2, <1>3, <1>4 DEF Next

LEMMA RecordAlways == Spec => []RecordInv
BY RecordStart, RecordStep, PTL DEF Spec

(* No sample is written twice or out of order, the parts of an fMP4 recording are
   numbered upwards, and unless a file operation failed every sample whose duration is
   known is on disk or about to be: whatever the parameters, and whichever operations
   on files fail. *)
THEOREM SamplesAreKept == Spec => []NothingLost
<1>1. RecordInv => NothingLost
  BY F4LosesNothing, TSLosesNothing DEF RecordInv, NothingLost
<1> QED
  BY <1>1, RecordAlways, PTL

(* A file is open only while it is that of the current segment, none is once the agent
   has ended, and the end of a file is told at most once, and always if nothing failed. *)
THEOREM FilesAreClosed == Spec => []FilesAreFinished
<1>1. RecordInv => FilesAreFinished
  BY F4IsFinished, TSIsFinished DEF RecordInv, FilesAreFinished
<1> QED
  BY <1>1, RecordAlways, PTL

(* An fMP4 file has no sample that needs newer parameters than it starts with. *)
THEOREM FilesCanBePlayed == Spec => []ParametersOfInit
<1>1. RecordInv => ParametersOfInit
  BY F4Parameters DEF RecordInv, ParametersOfInit
<1> QED
  BY <1>1, RecordAlways, PTL

(* While the cleaner runs no recording whose template it can find outlives its age by
   more than half of it, with templates that overlap too. *)
THEOREM OldFilesAreRemoved == Spec => []CleanedInTime
<1>1. RecordInv => CleanedInTime
  BY CleanerInTime DEF RecordInv, CleanedInTime
<1> QED
  BY <1>1, RecordAlways, PTL

(* The cleaner removes a recording only for the age of a path that records, in the same
   format, into a directory that holds it, and at most its template's precision early. *)
THEOREM YoungFilesAreKept == Spec => KeptLongEnough
<1>1. RecordInv /\ [Next]_vars => [part = "cleaner" => C!KeptLongEnoughStep]_vars
  BY CleanerKeeps DEF RecordInv, Next, FMP4Step, MPEGTSStep, CleanerStep
<1> QED
  BY <1>1, RecordAlways, PTL DEF Spec, KeptLongEnough
=============================================================================
