---------------------------- MODULE RecordCleaner ----------------------------
(***************************************************************************)
(* The cleaner of recordings (record/cleaner.go) and the entries it works  *)
(* from (gatherCleanerEntries of core/core.go). An entry is a template of  *)
(* file names, a format and an age. What its expression finds in the names *)
(* that filepath.Walk reports is taken for its own, whoever wrote it, and  *)
(* the time is the one the expression reads.                               *)
(*                                                                         *)
(* A name is the sequence of its elements. A template is directories, the  *)
(* name of the path, and the time in one or more elements:                 *)
(*   dotted     it starts with "./", as the default does                   *)
(*   dir        its directories, all from one place                        *)
(*   time       its elements after %path; elements are equal here if they  *)
(*              have the same fields between the same marks                *)
(*   precision  of the fields there are; those left out count as the least *)
(*   dated      the year is among them: left out, it is the year 0         *)
(* Templates of another form are left out. Ages and times are whole        *)
(* numbers; a run of the cleaner takes no time and removes what it means   *)
(* to. An age of 0 is left out: then the timer fires without end.          *)
(***************************************************************************)
EXTENDS Integers, FiniteSets, Sequences

CONSTANTS
  Paths,
  Names,           \* of every path, the elements of its name
  Templates,
  Ages,            \* what recordDeleteAfter may be
  MaxInterval,     \* half an hour
  MaxFiles,        \* bound on the files there are
  MaxTime          \* bound on the time

VARIABLES
  confs,           \* of every path: whether it records, its template, format and age
  now,
  due,             \* when the timer of the cleaner fires
  onDisk,          \* the files there are: whose, and from when
  cleaner          \* "running", or "done" once it was closed

vars == <<confs, now, due, onDisk, cleaner>>

Formats == {"fmp4", "mpegts"}

(* gatherCleanerEntries. *)
Entries ==
  {[template |-> confs[p].template, format |-> confs[p].format, age |-> confs[p].age] :
     p \in {p \in Paths : confs[p].record}}

MinOf(S) == CHOOSE x \in S : \A y \in S : x <= y

(* Mutant: an interval that is right for the last entry. *)
IntervalOfLongest ==
  LET longest == {e \in Entries : \A o \in Entries : o.age <= e.age}
  IN MinOf({MaxInterval} \cup {e.age \div 2 : e \in longest})

(* The time between two runs. *)
Interval == MinOf({MaxInterval} \cup {e.age \div 2 : e \in Entries})

(* The name of the files of a path, as Walk reports it: cleaned of a leading dot. *)
FileName(p) == confs[p].template.dir \o Names[p] \o confs[p].template.time

(* The elements s stand in name, after the first i. *)
IsAt(s, name, i) == \A k \in DOMAIN s : name[i + k] = s[k]

(* commonPath is not empty: an empty one cannot be walked. *)
IsWalked(t) == t.dotted \/ t.dir # <<>>

(* Walk reports what is below the directory of the template. The expression is       *)
(* searched in the name: %path takes any elements, and "./" any character before     *)
(* a slash, which the names that Walk reports do not have in front of the directory. *)
Matches(t, name) ==
  LET last == Len(name) - Len(t.time) IN
  /\ IsWalked(t)
  /\ \E i \in 0..last :
       /\ i + Len(t.dir) < last /\ (t.dotted => i > 0)
       /\ IsAt(t.dir, name, 0) /\ IsAt(t.dir, name, i) /\ IsAt(t.time, name, last)

(* The time that decodeRecordPath reads with t in a name from the time start. *)
Told(t, start) == start - (start % t.precision)

(* Mutant: the age of a file is compared with that of any entry. *)
ExpiredAnywhere(file, e) == now - Told(e.template, file.start) > e.age

(* doRunEntry: whose the file is plays no part. *)
Expired(file, e) ==
  /\ confs[file.path].format = e.format /\ Matches(e.template, FileName(file.path))
  /\ e.template.dated => now - Told(e.template, file.start) > e.age

Kept == {file \in onDisk : \A e \in Entries : ~Expired(file, e)}

Init ==
  /\ confs \in [Paths ->
               [record : BOOLEAN, template : Templates, format : Formats, age : Ages]]
  /\ now = 0
  /\ due = 0
  /\ onDisk = {}
  /\ cleaner = "running"

(* A path that records starts a segment. *)
NewFile(p) ==
  /\ confs[p].record /\ Cardinality(onDisk) < MaxFiles
  /\ onDisk' = onDisk \cup {[path |-> p, start |-> now]}
  /\ UNCHANGED <<confs, now, due, cleaner>>

(* doRun, at once when the cleaner starts and whenever the timer fires. *)
Run ==
  /\ cleaner = "running" /\ due = now
  /\ onDisk' = Kept
  /\ due' = now + Interval
  /\ UNCHANGED <<confs, now, cleaner>>

Close ==
  /\ cleaner = "running"
  /\ cleaner' = "done"
  /\ UNCHANGED <<confs, now, due, onDisk>>

Tick ==
  /\ now < MaxTime
  /\ cleaner = "running" => now < due
  /\ now' = now + 1
  /\ UNCHANGED <<confs, due, onDisk, cleaner>>

Next == (\E p \in Paths : NewFile(p)) \/ Run \/ Close \/ Tick

Spec == Init /\ [][Next]_vars
-----------------------------------------------------------------------------
(* A template that the cleaner finds in the names written from it. *)
IsFound(t) == ~t.dotted /\ t.dir # <<>>

(* While the cleaner works, no file whose template it can find is older than the age of
   its path by more than half of it, whatever else takes the file for its own: the timer
   is set for the most impatient of all entries. *)
CleanedInTime ==
  cleaner = "running" =>
    \A file \in onDisk :
      IsFound(confs[file.path].template) => 2 * (now - file.start) <= 3 * confs[file.path].age

(* A file goes only for the age of a path that records in the same format into the
   directory of the file, or into one above it, and no sooner than the precision of that
   path's template before that age: if no other path does, for its own path's age. *)
KeptLongEnoughStep ==
  \A file \in onDisk \ onDisk' :
    \E p \in Paths :
      LET t == confs[p].template IN
      /\ confs[p].record /\ confs[p].format = confs[file.path].format
      /\ IsAt(t.dir, FileName(file.path), 0)
      /\ t.dated => now - file.start > confs[p].age - t.precision

(* What the comment on Cleaner says, of any template: expired segments are removed. The
   default template is one that does not find its own files. *)
ExpiredAreRemoved ==
  cleaner = "running" =>
    \A file \in onDisk : 2 * (now - file.start) <= 3 * confs[file.path].age
=============================================================================
