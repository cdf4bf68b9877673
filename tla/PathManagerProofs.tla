------------------------- MODULE PathManagerProofs -------------------------
(***************************************************************************)
(* Theorems about PathManager, for every set of names, patterns, clients,  *)
(* path objects and configurations: the indexes agree with the paths, two  *)
(* paths of one name never work together, a working path can be found and  *)
(* no reload leaves a path with a configuration that needs another.        *)
(***************************************************************************)
EXTENDS PathManager, TLAPS

(* A path is indexed by its own name. *)
NamesAgree ==
  \A n \in Names : paths[n] # None =>
    Exists(paths[n]) /\ obj[paths[n]].name = n

(* The context of a path is done when the manager's is, and before it ends. *)
ContextsFollow ==
  \A pa \in Paths : Exists(pa) =>
    /\ obj[pa].pc # "free"
    /\ obj[pa].pc \in {"cancelled", "ended"} => obj[pa].done
    /\ pmDone => obj[pa].done

(* A path that works is indexed, or is the one a reload has closed and awaits. *)
KnownOrAwaited ==
  \A pa \in Paths : Working(pa) => paths[obj[pa].name] = pa \/ waitFor = pa

(* While a reload waits for a path, nobody has taken its name. *)
NameIsFree ==
  waitFor # None =>
    /\ pm = "reloading"
    /\ Exists(waitFor)
    /\ obj[waitFor].done
    /\ paths[obj[waitFor].name] = None

(* An indexed path was not told to close, unless all were. *)
IndexedAreOpen ==
  \A n \in Names : paths[n] # None /\ ~pmDone => ~obj[paths[n]].done

(* An indexed path has a configuration that the present one does not replace. *)
ConfsAgree ==
  \A n \in Names : paths[n] # None =>
    LET pa == obj[paths[n]]
    IN pa.confName \in DOMAIN pathConfs /\ CanBeUpdated(pathConfs[pa.confName], pa.conf)

ManagerInv ==
  /\ TypeOK
  /\ IndexesAgree
  /\ NamesAgree
  /\ ContextsFollow
  /\ KnownOrAwaited
  /\ NameIsFree
  /\ IndexedAreOpen
  /\ ConfsAgree
-----------------------------------------------------------------------------
LEMMA NoneIsNoPath == None \notin Paths /\ Names \cap Patterns = {}
BY NamesAssumption

LEMMA ConfsType ==
  ASSUME NEW cs \in PathConfigs, NEW cn \in DOMAIN cs
  PROVE  /\ cn \in ConfNames
         /\ cs[cn] \in UNION {{ds[x] : x \in DOMAIN ds} : ds \in PathConfigs}
BY NamesAssumption

(* What newPath returns is a path that works, and not nil. *)
LEMMA NewPathType ==
  ASSUME TypeOK, NEW n \in Names, NEW cs \in PathConfigs, NEW cn \in DOMAIN cs
  PROVE  /\ NewPath(n, cn, cs) \in PathObject
         /\ NewPath(n, cn, cs) # None
         /\ NewPath(n, cn, cs).pc = "loop"
         /\ NewPath(n, cn, cs).name = n
         /\ NewPath(n, cn, cs).confName = cn
         /\ NewPath(n, cn, cs).conf = cs[cn]
         /\ NewPath(n, cn, cs).done = pmDone
<1>1. NewPath(n, cn, cs) \in PathObject
  BY ConfsType DEF TypeOK, NewPath, PathObject
<1> QED
  BY <1>1, NoneAssumption DEF NewPath

(* createPath of some names, each with an object and a configuration of its own. *)
Creates(ns, new, cn, cs) ==
  /\ ns \subseteq Names
  /\ new \in [ns -> Paths]
  /\ cs \in PathConfigs
  /\ cn \in [ns -> DOMAIN cs]
  /\ \A m, n \in ns : new[m] = new[n] => m = n
  /\ CreatePaths(ns, new, cn, cs)

(* What createPath leaves. *)
LEMMA Created ==
  ASSUME TypeOK, NEW ns, NEW new, NEW cn, NEW cs, Creates(ns, new, cn, cs)
  PROVE  /\ \A n \in ns : paths'[n] = new[n] /\ obj'[new[n]] = NewPath(n, cn[n], cs)
         /\ \A n \in Names \ ns : paths'[n] = paths[n]
         /\ \A pa \in Paths : (\A n \in ns : new[n] # pa) => obj'[pa] = obj[pa]
         /\ \A x \in ConfNames, pa \in Paths :
              pa \in byConf'[x] <=> pa \in byConf[x]
                                      \/ \E n \in ns : cn[n] = x /\ new[n] = pa
         /\ paths' \in [Names -> Paths \cup {None}]
         /\ byConf' \in [ConfNames -> SUBSET Paths]
         /\ obj' \in [Paths -> PathObject \cup {None}]
<1> USE DEF Creates, CreatePaths
<1>1. ASSUME NEW n \in ns PROVE (CHOOSE m \in ns : new[m] = new[n]) = n
  <2>1. \E m \in ns : new[m] = new[n]
    BY <1>1
  <2>2. (CHOOSE m \in ns : new[m] = new[n]) \in ns
        /\ new[CHOOSE m \in ns : new[m] = new[n]] = new[n]
    BY <2>1
  <2> QED
    BY <1>1, <2>2
<1>2. ASSUME NEW n \in ns
      PROVE  paths'[n] = new[n] /\ obj'[new[n]] = NewPath(n, cn[n], cs)
  <2>1. new[n] \in Paths
    BY <1>2
  <2> QED
    BY <1>1, <1>2, <2>1
<1>3. ASSUME NEW pa \in Paths, \A n \in ns : new[n] # pa PROVE obj'[pa] = obj[pa]
  BY <1>3
<1>4. paths' \in [Names -> Paths \cup {None}] /\ \A n \in Names \ ns : paths'[n] = paths[n]
  BY DEF TypeOK
<1>5. ASSUME NEW x \in ConfNames
      PROVE  /\ byConf'[x] = byConf[x] \cup {new[n] : n \in {m \in ns : cn[m] = x}}
             /\ byConf'[x] \subseteq Paths
             /\ \A pa \in Paths :
                  pa \in byConf'[x] <=> pa \in byConf[x]
                                          \/ \E n \in ns : cn[n] = x /\ new[n] = pa
  BY <1>5 DEF TypeOK
<1>6. byConf' \in [ConfNames -> SUBSET Paths]
  <2>1. byConf' = [x \in ConfNames |-> byConf'[x]]
    OBVIOUS
  <2> QED
    BY <2>1, <1>5
<1>7. obj' \in [Paths -> PathObject \cup {None}]
  <2>1. ASSUME NEW pa \in Paths PROVE obj'[pa] \in PathObject \cup {None}
    <3>1. CASE \E n \in ns : new[n] = pa
      <4>1. PICK n \in ns : new[n] = pa
        BY <3>1
      <4>2. n \in Names /\ cn[n] \in DOMAIN cs
        BY <4>1
      <4> QED
        BY <1>2, <4>1, <4>2, NewPathType
    <3>2. CASE ~ \E n \in ns : new[n] = pa
      BY <1>3, <3>2, <2>1 DEF TypeOK
    <3> QED
      BY <3>1, <3>2
  <2>2. obj' = [pa \in Paths |-> obj'[pa]]
    OBVIOUS
  <2> QED
    BY <2>1, <2>2
<1> QED
  BY <1>2, <1>3, <1>4, <1>5, <1>6, <1>7
-----------------------------------------------------------------------------
(* A step that leaves a path where a reader of its configuration expects it: it
   may stop working, but never start to, and ends only with its context done. *)
Continues(pa) ==
  /\ obj'[pa] # None <=> obj[pa] # None
  /\ obj[pa] # None =>
       /\ obj'[pa].name = obj[pa].name
       /\ obj'[pa].confName = obj[pa].confName
       /\ obj'[pa].conf = obj[pa].conf
       /\ obj'[pa].done <=> obj[pa].done
       /\ obj'[pa].pc # "free"
       /\ obj'[pa].pc \in {"loop", "notifying"} => obj[pa].pc \in {"loop", "notifying"}
       /\ obj'[pa].pc \in {"cancelled", "ended"} => obj[pa].done

LEMMA ContinuesStep ==
  ASSUME ManagerInv, TypeOK', UNCHANGED pmVars, \A pa \in Paths : Continues(pa)
  PROVE  ManagerInv'
<1> USE NoneIsNoPath DEF ManagerInv, Continues, pmVars, Exists, Is, Working
<1>1. IndexesAgree'
  BY DEF IndexesAgree
<1>2. NamesAgree'
  BY DEF NamesAgree, TypeOK
<1>3. ContextsFollow'
  BY DEF ContextsFollow
<1>4. KnownOrAwaited'
  BY DEF KnownOrAwaited
<1>5. NameIsFree'
  BY DEF NameIsFree, TypeOK
<1>6. IndexedAreOpen'
  BY DEF IndexedAreOpen, NamesAgree, TypeOK
<1>7. ConfsAgree'
  BY DEF ConfsAgree, NamesAgree, TypeOK
<1> QED
  BY <1>1, <1>2, <1>3, <1>4, <1>5, <1>6, <1>7

LEMMA Stays ==
  ASSUME ManagerInv, NEW pa \in Paths, obj'[pa] = obj[pa]
  PROVE  Continues(pa)
BY DEF ManagerInv, ContextsFollow, Exists, Continues
-----------------------------------------------------------------------------
(* The types of what the clients' steps assign. *)
ClientTypes ==
  /\ op \in [Clients -> ClientStates]
  /\ target \in [Clients -> Names]
  /\ todo \in [Clients -> SUBSET Paths]

LEMMA ReturnedType ==
  ASSUME TypeOK, NEW c \in Clients, NEW pa \in Paths, NEW state \in ClientStates,
         Returned(c, pa, state), UNCHANGED target
  PROVE  ClientTypes'
BY DEF TypeOK, Returned, Becomes, ClientTypes

(* New users of a path: it goes on, or leaves. *)
LEMMA SetUsersStep ==
  ASSUME ManagerInv, NEW pa \in Paths, Takes(pa), NEW users \in SUBSET Clients,
         SetUsers(pa, users), UNCHANGED pmVars, ClientTypes'
  PROVE  ManagerInv'
<1> USE DEF SetUsers
<1>1. obj[pa] \in PathObject /\ obj[pa] # None /\ obj[pa].pc = "loop"
  BY DEF ManagerInv, TypeOK, Takes, Is, Exists
<1> DEFINE next == IF users = {} /\ obj[pa].confName \in Patterns
                     THEN "leaving" ELSE obj[pa].pc
<1>2. obj'[pa] = [obj[pa] EXCEPT !.users = users, !.pc = next]
  BY DEF ManagerInv, TypeOK
<1>3. next \in {"loop", "leaving"}
  BY <1>1
<1> HIDE DEF next, SetUsers
<1>4. Continues(pa) /\ obj'[pa] \in PathObject
  <2>1. obj'[pa] \in PathObject
    BY <1>1, <1>2, <1>3 DEF PathObject
  <2>2. /\ obj'[pa].name = obj[pa].name
        /\ obj'[pa].confName = obj[pa].confName
        /\ obj'[pa].conf = obj[pa].conf
        /\ obj'[pa].done = obj[pa].done
        /\ obj'[pa].pc = next
    BY <1>1, <1>2 DEF PathObject
  <2> QED
    BY <1>1, <1>3, <2>1, <2>2, NoneAssumption DEF Continues
<1> USE DEF SetUsers
<1>5. ASSUME NEW other \in Paths, other # pa PROVE obj'[other] = obj[other]
  BY <1>5 DEF ManagerInv, TypeOK
<1>6. obj' \in [Paths -> PathObject \cup {None}]
  BY <1>4 DEF ManagerInv, TypeOK
<1>7. TypeOK'
  BY <1>6 DEF ManagerInv, TypeOK, ClientTypes, pmVars
<1> QED
  BY <1>4, <1>5, <1>7, Stays, ContinuesStep

(* A path's goroutine goes elsewhere, but not to its end. *)
LEMMA GoesStep ==
  ASSUME ManagerInv, NEW pa \in Paths, Exists(pa),
         NEW pc \in {"loop", "notifying", "leaving", "ended"},
         pc \in {"loop", "notifying"} => Working(pa),
         pc = "ended" => obj[pa].done,
         Goes(pa, pc), UNCHANGED <<pmVars, clientVars>>
  PROVE  ManagerInv'
<1> USE DEF Goes
<1>1. obj[pa] \in PathObject /\ obj[pa] # None
  BY DEF ManagerInv, TypeOK, Exists
<1>2. obj'[pa] = [obj[pa] EXCEPT !.pc = pc]
  BY DEF ManagerInv, TypeOK
<1>3. obj'[pa] \in PathObject
  BY <1>1, <1>2 DEF PathObject
<1>4. Continues(pa)
  BY <1>1, <1>2, <1>3, NoneAssumption DEF Continues, PathObject, Working, Is
<1>5. ASSUME NEW other \in Paths, other # pa PROVE obj'[other] = obj[other]
  BY <1>5 DEF ManagerInv, TypeOK
<1>6. obj' \in [Paths -> PathObject \cup {None}]
  BY <1>3 DEF ManagerInv, TypeOK
<1>7. TypeOK'
  BY <1>6 DEF ManagerInv, TypeOK, pmVars, clientVars
<1> QED
  BY <1>4, <1>5, <1>7, Stays, ContinuesStep

(* Nothing changes but what the clients know. *)
LEMMA ClientStep ==
  ASSUME ManagerInv, UNCHANGED <<pmVars, obj>>, ClientTypes'
  PROVE  ManagerInv'
<1>1. TypeOK'
  BY DEF ManagerInv, TypeOK, ClientTypes, pmVars
<1> QED
  BY <1>1, Stays, ContinuesStep

LEMMA ClientKeeps ==
  ASSUME ManagerInv, NEW c \in Clients,
         Ask(c) \/ Quit(c) \/ RefuseRequest(c) \/ DoAPIRequest(c) \/ AskTerminated(c)
  PROVE  ManagerInv'
<1>1. ClientTypes'
  <2> USE DEF ManagerInv, TypeOK, ClientTypes, Becomes, ClientStates
  <2>1. CASE Ask(c)
    BY <2>1 DEF Ask
  <2>2. CASE Quit(c)
    BY <2>2 DEF Quit
  <2>3. CASE RefuseRequest(c)
    BY <2>3 DEF RefuseRequest
  <2>4. CASE DoAPIRequest(c)
    <3>1. PICK names \in {{target[c]}, Names} :
            /\ todo' = [todo EXCEPT ![c] = Found(names)]
            /\ Becomes(c, IF Found(names) = {} THEN "idle" ELSE "callInfo")
      BY <2>4 DEF DoAPIRequest
    <3>2. Found(names) \subseteq Paths
      BY <3>1 DEF Found
    <3> QED
      BY <2>4, <3>1, <3>2 DEF DoAPIRequest
  <2>5. CASE AskTerminated(c)
    BY <2>5 DEF AskTerminated
  <2> QED
    BY <2>1, <2>2, <2>3, <2>4, <2>5
<1>2. UNCHANGED <<pmVars, obj>>
  BY DEF Ask, Quit, RefuseRequest, DoAPIRequest, AskTerminated
<1> QED
  BY <1>1, <1>2, ClientStep

LEMMA CallKeeps ==
  ASSUME ManagerInv, NEW c \in Clients, NEW pa \in Paths,
         PathServes(c, pa) \/ CallTerminated(c, pa)
  PROVE  ManagerInv'
<1> USE DEF ManagerInv
<1>1. CASE PathTakesRequest(c, pa)
  <2>1. ClientTypes'
    BY <1>1, ReturnedType DEF PathTakesRequest, ClientStates
  <2>2. obj[pa].users \in SUBSET Clients /\ Takes(pa)
    BY <1>1 DEF PathTakesRequest, Takes, Is, Exists, TypeOK, PathObject
  <2> QED
    BY <1>1, <2>1, <2>2, SetUsersStep DEF PathTakesRequest
<1>2. CASE PathTakesAPIRequest(c, pa) \/ CallTerminated(c, pa)
  BY <1>2, ReturnedType, ClientStep
     DEF PathTakesAPIRequest, CallTerminated, ClientStates
<1>3. CASE PathTakesQuit(c, pa)
  <2>1. ClientTypes'
    BY <1>3 DEF PathTakesQuit, TypeOK, ClientTypes, Becomes, ClientStates
  <2>2. obj[pa].users \in SUBSET Clients /\ Takes(pa)
    BY <1>3 DEF PathTakesQuit, Takes, Is, Exists, TypeOK, PathObject
  <2> QED
    BY <1>3, <2>1, <2>2, SetUsersStep DEF PathTakesQuit
<1> QED
  BY <1>1, <1>2, <1>3 DEF PathServes

(* A client that no path knows any more: it is in use of none. *)
LEMMA QuitKeeps ==
  ASSUME ManagerInv, NEW c \in Clients, QuitUnknown(c)
  PROVE  ManagerInv'
<1> USE DEF ManagerInv, QuitUnknown
<1>1. ClientTypes'
  BY DEF TypeOK, ClientTypes, Becomes, ClientStates
<1>2. ASSUME NEW pa \in Paths
      PROVE  Continues(pa) /\ obj'[pa] \in PathObject \cup {None}
  <2>1. CASE obj[pa] = None
    BY <2>1 DEF Continues, Exists
  <2>2. CASE obj[pa] # None
    <3>1. obj[pa] \in PathObject /\ obj'[pa] = [obj[pa] EXCEPT !.users = @ \ {c}]
      BY <1>2, <2>2 DEF TypeOK, Exists
    <3>2. obj'[pa] \in PathObject
      BY <3>1 DEF PathObject
    <3>3. obj[pa].pc # "free" /\ (obj[pa].pc \in {"cancelled", "ended"} => obj[pa].done)
      BY <2>2 DEF ContextsFollow, Exists
    <3> QED
      BY <2>2, <3>1, <3>2, <3>3, NoneAssumption DEF Continues, PathObject
  <2> QED
    BY <2>1, <2>2
<1>3. obj' \in [Paths -> PathObject \cup {None}]
  <2>1. obj' = [pa \in Paths |-> obj'[pa]]
    OBVIOUS
  <2> QED
    BY <1>2, <2>1
<1>4. TypeOK'
  BY <1>1, <1>3 DEF TypeOK, ClientTypes, pmVars
<1> QED
  BY <1>2, <1>4, ContinuesStep
-----------------------------------------------------------------------------
(* A path's own steps. *)
LEMMA PathGoesKeeps ==
  ASSUME ManagerInv, NEW pa \in Paths,
         PathNotifies(pa) \/ PathNotified(pa) \/ PathLeaves(pa) \/ PathEnds(pa)
  PROVE  ManagerInv'
<1>1. CASE PathNotifies(pa)
  BY <1>1, GoesStep DEF PathNotifies, Takes, Is, Working
<1>2. CASE PathNotified(pa)
  BY <1>2, GoesStep DEF PathNotified, Is, Working
<1>3. CASE PathLeaves(pa)
  BY <1>3, GoesStep DEF PathLeaves, Is
<1>4. CASE PathEnds(pa)
  BY <1>4, GoesStep DEF PathEnds, Is, ManagerInv, ContextsFollow
<1> QED
  BY <1>1, <1>2, <1>3, <1>4

(* Its end: it does not work, and its context is done. *)
LEMMA CancelledObject ==
  ASSUME TypeOK, NEW pa \in Paths, Exists(pa), Cancelled(pa)
  PROVE  /\ obj' \in [Paths -> PathObject \cup {None}]
         /\ \A other \in Paths : other # pa => obj'[other] = obj[other]
         /\ obj'[pa] # None
         /\ obj'[pa].name = obj[pa].name
         /\ obj'[pa].confName = obj[pa].confName
         /\ obj'[pa].conf = obj[pa].conf
         /\ obj'[pa].done
         /\ obj'[pa].pc = "cancelled"
<1> USE DEF Cancelled
<1>1. obj[pa] \in PathObject
  BY DEF TypeOK, Exists
<1>2. obj'[pa] = [obj[pa] EXCEPT !.pc = "cancelled", !.done = TRUE]
  BY DEF TypeOK
<1>3. obj'[pa] \in PathObject
  <2> HIDE DEF Cancelled
  <2> QED
    BY <1>1, <1>2 DEF PathObject
<1>4. \A other \in Paths : other # pa => obj'[other] = obj[other]
  BY DEF TypeOK
<1>5. obj' \in [Paths -> PathObject \cup {None}]
  BY <1>3 DEF TypeOK
<1> QED
  BY <1>1, <1>2, <1>3, <1>4, <1>5, NoneAssumption DEF PathObject

(* The manager forgets a path whose context is done, if it knows it. *)
Forgets(pa) ==
  IF paths[obj[pa].name] = pa THEN RemovePath(pa) ELSE UNCHANGED <<paths, byConf>>

LEMMA ForgetsIndexes ==
  ASSUME ManagerInv, NEW pa \in Paths, Exists(pa), Forgets(pa)
  PROVE  /\ paths' \in [Names -> Paths \cup {None}]
         /\ byConf' \in [ConfNames -> SUBSET Paths]
         /\ \A n \in Names : paths'[n] = IF paths[n] = pa THEN None ELSE paths[n]
         /\ \A x \in ConfNames, other \in Paths :
              other \in byConf'[x] <=> other \in byConf[x] /\ other # pa
<1>1. obj[pa].name \in Names /\ obj[pa].confName \in ConfNames
  BY DEF ManagerInv, TypeOK, Exists, PathObject
<1>2. \A n \in Names : paths[n] = pa => n = obj[pa].name
  BY NoneIsNoPath DEF ManagerInv, NamesAgree
<1>3. \A x \in ConfNames : pa \in byConf[x] =>
        x = obj[pa].confName /\ paths[obj[pa].name] = pa
  BY DEF ManagerInv, IndexesAgree
<1>4. CASE paths[obj[pa].name] = pa
  BY <1>1, <1>2, <1>3, <1>4 DEF Forgets, RemovePath, ManagerInv, TypeOK
<1>5. CASE paths[obj[pa].name] # pa
  BY <1>2, <1>3, <1>5 DEF Forgets, ManagerInv, TypeOK
<1> QED
  BY <1>4, <1>5

LEMMA CloseKeeps ==
  ASSUME ManagerInv, NEW pa \in Paths, DoClosePath(pa) \/ ClosePathUnheard(pa)
  PROVE  ManagerInv'
<1> USE NoneIsNoPath DEF ManagerInv
<1>1. /\ Exists(pa) /\ Cancelled(pa) /\ obj[pa].pc = "leaving"
      /\ UNCHANGED <<pathConfs, pm, pmDone, newConfs, waitFor, clientVars>>
  BY DEF DoClosePath, ClosePathUnheard, Is, pmVars
<1>2. \/ Forgets(pa)
      \/ UNCHANGED <<paths, byConf>> /\ (pmDone \/ obj[pa].done)
  BY DEF DoClosePath, ClosePathUnheard, Forgets, pmVars
<1>3. /\ obj' \in [Paths -> PathObject \cup {None}]
      /\ \A other \in Paths : other # pa => obj'[other] = obj[other]
      /\ obj'[pa] # None
      /\ obj'[pa].name = obj[pa].name
      /\ obj'[pa].confName = obj[pa].confName
      /\ obj'[pa].conf = obj[pa].conf
      /\ obj'[pa].done
      /\ obj'[pa].pc = "cancelled"
  BY <1>1, CancelledObject
<1>4. /\ paths' \in [Names -> Paths \cup {None}]
      /\ byConf' \in [ConfNames -> SUBSET Paths]
      /\ \A n \in Names : paths'[n] = paths[n] \/ (paths[n] = pa /\ paths'[n] = None)
      /\ Forgets(pa) => \A n \in Names : paths'[n] # pa
      /\ \A other \in Paths, x \in ConfNames : other # pa =>
           (other \in byConf'[x] <=> other \in byConf[x])
      /\ \A x \in ConfNames :
           pa \in byConf'[x] <=> pa \in byConf[x] /\ paths'[obj[pa].name] = pa
  <2>1. obj[pa].name \in Names
    BY <1>1 DEF TypeOK, Exists, PathObject
  <2>2. \A x \in ConfNames : pa \in byConf[x] => paths[obj[pa].name] = pa
    BY DEF IndexesAgree
  <2>3. ASSUME Forgets(pa)
        PROVE  /\ paths' \in [Names -> Paths \cup {None}]
               /\ byConf' \in [ConfNames -> SUBSET Paths]
               /\ \A n \in Names : paths'[n] = IF paths[n] = pa THEN None ELSE paths[n]
               /\ \A x \in ConfNames, other \in Paths :
                    other \in byConf'[x] <=> other \in byConf[x] /\ other # pa
    BY <1>1, <2>3, ForgetsIndexes
  <2>4. Forgets(pa) => \A n \in Names : paths'[n] # pa
    BY <2>3
  <2>5. CASE Forgets(pa)
    BY <2>1, <2>3, <2>4, <2>5
  <2>6. CASE UNCHANGED <<paths, byConf>>
    <3>1. /\ paths' \in [Names -> Paths \cup {None}]
          /\ byConf' \in [ConfNames -> SUBSET Paths]
      BY <2>6 DEF TypeOK
    <3> QED
      BY <2>2, <2>4, <2>6, <3>1
  <2> QED
    BY <1>2, <2>5, <2>6
<1>5. TypeOK'
  BY <1>1, <1>3, <1>4 DEF TypeOK, clientVars
<1>6. IndexesAgree'
  <2> SUFFICES ASSUME NEW other \in Paths, NEW x \in ConfNames
               PROVE  other \in byConf'[x] <=>
                        Exists(other)' /\ obj'[other].confName = x
                          /\ paths'[obj'[other].name] = other
    BY DEF IndexesAgree
  <2>1. other \in byConf[x] <=> Exists(other) /\ obj[other].confName = x
                                  /\ paths[obj[other].name] = other
    BY DEF IndexesAgree
  <2>2. Exists(other) => obj[other].name \in Names
    BY DEF TypeOK, Exists, PathObject
  <2>3. CASE other = pa
    BY <1>1, <1>3, <1>4, <2>1, <2>2, <2>3 DEF Exists
  <2>4. CASE other # pa
    BY <1>3, <1>4, <2>1, <2>2, <2>4 DEF Exists
  <2> QED
    BY <2>3, <2>4
<1>7. NamesAgree'
  BY <1>3, <1>4 DEF NamesAgree, Exists, TypeOK
<1>8. ContextsFollow'
  BY <1>1, <1>3 DEF ContextsFollow, Exists
<1>9. KnownOrAwaited'
  <2>1. \A other \in Paths : Exists(other) => obj[other].name \in Names
    BY DEF TypeOK, Exists, PathObject
  <2> QED
    BY <1>1, <1>3, <1>4, <2>1 DEF KnownOrAwaited, Working, Is, Exists
<1>10. NameIsFree'
  <2>1. waitFor # None => waitFor \in Paths /\ obj[waitFor].name \in Names
    BY DEF NameIsFree, TypeOK, Exists, PathObject
  <2> QED
    BY <1>1, <1>3, <1>4, <2>1 DEF NameIsFree, Exists
<1>11. IndexedAreOpen'
  <2>1. ~pmDone => \A n \in Names : paths'[n] # pa
    BY <1>2, <1>4 DEF IndexedAreOpen
  <2> QED
    BY <1>1, <1>3, <1>4, <2>1 DEF IndexedAreOpen, TypeOK
<1>12. ConfsAgree'
  BY <1>1, <1>3, <1>4 DEF ConfsAgree, TypeOK
<1> QED
  BY <1>5, <1>6, <1>7, <1>8, <1>9, <1>10, <1>11, <1>12
-----------------------------------------------------------------------------
(* New paths for names that have none, while no reload waits for a path. The
   configurations they come from are those in force afterwards, and those of the
   paths there are agree with them. *)
LEMMA CreateKeeps ==
  ASSUME ManagerInv, TypeOK', waitFor = None, waitFor' = None, UNCHANGED pmDone,
         NEW ns, NEW new, NEW cn, NEW cs, Creates(ns, new, cn, cs),
         \A n \in ns : Unused(new[n]) /\ paths[n] = None,
         pathConfs' = cs,
         \A n \in Names : paths[n] # None =>
           /\ obj[paths[n]].confName \in DOMAIN cs
           /\ CanBeUpdated(cs[obj[paths[n]].confName], obj[paths[n]].conf)
  PROVE  ManagerInv'
<1>1. TypeOK
  BY DEF ManagerInv
<1>2. /\ \A n \in ns : paths'[n] = new[n] /\ obj'[new[n]] = NewPath(n, cn[n], cs)
      /\ \A n \in Names \ ns : paths'[n] = paths[n]
      /\ \A pa \in Paths : (\A n \in ns : new[n] # pa) => obj'[pa] = obj[pa]
      /\ \A x \in ConfNames, pa \in Paths :
           pa \in byConf'[x] <=> pa \in byConf[x]
                                   \/ \E n \in ns : cn[n] = x /\ new[n] = pa
  BY <1>1, Created
<1> USE DEF Creates
<1> USE NoneIsNoPath DEF ManagerInv
<1>3. ASSUME NEW n \in ns
      PROVE  /\ NewPath(n, cn[n], cs) \in PathObject /\ NewPath(n, cn[n], cs) # None /\ NewPath(n, cn[n], cs).pc = "loop"
             /\ NewPath(n, cn[n], cs).name = n /\ NewPath(n, cn[n], cs).confName = cn[n]
             /\ NewPath(n, cn[n], cs).conf = cs[cn[n]] /\ NewPath(n, cn[n], cs).done = pmDone
  <2>1. n \in Names /\ cn[n] \in DOMAIN cs
    BY <1>3
  <2> QED
    BY <2>1, NewPathType
<1>4. ASSUME NEW n \in ns
      PROVE  /\ new[n] \in Paths
             /\ \A m \in Names : paths[m] # new[n]
             /\ \A x \in ConfNames : new[n] \notin byConf[x]
             /\ obj[new[n]] # None => obj[new[n]].pc = "ended"
  <2>1. new[n] \in Paths /\ Unused(new[n])
    BY <1>4
  <2>2. obj[new[n]] # None => obj[new[n]].name \in Names
    BY <2>1 DEF TypeOK, PathObject
  <2> QED
    BY <2>1, <2>2 DEF Unused, IndexesAgree, Is, Exists
<1>5. ASSUME NEW n \in Names, n \notin ns
      PROVE  paths'[n] # None => obj'[paths'[n]] = obj[paths[n]]
  BY <1>2, <1>4, <1>5 DEF TypeOK
<1>6. IndexesAgree'
  <2> SUFFICES ASSUME NEW pa \in Paths, NEW x \in ConfNames
               PROVE  pa \in byConf'[x] <=> obj'[pa] # None /\ obj'[pa].confName = x
                                              /\ paths'[obj'[pa].name] = pa
    BY DEF IndexesAgree, Exists
  <2>1. CASE \E n \in ns : new[n] = pa
    BY <1>2, <1>3, <1>4, <2>1
  <2>2. CASE ~ \E n \in ns : new[n] = pa
    <3>1. pa \in byConf'[x] <=> pa \in byConf[x]
      BY <1>2, <2>2
    <3>2. obj'[pa] = obj[pa]
      BY <1>2, <2>2
    <3>3. obj[pa] # None =>
            obj[pa].name \in Names /\ (paths'[obj[pa].name] = pa <=> paths[obj[pa].name] = pa)
      <4>1. obj[pa] # None => obj[pa].name \in Names
        BY DEF TypeOK, PathObject
      <4>2. \A n \in Names : paths'[n] = pa <=> paths[n] = pa
        BY <1>2, <2>2
      <4> QED
        BY <4>1, <4>2
    <3> QED
      BY <3>1, <3>2, <3>3 DEF IndexesAgree, Exists
  <2> QED
    BY <2>1, <2>2
<1>7. NamesAgree'
  BY <1>2, <1>3, <1>5 DEF NamesAgree, Exists
<1>8. ContextsFollow'
  <2> SUFFICES ASSUME NEW pa \in Paths, obj'[pa] # None
               PROVE  /\ obj'[pa].pc # "free"
                      /\ obj'[pa].pc \in {"cancelled", "ended"} => obj'[pa].done
                      /\ pmDone => obj'[pa].done
    BY DEF ContextsFollow, Exists
  <2>1. CASE \E n \in ns : new[n] = pa
    BY <1>2, <1>3, <2>1
  <2>2. CASE ~ \E n \in ns : new[n] = pa
    BY <1>2, <2>2 DEF ContextsFollow, Exists
  <2> QED
    BY <2>1, <2>2
<1>9. KnownOrAwaited'
  <2> SUFFICES ASSUME NEW pa \in Paths, Working(pa)' PROVE paths'[obj'[pa].name] = pa
    BY DEF KnownOrAwaited
  <2>1. CASE \E n \in ns : new[n] = pa
    BY <1>2, <1>3, <2>1
  <2>2. CASE ~ \E n \in ns : new[n] = pa
    <3>1. obj'[pa] = obj[pa] /\ Working(pa)
      BY <1>2, <2>2 DEF Working, Is, Exists
    <3>2. paths[obj[pa].name] = pa /\ obj[pa].name \in Names
      BY <3>1 DEF KnownOrAwaited, TypeOK, PathObject, Working, Is, Exists
    <3> QED
      BY <1>2, <3>1, <3>2
  <2> QED
    BY <2>1, <2>2
<1>10. NameIsFree'
  BY DEF NameIsFree
<1>11. IndexedAreOpen'
  BY <1>2, <1>3, <1>5 DEF IndexedAreOpen
<1>12. ConfsAgree'
  <2> SUFFICES ASSUME NEW n \in Names, paths'[n] # None
               PROVE  /\ obj'[paths'[n]].confName \in DOMAIN cs
                      /\ CanBeUpdated(cs[obj'[paths'[n]].confName], obj'[paths'[n]].conf)
    BY DEF ConfsAgree, CanBeUpdated
  <2>1. CASE n \in ns
    BY <1>2, <1>3, <2>1 DEF CanBeUpdated
  <2>2. CASE n \notin ns
    BY <1>2, <1>5, <2>2
  <2> QED
    BY <2>1, <2>2
<1> QED
  BY <1>6, <1>7, <1>8, <1>9, <1>10, <1>11, <1>12
-----------------------------------------------------------------------------
(* The manager's steps. *)
LEMMA RequestKeeps ==
  ASSUME ManagerInv, NEW c \in Clients, DoRequest(c)
  PROVE  ManagerInv'
<1> USE DEF ManagerInv
<1>1. PICK cn \in ConfsForPath(pathConfs, target[c]) :
        IF paths[target[c]] = None
          THEN \E pa \in {x \in Paths : Unused(x)} :
                 CreatePaths({target[c]}, [n \in {target[c]} |-> pa],
                             [n \in {target[c]} |-> cn], pathConfs)
          ELSE UNCHANGED <<paths, byConf, obj>>
  BY DEF DoRequest
<1>2. target[c] \in Names /\ pathConfs \in PathConfigs /\ cn \in DOMAIN pathConfs
  BY DEF TypeOK, ConfsForPath
<1>3. waitFor = None /\ UNCHANGED <<pathConfs, pm, pmDone, newConfs, waitFor, target>>
  BY DEF DoRequest, Asked, NameIsFree
<1>4. /\ todo' = [todo EXCEPT ![c] = {paths'[target[c]]}]
      /\ op' = [op EXCEPT ![c] = "callPath"]
  BY DEF DoRequest, Becomes
<1>5. CASE paths[target[c]] # None
  <2>1. UNCHANGED <<pmVars, obj>>
    BY <1>1, <1>3, <1>5 DEF pmVars
  <2>2. ClientTypes'
    BY <1>2, <1>3, <1>4, <1>5, <2>1 DEF TypeOK, ClientTypes, ClientStates, pmVars
  <2> QED
    BY <2>1, <2>2, ClientStep
<1>6. CASE paths[target[c]] = None
  <2>1. PICK pa \in Paths :
          /\ Unused(pa)
          /\ CreatePaths({target[c]}, [n \in {target[c]} |-> pa],
                         [n \in {target[c]} |-> cn], pathConfs)
    BY <1>1, <1>6
  <2> DEFINE ns == {target[c]}
             new == [n \in ns |-> pa]
             cns == [n \in ns |-> cn]
  <2>2. Creates(ns, new, cns, pathConfs)
    BY <1>2, <2>1 DEF Creates
  <2>3. /\ paths'[target[c]] = pa
        /\ paths' \in [Names -> Paths \cup {None}]
        /\ byConf' \in [ConfNames -> SUBSET Paths]
        /\ obj' \in [Paths -> PathObject \cup {None}]
    <3>1. TypeOK /\ target[c] \in ns /\ new[target[c]] = pa
      OBVIOUS
    <3> HIDE DEF ns, new, cns, ManagerInv
    <3> QED
      BY <2>2, <3>1, Created
  <2>4. TypeOK'
    BY <1>3, <1>4, <2>3 DEF TypeOK, ClientStates
  <2>5. \A n \in ns : Unused(new[n]) /\ paths[n] = None
    BY <1>6, <2>1
  <2>6. \A n \in Names : paths[n] # None =>
          /\ obj[paths[n]].confName \in DOMAIN pathConfs
          /\ CanBeUpdated(pathConfs[obj[paths[n]].confName], obj[paths[n]].conf)
    BY DEF ConfsAgree
  <2> HIDE DEF ns, new, cns
  <2> QED
    BY <1>3, <2>2, <2>4, <2>5, <2>6, CreateKeeps
<1> QED
  BY <1>5, <1>6

(* A reload closes a path and waits for it: its name is free from then on. *)
LEMMA ReloadClosesKeeps ==
  ASSUME ManagerInv, NEW pa \in Paths, ReloadClosesPath(pa)
  PROVE  ManagerInv'
<1> USE NoneIsNoPath DEF ManagerInv
<1>1. /\ pm = "reloading" /\ waitFor = None /\ RemovePath(pa)
      /\ obj' = [obj EXCEPT ![pa].done = TRUE]
      /\ waitFor' = pa
      /\ UNCHANGED <<pathConfs, pm, pmDone, newConfs, clientVars>>
  BY DEF ReloadClosesPath, Reloading
<1>2. Exists(pa) /\ paths[obj[pa].name] = pa
  BY DEF ReloadClosesPath, IndexesAgree
<1>3. obj[pa] \in PathObject
  BY <1>2 DEF TypeOK, Exists
<1>4. /\ obj' \in [Paths -> PathObject \cup {None}]
      /\ \A other \in Paths : other # pa => obj'[other] = obj[other]
      /\ obj'[pa] # None /\ obj'[pa].name = obj[pa].name
      /\ obj'[pa].confName = obj[pa].confName /\ obj'[pa].conf = obj[pa].conf
      /\ obj'[pa].pc = obj[pa].pc /\ obj'[pa].done
  <2>1. obj'[pa] = [obj[pa] EXCEPT !.done = TRUE]
    BY <1>1 DEF TypeOK
  <2>2. obj'[pa] \in PathObject
    BY <1>3, <2>1 DEF PathObject
  <2>3. \A other \in Paths : other # pa => obj'[other] = obj[other]
    BY <1>1 DEF TypeOK
  <2>4. obj' \in [Paths -> PathObject \cup {None}]
    BY <1>1, <2>2 DEF TypeOK
  <2> QED
    BY <1>3, <2>1, <2>2, <2>3, <2>4, NoneAssumption DEF PathObject
<1>5. /\ paths' \in [Names -> Paths \cup {None}]
      /\ byConf' \in [ConfNames -> SUBSET Paths]
      /\ \A n \in Names : paths'[n] = IF paths[n] = pa THEN None ELSE paths[n]
      /\ \A x \in ConfNames, other \in Paths :
           other \in byConf'[x] <=> other \in byConf[x] /\ other # pa
  BY <1>1, <1>2, ForgetsIndexes DEF Forgets
<1>6. TypeOK'
  BY <1>1, <1>4, <1>5 DEF TypeOK, clientVars
<1>7. IndexesAgree'
  <2> SUFFICES ASSUME NEW other \in Paths, NEW x \in ConfNames
               PROVE  other \in byConf'[x] <=>
                        obj'[other] # None /\ obj'[other].confName = x
                          /\ paths'[obj'[other].name] = other
    BY DEF IndexesAgree, Exists
  <2>1. other \in byConf[x] <=> obj[other] # None /\ obj[other].confName = x
                                  /\ paths[obj[other].name] = other
    BY DEF IndexesAgree, Exists
  <2>2. obj[other] # None => obj[other].name \in Names
    BY DEF TypeOK, PathObject
  <2>3. CASE other = pa
    BY <1>4, <1>5, <1>3, <2>2, <2>3 DEF PathObject
  <2>4. CASE other # pa
    BY <1>4, <1>5, <2>1, <2>2, <2>4
  <2> QED
    BY <2>3, <2>4
<1>8. NamesAgree'
  BY <1>4, <1>5 DEF NamesAgree, Exists, TypeOK
<1>9. ContextsFollow'
  <2> SUFFICES ASSUME NEW other \in Paths, obj'[other] # None
               PROVE  /\ obj'[other].pc # "free"
                      /\ obj'[other].pc \in {"cancelled", "ended"} => obj'[other].done
                      /\ pmDone' => obj'[other].done
    BY DEF ContextsFollow, Exists
  <2>1. obj[other] # None /\ obj'[other].pc = obj[other].pc
    BY <1>2, <1>4 DEF Exists
  <2>2. obj'[other].done \/ obj'[other] = obj[other]
    BY <1>4
  <2> QED
    BY <1>1, <2>1, <2>2 DEF ContextsFollow, Exists
<1>10. KnownOrAwaited'
  <2>1. \A other \in Paths : obj[other] # None => obj[other].name \in Names
    BY DEF TypeOK, PathObject
  <2> QED
    BY <1>1, <1>4, <1>5, <2>1 DEF KnownOrAwaited, Working, Is, Exists
<1>11. NameIsFree'
  BY <1>1, <1>2, <1>3, <1>4, <1>5 DEF NameIsFree, Exists, PathObject
<1>12. IndexedAreOpen'
  BY <1>1, <1>4, <1>5 DEF IndexedAreOpen, TypeOK
<1>13. ConfsAgree'
  BY <1>1, <1>4, <1>5 DEF ConfsAgree, TypeOK
<1> QED
  BY <1>6, <1>7, <1>8, <1>9, <1>10, <1>11, <1>12, <1>13

(* A reload ends: what is left agrees with the new configurations, and the names
   of these that have no path get one. *)
LEMMA ReloadEndsKeeps ==
  ASSUME ManagerInv, ReloadEnds
  PROVE  ManagerInv'
<1> USE DEF ManagerInv
<1> DEFINE missing == {n \in Names \cap DOMAIN newConfs : paths[n] = None}
<1>1. PICK new \in [missing -> {pa \in Paths : Unused(pa)}] :
        /\ \A m, n \in missing : new[m] = new[n] => m = n
        /\ CreatePaths(missing, new, [n \in missing |-> n], newConfs)
  BY DEF ReloadEnds
<1>2. /\ pm = "reloading" /\ waitFor = None /\ waitFor' = None
      /\ pathConfs' = newConfs /\ newConfs \in PathConfigs
      /\ pm' = "select" /\ UNCHANGED <<pmDone, newConfs, clientVars>>
  BY DEF ReloadEnds, Reloading, TypeOK
<1> DEFINE cns == [n \in missing |-> n]
<1>3. Creates(missing, new, cns, newConfs)
  BY <1>1, <1>2 DEF Creates
<1>4. \A n \in missing : Unused(new[n]) /\ paths[n] = None
  BY <1>1
<1>5. ASSUME NEW n \in Names, paths[n] # None
      PROVE  /\ obj[paths[n]].confName \in DOMAIN newConfs
             /\ CanBeUpdated(newConfs[obj[paths[n]].confName], obj[paths[n]].conf)
  <2> DEFINE cn == obj[paths[n]].confName
  <2>1. /\ paths[n] \in Paths /\ obj[paths[n]] # None /\ obj[paths[n]].name = n
        /\ cn \in ConfNames
    BY <1>5 DEF TypeOK, NamesAgree, Exists, PathObject
  <2>2. paths[n] \in byConf[cn]
    BY <2>1 DEF IndexesAgree, Exists
  <2>3. ~MustGo(cn)
    BY <2>1, <2>2 DEF ReloadEnds
  <2>4. cn \in DOMAIN pathConfs /\ CanBeUpdated(pathConfs[cn], obj[paths[n]].conf)
    BY <1>5 DEF ConfsAgree
  <2> QED
    BY <2>3, <2>4 DEF MustGo, CanBeUpdated
<1> HIDE DEF missing, cns
<1>6. /\ paths' \in [Names -> Paths \cup {None}]
      /\ byConf' \in [ConfNames -> SUBSET Paths]
      /\ obj' \in [Paths -> PathObject \cup {None}]
  <2>1. TypeOK
    OBVIOUS
  <2> HIDE DEF ManagerInv
  <2> QED
    BY <1>3, <2>1, Created
<1>7. TypeOK'
  BY <1>2, <1>6 DEF TypeOK, clientVars
<1> QED
  BY <1>2, <1>3, <1>4, <1>5, <1>7, CreateKeeps

LEMMA ReloadStepsKeep ==
  ASSUME ManagerInv, Reload \/ ReloadWaited \/ ManagerEnds
  PROVE  ManagerInv'
<1> USE DEF ManagerInv
<1>1. /\ UNCHANGED <<pathConfs, paths, byConf, pmDone, obj, clientVars>>
      /\ newConfs' \in PathConfigs /\ pm' \in {"select", "reloading", "ended"}
      /\ waitFor' \in {waitFor, None}
      /\ waitFor' = waitFor /\ waitFor # None => pm' = "reloading"
  BY DEF Reload, ReloadWaited, ManagerEnds, TypeOK, NameIsFree
<1>2. TypeOK'
  BY <1>1 DEF TypeOK, clientVars
<1>3. IndexesAgree' /\ NamesAgree' /\ ContextsFollow' /\ IndexedAreOpen' /\ ConfsAgree'
  BY <1>1 DEF IndexesAgree, NamesAgree, ContextsFollow, IndexedAreOpen, ConfsAgree,
              Exists, CanBeUpdated
<1>4. KnownOrAwaited'
  <2>1. waitFor' # waitFor => Is(waitFor, "ended")
    BY DEF Reload, ReloadWaited, ManagerEnds
  <2> QED
    BY <1>1, <2>1 DEF KnownOrAwaited, Working, Is, Exists
<1>5. NameIsFree'
  BY <1>1 DEF NameIsFree, Exists
<1> QED
  BY <1>2, <1>3, <1>4, <1>5

(* The manager is closed, and with its context those of all paths. *)
LEMMA CloseAllKeeps ==
  ASSUME ManagerInv, Close
  PROVE  ManagerInv'
<1> USE DEF ManagerInv, Close
<1>1. ASSUME NEW pa \in Paths
      PROVE  /\ obj[pa] = None => obj'[pa] = None
             /\ obj[pa] # None =>
                  /\ obj'[pa] # None /\ obj'[pa] \in PathObject /\ obj'[pa].done
                  /\ obj'[pa].name = obj[pa].name
                  /\ obj'[pa].confName = obj[pa].confName
                  /\ obj'[pa].conf = obj[pa].conf /\ obj'[pa].pc = obj[pa].pc
  <2>1. obj[pa] = None => obj'[pa] = None
    BY DEF Exists
  <2>2. ASSUME obj[pa] # None
        PROVE  obj[pa] \in PathObject /\ obj'[pa] = [obj[pa] EXCEPT !.done = TRUE]
    BY <1>1, <2>2 DEF Exists, TypeOK
  <2>3. ASSUME obj[pa] # None PROVE obj'[pa] \in PathObject
    BY <2>2, <2>3 DEF PathObject
  <2>4. ASSUME obj[pa] # None
        PROVE  /\ obj'[pa].done
               /\ obj'[pa].name = obj[pa].name
               /\ obj'[pa].confName = obj[pa].confName
               /\ obj'[pa].conf = obj[pa].conf /\ obj'[pa].pc = obj[pa].pc
    BY <2>2, <2>4 DEF PathObject
  <2> QED
    BY <2>1, <2>3, <2>4, NoneAssumption
<1>2. UNCHANGED <<pathConfs, paths, byConf, pm, newConfs, waitFor, clientVars>> /\ pmDone'
  OBVIOUS
<1>3. obj' \in [Paths -> PathObject \cup {None}]
  <2>1. obj' = [pa \in Paths |-> obj'[pa]]
    OBVIOUS
  <2> QED
    BY <1>1, <2>1
<1> HIDE DEF Close
<1>4. TypeOK'
  BY <1>2, <1>3 DEF TypeOK, clientVars
<1>5. IndexesAgree'
  BY <1>1, <1>2 DEF IndexesAgree, Exists
<1>6. NamesAgree'
  BY <1>1, <1>2, NoneIsNoPath DEF NamesAgree, Exists, TypeOK
<1>7. ContextsFollow'
  BY <1>1, <1>2 DEF ContextsFollow, Exists
<1>8. KnownOrAwaited'
  BY <1>1, <1>2 DEF KnownOrAwaited, Working, Is, Exists
<1>9. NameIsFree'
  BY <1>1, <1>2 DEF NameIsFree, Exists, TypeOK
<1>10. IndexedAreOpen'
  BY <1>2 DEF IndexedAreOpen
<1>11. ConfsAgree'
  BY <1>1, <1>2 DEF ConfsAgree, NamesAgree, Exists, TypeOK
<1> QED
  BY <1>4, <1>5, <1>6, <1>7, <1>8, <1>9, <1>10, <1>11
-----------------------------------------------------------------------------
(* The paths of a new manager: one for each configuration with a name. *)
LEMMA ManagerInit == Init => ManagerInv
<1> SUFFICES ASSUME Init PROVE ManagerInv
  OBVIOUS
<1> USE NoneIsNoPath
<1> DEFINE ns == Names \cap DOMAIN pathConfs
           made(n) == [pc |-> "loop", name |-> n, confName |-> n, conf |-> pathConfs[n],
                       done |-> FALSE, users |-> {}]
<1>1. PICK new \in [ns -> Paths] :
        /\ \A m, n \in DOMAIN new : new[m] = new[n] => m = n
        /\ paths = [n \in Names |-> IF n \in DOMAIN new THEN new[n] ELSE None]
        /\ byConf = [cn \in ConfNames |-> IF cn \in DOMAIN new THEN {new[cn]} ELSE {}]
        /\ obj = [pa \in Paths |->
                    IF \E n \in DOMAIN new : new[n] = pa
                      THEN made(CHOOSE m \in DOMAIN new : new[m] = pa)
                      ELSE None]
  BY DEF Init
<1>2. DOMAIN new = ns
  OBVIOUS
<1>3. /\ pathConfs \in PathConfigs /\ newConfs = pathConfs
      /\ pm = "select" /\ pmDone = FALSE /\ waitFor = None
      /\ op = [c \in Clients |-> "idle"] /\ target \in [Clients -> Names]
      /\ todo = [c \in Clients |-> {}]
  BY DEF Init
<1>4. ASSUME NEW n \in ns
      PROVE  /\ made(n) \in PathObject /\ made(n) # None
             /\ n \in Names /\ n \in ConfNames /\ n \in DOMAIN pathConfs
  <2>1. n \in Names /\ n \in ConfNames /\ n \in DOMAIN pathConfs
    BY DEF ConfNames
  <2>2. made(n) \in PathObject
    BY <1>3, <2>1, ConfsType DEF PathObject
  <2> QED
    BY <2>1, <2>2, NoneAssumption
<1>5. ASSUME NEW n \in ns
      PROVE  new[n] \in Paths /\ paths[n] = new[n] /\ obj[new[n]] = made(n)
  <2>1. \E m \in DOMAIN new : new[m] = new[n]
    BY <1>2, <1>5
  <2>2. (CHOOSE m \in DOMAIN new : new[m] = new[n]) = n
    BY <1>1, <1>2, <1>5, <2>1
  <2>3. new[n] \in Paths /\ n \in Names
    BY <1>5
  <2>4. obj[new[n]] = made(CHOOSE m \in DOMAIN new : new[m] = new[n])
    BY <1>1, <2>1, <2>3
  <2>5. obj[new[n]] = made(n)
    BY <2>2, <2>4
  <2> QED
    BY <1>1, <1>2, <1>5, <2>3, <2>5
<1>6. ASSUME NEW pa \in Paths, \A n \in ns : new[n] # pa PROVE obj[pa] = None
  BY <1>1, <1>2, <1>6
<1>7. ASSUME NEW n \in Names, n \notin ns PROVE paths[n] = None
  BY <1>1, <1>2, <1>7
<1>8. \A cn \in ConfNames : byConf[cn] = IF cn \in ns THEN {new[cn]} ELSE {}
  BY <1>1, <1>2
<1>9. TypeOK
  <2>1. paths \in [Names -> Paths \cup {None}]
    BY <1>1, <1>2
  <2>2. byConf \in [ConfNames -> SUBSET Paths]
    BY <1>1, <1>2
  <2>3. \A pa \in Paths : obj[pa] \in PathObject \cup {None}
    <3> SUFFICES ASSUME NEW pa \in Paths PROVE obj[pa] \in PathObject \cup {None}
      OBVIOUS
    <3>1. CASE \E n \in ns : new[n] = pa
      BY <1>4, <1>5, <3>1
    <3>2. CASE ~ \E n \in ns : new[n] = pa
      BY <1>6, <3>2
    <3> QED
      BY <3>1, <3>2
  <2>4. obj \in [Paths -> PathObject \cup {None}]
    BY <1>1, <2>3
  <2> QED
    BY <1>3, <2>1, <2>2, <2>4 DEF TypeOK, ClientStates
<1>10. ASSUME NEW n \in ns
       PROVE  /\ obj[new[n]] # None /\ obj[new[n]].name = n
              /\ obj[new[n]].confName = n /\ obj[new[n]].conf = pathConfs[n]
              /\ obj[new[n]].pc = "loop" /\ ~obj[new[n]].done
  <2>1. obj[new[n]] = made(n) /\ made(n) # None
    BY <1>4, <1>5, <1>10
  <2>2. /\ made(n).name = n /\ made(n).confName = n /\ made(n).conf = pathConfs[n]
        /\ made(n).pc = "loop" /\ ~made(n).done
    OBVIOUS
  <2> HIDE DEF made
  <2> QED
    BY <2>1, <2>2
<1> HIDE DEF ns
<1>11. IndexesAgree
  <2> SUFFICES ASSUME NEW pa \in Paths, NEW cn \in ConfNames
               PROVE  pa \in byConf[cn] <=> obj[pa] # None /\ obj[pa].confName = cn
                                              /\ paths[obj[pa].name] = pa
    BY DEF IndexesAgree, Exists
  <2>1. CASE \E n \in ns : new[n] = pa
    <3>1. PICK n \in ns : new[n] = pa
      BY <2>1
    <3>2. obj[pa] # None /\ obj[pa].confName = n /\ paths[obj[pa].name] = pa
      BY <1>5, <1>10, <3>1
    <3>3. pa \in byConf[cn] <=> cn \in ns /\ new[cn] = pa
      BY <1>8
    <3>4. cn \in ns /\ new[cn] = pa <=> cn = n
      BY <1>1, <1>2, <3>1
    <3> QED
      BY <3>2, <3>3, <3>4
  <2>2. CASE ~ \E n \in ns : new[n] = pa
    BY <1>6, <1>8, <2>2
  <2> QED
    BY <2>1, <2>2
<1>12. NamesAgree /\ IndexedAreOpen /\ ConfsAgree
  <2>1. \A n \in Names : paths[n] # None => n \in ns /\ paths[n] = new[n]
    BY <1>5, <1>7
  <2>2. \A n \in ns : n \in DOMAIN pathConfs
    BY <1>4
  <2> QED
    BY <1>10, <2>1, <2>2 DEF NamesAgree, IndexedAreOpen, ConfsAgree, Exists, CanBeUpdated
<1>13. ContextsFollow /\ KnownOrAwaited
  <2>1. \A pa \in Paths : obj[pa] # None => \E n \in ns : new[n] = pa
    BY <1>6
  <2>2. ASSUME NEW pa \in Paths, obj[pa] # None
        PROVE  obj[pa].pc = "loop" /\ paths[obj[pa].name] = pa
    <3>1. PICK n \in ns : new[n] = pa
      BY <2>1, <2>2
    <3> QED
      BY <1>5, <1>10, <3>1
  <2> QED
    BY <1>3, <2>2 DEF ContextsFollow, KnownOrAwaited, Working, Is, Exists
<1>14. NameIsFree
  BY <1>3 DEF NameIsFree
<1> QED
  BY <1>9, <1>11, <1>12, <1>13, <1>14 DEF ManagerInv

LEMMA ManagerStepKeeps == ManagerInv /\ [Next]_vars => ManagerInv'
<1> SUFFICES ASSUME ManagerInv, [Next]_vars PROVE ManagerInv'
  OBVIOUS
<1>1. CASE UNCHANGED vars
  <2>1. ClientTypes'
    BY <1>1 DEF vars, clientVars, ManagerInv, TypeOK, ClientTypes
  <2> QED
    BY <1>1, <2>1, ClientStep DEF vars
<1>2. CASE Reload \/ Close \/ ManagerStep
  BY <1>2, ReloadStepsKeep, ReloadEndsKeeps, ReloadClosesKeeps, CloseAllKeeps
     DEF ManagerStep
<1>3. ASSUME NEW c \in Clients,
             Ask(c) \/ Quit(c) \/ ManagerServes(c) \/ ClientGivesUp(c)
      PROVE  ManagerInv'
  BY <1>3, ClientKeeps, RequestKeeps, CallKeeps, QuitKeeps DEF ManagerServes, ClientGivesUp
<1>4. ASSUME NEW c \in Clients, NEW pa \in Paths, PathServes(c, pa) PROVE ManagerInv'
  BY <1>4, CallKeeps
<1>5. ASSUME NEW pa \in Paths, PathNotifies(pa) \/ PathStep(pa) PROVE ManagerInv'
  BY <1>5, PathGoesKeeps, CloseKeeps DEF PathStep
<1> QED
  BY <1>1, <1>2, <1>3, <1>4, <1>5 DEF Next

(* Whatever the clients, the paths and the reloads do, the manager, its indexes and
   its paths are as ManagerInv says. *)
THEOREM ManagerInductive == Spec => []ManagerInv
BY ManagerInit, ManagerStepKeeps, PTL DEF Spec

(* The two indexes tell the same story as the paths: a path is listed for its
   configuration exactly while its name leads to it. *)
THEOREM IndexesCorrect == Spec => []IndexesAgree
<1>1. ManagerInv => IndexesAgree
  BY DEF ManagerInv
<1> QED
  BY <1>1, ManagerInductive, PTL

(* Two paths of the same name never work at the same time, for a reload waits for
   the one it closes while nobody takes its name. *)
THEOREM OneWorks == Spec => []OneWorkingPath
<1>1. ManagerInv => OneWorkingPath
  <2> SUFFICES ASSUME ManagerInv, NEW a \in Paths, NEW b \in Paths,
                      Working(a), Working(b), obj[a].name = obj[b].name
               PROVE  a = b
    BY DEF OneWorkingPath
  <2>1. paths[obj[a].name] = a \/ waitFor = a
    BY DEF ManagerInv, KnownOrAwaited
  <2>2. paths[obj[b].name] = b \/ waitFor = b
    BY DEF ManagerInv, KnownOrAwaited
  <2>3. waitFor \in {a, b} => paths[obj[a].name] = None
    BY NoneIsNoPath DEF ManagerInv, NameIsFree
  <2> QED
    BY <2>1, <2>2, <2>3, NoneIsNoPath
<1> QED
  BY <1>1, ManagerInductive, PTL

(* A path that works and was not told to close is found under its name, and the
   manager hands out none that is past closePath. *)
THEOREM WorkingAreFound == Spec => []PathsAreFound
<1>1. ManagerInv => PathsAreFound
  <2> SUFFICES ASSUME ManagerInv PROVE PathsAreFound
    OBVIOUS
  <2>1. ASSUME NEW pa \in Paths, Working(pa), ~obj[pa].done PROVE paths[obj[pa].name] = pa
    BY <2>1, NoneIsNoPath DEF ManagerInv, KnownOrAwaited, NameIsFree
  <2>2. ASSUME NEW n \in Names, paths[n] # None, ~pmDone
        PROVE  Working(paths[n]) \/ Is(paths[n], "leaving")
    <3>1. paths[n] \in Paths /\ obj[paths[n]] \in PathObject /\ obj[paths[n]] # None
      BY <2>2 DEF ManagerInv, TypeOK, NamesAgree, Exists
    <3>2. obj[paths[n]].pc \notin {"free", "cancelled", "ended"}
      BY <2>2, <3>1 DEF ManagerInv, ContextsFollow, IndexedAreOpen, Exists
    <3> QED
      BY <3>1, <3>2 DEF PathObject, Working, Is, Exists
  <2> QED
    BY <2>1, <2>2 DEF PathsAreFound
<1> QED
  BY <1>1, ManagerInductive, PTL

(* No reload leaves a path whose configuration was deleted, or changed in a way
   that needs a new path. *)
THEOREM NoneIsOutdated == Spec => []PathsAreRecreated
<1>1. ManagerInv => PathsAreRecreated
  BY DEF ManagerInv, ConfsAgree, PathsAreRecreated
<1> QED
  BY <1>1, ManagerInductive, PTL
=============================================================================
