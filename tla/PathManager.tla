---------------------------- MODULE PathManager -----------------------------
(***************************************************************************)
(* The path manager (core/path_manager.go): a goroutine that knows the path*)
(* of every name, creates paths for the requests that need them, and closes*)
(* and recreates them when the configuration changes. A client asks the    *)
(* manager for a path and then calls the path itself, which may have gone  *)
(* by then; a path tells the manager that it became ready, not ready or    *)
(* unused, while the manager may be waiting for that very path to end.     *)
(*                                                                         *)
(* The inside of a path is the subject of module Path. Here it is what the *)
(* manager sees: who keeps it in use, its context, and where its goroutine *)
(* is.                                                                     *)
(***************************************************************************)
EXTENDS FiniteSets, Naturals

CONSTANTS
  Names,        \* names of streams; a configuration may have the same name
  Patterns,     \* names of configurations with a regular expression
  PathConfigs,  \* the sets of path configurations a (re)load may bring
  Paths,        \* path objects
  Clients,
  None

ConfNames == Names \cup Patterns

(* A path configuration, as far as a reload tells two of them apart: a change
   of the hard part needs a new path. A pattern matches every name. *)
PathConf == [hard : Nat, soft : Nat]

ASSUME NamesAssumption ==
  /\ Names \cap Patterns = {}
  /\ None \notin Names \cup Paths \cup Clients
  /\ \A cs \in PathConfigs :
       DOMAIN cs \subseteq ConfNames /\ \A cn \in DOMAIN cs : cs[cn] \in PathConf

VARIABLES
  pathConfs,  \* pm.pathConfs
  paths,      \* pm.paths
  byConf,     \* pm.pathsByConf
  pm,         \* where the manager's goroutine is
  pmDone,     \* pm.ctx is done
  newConfs,   \* the configurations of the reload under way
  waitFor,    \* the path whose end the reload waits for
  obj,        \* the path objects
  op,         \* what a client is doing
  target,     \* the name it asked for
  todo        \* the paths it has got from the manager and not yet called

pmVars     == <<pathConfs, paths, byConf, pm, pmDone, newConfs, waitFor>>
clientVars == <<op, target, todo>>
vars       == <<pmVars, obj, clientVars>>

PathObject ==
  [pc       : {"free", "loop", "notifying", "leaving", "cancelled", "ended"},
   name     : Names,
   confName : ConfNames,
   conf     : UNION {{cs[cn] : cn \in DOMAIN cs} : cs \in PathConfigs},
   done     : BOOLEAN,         \* pa.ctx is done
   users    : SUBSET Clients]  \* its publisher, its readers, requests on hold

ASSUME NoneAssumption == None \notin PathObject

(* A client that wants to describe, read or publish asks for a path; the API
   asks for information. Both then call the paths they were given. *)
ClientStates == {"idle", "askPath", "askInfo", "callPath", "callInfo", "joined",
                 "quitting"}

(* The values of the manager's fields and of what a client was handed: a path,
   never nil. *)
TypeOK ==
  /\ pathConfs \in PathConfigs
  /\ newConfs \in PathConfigs
  /\ paths \in [Names -> Paths \cup {None}]
  /\ byConf \in [ConfNames -> SUBSET Paths]
  /\ pm \in {"select", "reloading", "ended"}
  /\ pmDone \in BOOLEAN
  /\ waitFor \in Paths \cup {None}
  /\ obj \in [Paths -> PathObject \cup {None}]
  /\ op \in [Clients -> ClientStates]
  /\ target \in [Clients -> Names]
  /\ todo \in [Clients -> SUBSET Paths]
-----------------------------------------------------------------------------
(* getConfForPath: the configuration of that name, or any pattern. *)
ConfsForPath(cs, n) ==
  IF n \in DOMAIN cs THEN {n} ELSE DOMAIN cs \cap Patterns

Exists(pa) == obj[pa] # None
Is(pa, pc) == Exists(pa) /\ obj[pa].pc = pc

(* Nobody has a reference any more to an object that is unused. *)
Unused(pa) ==
  /\ ~Exists(pa) \/ Is(pa, "ended")
  /\ \A n \in Names : paths[n] # pa
  /\ \A c \in Clients : pa \notin todo[c]
  /\ waitFor # pa

(* newPath, whose context is a child of the manager's. *)
NewPath(n, cn, cs) ==
  [pc |-> "loop", name |-> n, confName |-> cn, conf |-> cs[cn],
   done |-> pmDone, users |-> {}]

(* createPath of the names in ns, the object of each being new[n]. *)
CreatePaths(ns, new, cn, cs) ==
  /\ paths' = [n \in Names |-> IF n \in ns THEN new[n] ELSE paths[n]]
  /\ byConf' = [x \in ConfNames |->
                  byConf[x] \cup {new[n] : n \in {m \in ns : cn[m] = x}}]
  /\ obj' = [pa \in Paths |->
               IF \E n \in ns : new[n] = pa
                 THEN LET n == CHOOSE m \in ns : new[m] = pa
                      IN NewPath(n, cn[n], cs)
                 ELSE obj[pa]]

(* Mutants: removePath forgets one of the indexes. *)
RemoveFromPaths(pa) ==
  paths' = [paths EXCEPT ![obj[pa].name] = None] /\ UNCHANGED byConf
RemoveFromByConf(pa) ==
  byConf' = [byConf EXCEPT ![obj[pa].confName] = @ \ {pa}] /\ UNCHANGED paths

(* removePath *)
RemovePath(pa) ==
  /\ paths' = [paths EXCEPT ![obj[pa].name] = None]
  /\ byConf' = [byConf EXCEPT ![obj[pa].confName] = @ \ {pa}]

(* newPathManager creates the paths that no pattern stands for. *)
Init ==
  /\ pathConfs \in PathConfigs
  /\ newConfs = pathConfs
  /\ \E new \in [Names \cap DOMAIN pathConfs -> Paths] :
       /\ \A m, n \in DOMAIN new : new[m] = new[n] => m = n
       /\ paths = [n \in Names |-> IF n \in DOMAIN new THEN new[n] ELSE None]
       /\ byConf = [cn \in ConfNames |->
                      IF cn \in DOMAIN new THEN {new[cn]} ELSE {}]
       /\ obj = [pa \in Paths |->
                   IF \E n \in DOMAIN new : new[n] = pa
                     THEN LET n == CHOOSE m \in DOMAIN new : new[m] = pa
                          IN [pc |-> "loop", name |-> n, confName |-> n,
                              conf |-> pathConfs[n], done |-> FALSE,
                              users |-> {}]
                     ELSE None]
  /\ pm = "select"
  /\ pmDone = FALSE
  /\ waitFor = None
  /\ op = [c \in Clients |-> "idle"]
  /\ target \in [Clients -> Names]
  /\ todo = [c \in Clients |-> {}]
-----------------------------------------------------------------------------
(* Clients and the manager. Once a context is done both sides of a channel
   that select on it stop waiting: no request is taken any more. *)

Becomes(c, state) == op' = [op EXCEPT ![c] = state]

Ask(c) ==
  /\ op[c] = "idle"
  /\ \E call \in {"askPath", "askInfo"} : Becomes(c, call)
  /\ \E n \in Names : target' = [target EXCEPT ![c] = n]
  /\ UNCHANGED <<pmVars, obj, todo>>

Asked(c, call) == pm = "select" /\ ~pmDone /\ op[c] = call

(* doDescribe, doAddReader and doAddPublisher create the path they need. *)
DoRequest(c) ==
  /\ Asked(c, "askPath")
  /\ \E cn \in ConfsForPath(pathConfs, target[c]) :
       IF paths[target[c]] = None
         THEN \E pa \in {x \in Paths : Unused(x)} :
                CreatePaths({target[c]}, [n \in {target[c]} |-> pa],
                            [n \in {target[c]} |-> cn], pathConfs)
         ELSE UNCHANGED <<paths, byConf, obj>>
  /\ todo' = [todo EXCEPT ![c] = {paths'[target[c]]}]
  /\ Becomes(c, "callPath")
  /\ UNCHANGED <<pathConfs, pm, pmDone, newConfs, waitFor, target>>

(* No configuration, or doAuthentication refused. *)
RefuseRequest(c) ==
  /\ Asked(c, "askPath")
  /\ Becomes(c, "idle")
  /\ UNCHANGED <<pmVars, obj, target, todo>>

(* The paths of some names, if they exist. *)
Found(names) == {paths[n] : n \in names} \ {None}

(* doAPIPathsGet and doAPIPathsList hand out what is there. *)
DoAPIRequest(c) ==
  /\ Asked(c, "askInfo")
  /\ \E names \in {{target[c]}, Names} :
       /\ todo' = [todo EXCEPT ![c] = Found(names)]
       /\ Becomes(c, IF Found(names) = {} THEN "idle" ELSE "callInfo")
  /\ UNCHANGED <<pmVars, obj, target>>

AskTerminated(c) ==
  /\ pmDone /\ op[c] \in {"askPath", "askInfo"}
  /\ Becomes(c, "idle")
  /\ UNCHANGED <<pmVars, obj, target, todo>>
-----------------------------------------------------------------------------
(* Clients and a path. *)

Takes(pa) == Is(pa, "loop") /\ ~obj[pa].done

(* The new users of pa; a path that a pattern stands for leaves when unused. *)
SetUsers(pa, users) ==
  obj' = [obj EXCEPT
            ![pa].users = users,
            ![pa].pc = IF users = {} /\ obj[pa].confName \in Patterns
                         THEN "leaving" ELSE @]

Returned(c, pa, state) ==
  /\ todo' = [todo EXCEPT ![c] = @ \ {pa}]
  /\ Becomes(c, IF todo[c] = {pa} THEN state ELSE op[c])

(* The path admits the client, or serves it otherwise or turns it away. *)
PathTakesRequest(c, pa) ==
  /\ op[c] = "callPath" /\ pa \in todo[c] /\ Takes(pa)
  /\ \/ SetUsers(pa, obj[pa].users \cup {c}) /\ Returned(c, pa, "joined")
     \/ SetUsers(pa, obj[pa].users) /\ Returned(c, pa, "idle")
  /\ UNCHANGED <<pmVars, target>>

PathTakesAPIRequest(c, pa) ==
  /\ op[c] = "callInfo" /\ pa \in todo[c] /\ Takes(pa)
  /\ Returned(c, pa, "idle")
  /\ UNCHANGED <<pmVars, obj, target>>

CallTerminated(c, pa) ==
  /\ pa \in todo[c] /\ obj[pa].done
  /\ Returned(c, pa, "idle")
  /\ UNCHANGED <<pmVars, obj, target>>

Quit(c) ==
  /\ op[c] = "joined"
  /\ Becomes(c, "quitting")
  /\ UNCHANGED <<pmVars, obj, target, todo>>

(* The publisher that leaves takes the readers with it. *)
PathTakesQuit(c, pa) ==
  /\ op[c] = "quitting" /\ Takes(pa) /\ c \in obj[pa].users
  /\ \E left \in SUBSET (obj[pa].users \ {c}) : SetUsers(pa, left)
  /\ Becomes(c, "idle")
  /\ UNCHANGED <<pmVars, target, todo>>

(* The path dropped it before, or its context is done. *)
QuitUnknown(c) ==
  /\ op[c] = "quitting"
  /\ \A pa \in Paths : Exists(pa) /\ c \in obj[pa].users => obj[pa].done
  /\ Becomes(c, "idle")
  /\ obj' = [pa \in Paths |-> IF Exists(pa)
                                THEN [obj[pa] EXCEPT !.users = @ \ {c}]
                                ELSE None]
  /\ UNCHANGED <<pmVars, target, todo>>
-----------------------------------------------------------------------------
(* A path and the manager. *)

Goes(pa, pc) == obj' = [obj EXCEPT ![pa].pc = pc]

(* pathReady or pathNotReady, while a handler of the path runs. *)
PathNotifies(pa) ==
  /\ Takes(pa)
  /\ obj[pa].users # {} \/ obj[pa].confName \in Names
  /\ Goes(pa, "notifying")
  /\ UNCHANGED <<pmVars, clientVars>>

(* Mutant: the path does not look at its own context. *)
HeardByManager(pa) == pm = "select" \/ pmDone

(* The manager takes the call, or the context of either is done. *)
Heard(pa) == pm = "select" \/ pmDone \/ obj[pa].done

PathNotified(pa) ==
  /\ Is(pa, "notifying") /\ Heard(pa)
  /\ Goes(pa, "loop")
  /\ UNCHANGED <<pmVars, clientVars>>

PathLeaves(pa) ==
  /\ Is(pa, "loop") /\ obj[pa].done
  /\ Goes(pa, "leaving")
  /\ UNCHANGED <<pmVars, clientVars>>

(* Mutant: ctxCancel is forgotten. *)
Uncancelled(pa) == obj' = [obj EXCEPT ![pa].pc = "cancelled"]

Cancelled(pa) == obj' = [obj EXCEPT ![pa].pc = "cancelled", ![pa].done = TRUE]

(* closePath taken by the manager: doClosePath. *)
DoClosePath(pa) ==
  /\ Is(pa, "leaving") /\ pm = "select" /\ ~pmDone /\ ~obj[pa].done
  /\ IF paths[obj[pa].name] = pa
       THEN RemovePath(pa) ELSE UNCHANGED <<paths, byConf>>
  /\ Cancelled(pa)
  /\ UNCHANGED <<pathConfs, pm, pmDone, newConfs, waitFor, clientVars>>

(* closePath given up, "in case pathManager is blocked by path.wait()". *)
ClosePathUnheard(pa) ==
  /\ Is(pa, "leaving") /\ (pmDone \/ obj[pa].done)
  /\ Cancelled(pa)
  /\ UNCHANGED <<pmVars, clientVars>>

PathEnds(pa) ==
  /\ Is(pa, "cancelled")
  /\ Goes(pa, "ended")
  /\ UNCHANGED <<pmVars, clientVars>>
-----------------------------------------------------------------------------
(* doReloadConf *)

Reload ==
  /\ pm = "select" /\ ~pmDone
  /\ newConfs' \in PathConfigs \ {pathConfs}
  /\ pm' = "reloading"
  /\ UNCHANGED <<pathConfs, paths, byConf, pmDone, waitFor, obj, clientVars>>

(* pathConfCanBeUpdated: only the soft part differs. *)
CanBeUpdated(old, new) == new.hard = old.hard

(* Mutant: a changed configuration is not looked at. *)
MustGoDeleted(cn) == cn \in DOMAIN pathConfs /\ cn \notin DOMAIN newConfs

MustGo(cn) ==
  /\ cn \in DOMAIN pathConfs
  /\ cn \in DOMAIN newConfs => ~CanBeUpdated(pathConfs[cn], newConfs[cn])

Reloading == pm = "reloading" /\ waitFor = None

(* removePath, pa.close(), and pa.wait() begins. *)
ReloadClosesPath(pa) ==
  /\ Reloading
  /\ \E cn \in ConfNames : MustGo(cn) /\ pa \in byConf[cn]
  /\ RemovePath(pa)
  /\ obj' = [obj EXCEPT ![pa].done = TRUE]
  /\ waitFor' = pa
  /\ UNCHANGED <<pathConfs, pm, pmDone, newConfs, clientVars>>

(* Mutant: pa.close() without pa.wait(). *)
ReloadGoesOn ==
  /\ pm = "reloading" /\ waitFor # None
  /\ waitFor' = None
  /\ UNCHANGED <<pathConfs, paths, byConf, pm, pmDone, newConfs, obj, clientVars>>

ReloadWaited ==
  /\ pm = "reloading" /\ waitFor # None
  /\ Is(waitFor, "ended")
  /\ waitFor' = None
  /\ UNCHANGED <<pathConfs, paths, byConf, pm, pmDone, newConfs, obj, clientVars>>

ReloadEnds ==
  /\ Reloading
  /\ \A cn \in ConfNames : MustGo(cn) => byConf[cn] = {}
  /\ pathConfs' = newConfs
  /\ LET missing == {n \in Names \cap DOMAIN newConfs : paths[n] = None}
     IN \E new \in [missing -> {pa \in Paths : Unused(pa)}] :
          /\ \A m, n \in missing : new[m] = new[n] => m = n
          /\ CreatePaths(missing, new, [n \in missing |-> n], newConfs)
  /\ pm' = "select"
  /\ UNCHANGED <<pmDone, newConfs, waitFor, clientVars>>

(* Mutant: the paths' contexts are not children of the manager's. *)
CloseAlone ==
  /\ ~pmDone
  /\ pmDone' = TRUE
  /\ UNCHANGED <<pathConfs, paths, byConf, pm, newConfs, waitFor, obj, clientVars>>

(* pathManager.close: the contexts of the paths are children of its own. *)
Close ==
  /\ ~pmDone
  /\ pmDone' = TRUE
  /\ obj' = [pa \in Paths |-> IF Exists(pa) THEN [obj[pa] EXCEPT !.done = TRUE]
                                            ELSE None]
  /\ UNCHANGED <<pathConfs, paths, byConf, pm, newConfs, waitFor, clientVars>>

ManagerEnds ==
  /\ pm = "select" /\ pmDone
  /\ pm' = "ended"
  /\ UNCHANGED <<pathConfs, paths, byConf, pmDone, newConfs, waitFor, obj,
                 clientVars>>
-----------------------------------------------------------------------------
ManagerStep ==
  \/ ReloadWaited
  \/ ReloadEnds
  \/ ManagerEnds
  \/ \E pa \in Paths : ReloadClosesPath(pa)

ManagerServes(c) == DoRequest(c) \/ RefuseRequest(c) \/ DoAPIRequest(c)

PathServes(c, pa) ==
  \/ PathTakesRequest(c, pa)
  \/ PathTakesAPIRequest(c, pa)
  \/ PathTakesQuit(c, pa)

ClientGivesUp(c) ==
  \/ AskTerminated(c)
  \/ QuitUnknown(c)
  \/ \E pa \in Paths : CallTerminated(c, pa)

PathStep(pa) ==
  \/ PathNotified(pa)
  \/ PathLeaves(pa)
  \/ DoClosePath(pa)
  \/ ClosePathUnheard(pa)
  \/ PathEnds(pa)

Next ==
  \/ Reload
  \/ Close
  \/ ManagerStep
  \/ \E c \in Clients : Ask(c) \/ Quit(c) \/ ManagerServes(c) \/ ClientGivesUp(c)
  \/ \E c \in Clients, pa \in Paths : PathServes(c, pa)
  \/ \E pa \in Paths : PathNotifies(pa) \/ PathStep(pa)

(* The goroutines run, and their selects serve everybody in the end: whoever
   is ready again and again is served, although others may be served before. *)
Fairness ==
  /\ WF_vars(ManagerStep)
  /\ \A c \in Clients : SF_vars(ManagerServes(c)) /\ WF_vars(ClientGivesUp(c))
  /\ \A c \in Clients, pa \in Paths : SF_vars(PathServes(c, pa))
  /\ \A pa \in Paths : SF_vars(PathStep(pa))

Spec     == Init /\ [][Next]_vars
FairSpec == Spec /\ Fairness
-----------------------------------------------------------------------------
Working(pa) == Is(pa, "loop") \/ Is(pa, "notifying")

(* The two indexes of the manager tell the same story as the paths. *)
IndexesAgree ==
  \A pa \in Paths, cn \in ConfNames :
    pa \in byConf[cn] <=>
      Exists(pa) /\ obj[pa].confName = cn /\ paths[obj[pa].name] = pa

(* Two paths of the same name never work at the same time: their sources and
   publishers would conflict. A reload waits for the old path for this reason. *)
OneWorkingPath ==
  \A a, b \in Paths : Working(a) /\ Working(b) /\ obj[a].name = obj[b].name => a = b

(* A path that works and was not told to close can be found, and the manager
   never hands out one that is past closePath. *)
PathsAreFound ==
  /\ \A pa \in Paths : Working(pa) /\ ~obj[pa].done => paths[obj[pa].name] = pa
  /\ \A n \in Names : paths[n] # None /\ ~pmDone =>
       Working(paths[n]) \/ Is(paths[n], "leaving")

(* Once a reload is over, no path is left whose configuration was deleted or
   changed in a way that needs a new path. *)
PathsAreRecreated ==
  pm = "select" => \A n \in Names : paths[n] # None =>
    LET pa == obj[paths[n]]
    IN pa.confName \in DOMAIN pathConfs /\ CanBeUpdated(pathConfs[pa.confName], pa.conf)

(* A reload ends although it waits for paths that call the manager. *)
ReloadReturns == (pm = "reloading") ~> (pm = "select")

(* A call to the manager, and then to the path it gave, returns. *)
CallsReturn ==
  \A c \in Clients : (op[c] \in ClientStates \ {"idle", "joined"}) ~>
                       (op[c] \in {"idle", "joined"})

(* close returns: the manager and all its paths end. *)
CloseReturns ==
  pmDone ~> (pm = "ended" /\ \A pa \in Paths : Exists(pa) => Is(pa, "ended"))
=============================================================================
