-------------------------------- MODULE Core ---------------------------------
(***************************************************************************)
(* The core of the program (core/core.go): it creates the resources that   *)
(* the configuration asks for and, given another configuration by the API, *)
(* closes those that are no longer as it wants them and creates them anew. *)
(* A resource is closed, or created, in one step; a creation may fail.     *)
(***************************************************************************)
EXTENDS Naturals

CONSTANTS
  Values,     \* values of a setting such as an address or a timeout
  Servers,    \* subset of {"off", "no", "optional", "strict"}
  Paths       \* settings of the paths: whether any is recorded, and a value

VARIABLES
  conf,       \* p.conf
  newConf,    \* the configuration of the reload under way
  resource,   \* of each resource, what it was created from; None when it is nil
  todo,       \* the resources that closeResources or createResources has ahead
  core        \* "creating", "running", "closing", "stopping" or "gone"

vars == <<conf, newConf, resource, todo, core>>

(* In the order of createResources; closeResources goes the other way. *)
Order == [metrics |-> 1, pprof |-> 2, cleaner |-> 3, pathManager |-> 4, rtsp |-> 5,
          rtsps |-> 6, rtmp |-> 7, rtmps |-> 8, webRTC |-> 9]
Resources == DOMAIN Order

IsFirst(r, S) == r \in S /\ \A o \in S : Order[r] <= Order[o]
IsLast(r, S)  == r \in S /\ \A o \in S : Order[o] <= Order[r]

None == [given |-> <<>>, uses |-> {}]
Live(r) == resource[r] # None

(* The settings, in groups that the code treats alike: "metrics" stands for   *)
(* the switches of metrics and pprof, "servers" for the switches and          *)
(* encryptions of the servers, "read" for what nearly all resources are given,*)
(* "rtspAddress" for what those two and WebRTC are not; of the paths, whether *)
(* any is recorded and the rest of them.                                      *)
Confs ==
  [metrics : BOOLEAN, servers : Servers, read : Values, rtspAddress : Values, paths : Paths]

(* gatherCleanerEntries: what the cleaner is told of the paths. *)
CleanerEntries(c) == IF c.paths[1] THEN {"recorded"} ELSE {}
-----------------------------------------------------------------------------
(* createResources: the condition for a resource, and what it is created from. *)
Enabled(r, c) ==
  CASE r \in {"metrics", "pprof"} -> c.metrics
    [] r = "cleaner" -> CleanerEntries(c) # {}
    [] r \in {"rtsp", "rtmp"} -> c.servers \in {"no", "optional"}
    [] r \in {"rtsps", "rtmps"} -> c.servers \in {"strict", "optional"}
    [] r = "webRTC" -> c.servers # "off"
    [] OTHER -> TRUE

Given(r, c) ==
  CASE r \in {"metrics", "pprof", "webRTC"} -> <<c.read>>
    [] r = "cleaner" -> <<CleanerEntries(c)>>
    [] r = "pathManager" -> <<c.read, c.rtspAddress, c.paths>>
    [] OTHER -> <<c.read, c.rtspAddress>>

Uses(r) ==
  CASE r \in {"metrics", "pprof", "cleaner"} -> {}
    [] r = "pathManager" -> {"metrics"}
    [] OTHER -> {"metrics", "pathManager"}
-----------------------------------------------------------------------------
(* closeResources: what a configuration closes. *)
ClosesMetrics(c) == c.metrics # conf.metrics \/ c.read # conf.read

(* A plausible bug: the path manager outlives the metrics it was given. *)
ClosesForItself(c) == c.rtspAddress # conf.rtspAddress \/ c.read # conf.read

ClosesPathManager(c) ==
  c.rtspAddress # conf.rtspAddress \/ c.read # conf.read \/ ClosesMetrics(c)

Closes(r, c) ==
  CASE r = "metrics" -> ClosesMetrics(c)
    [] r = "pprof" -> c.metrics # conf.metrics \/ c.read # conf.read
    [] r = "cleaner" -> CleanerEntries(c) # CleanerEntries(conf)
    [] r = "pathManager" -> ClosesPathManager(c)
    [] r = "webRTC" -> c.servers # conf.servers \/ c.read # conf.read
                       \/ ClosesMetrics(c) \/ ClosesPathManager(c)
    [] OTHER -> c.servers # conf.servers \/ c.read # conf.read \/ c.rtspAddress # conf.rtspAddress
                \/ ClosesMetrics(c) \/ ClosesPathManager(c)

(* confReload: the paths of a path manager that is not closed. *)
Reloaded(c) ==
  IF ClosesPathManager(c) THEN resource
    ELSE [resource EXCEPT !["pathManager"].given = Given("pathManager", c)]
-----------------------------------------------------------------------------
Init ==
  /\ conf \in Confs /\ newConf = conf
  /\ resource = [r \in Resources |-> None]
  /\ todo = {r \in Resources : Enabled(r, conf)}
  /\ core = "creating"

Create ==
  /\ core = "creating"
  /\ \E r \in Resources :
       /\ IsFirst(r, todo)
       /\ resource' = [resource EXCEPT ![r] =
            [given |-> Given(r, conf), uses |-> {d \in Uses(r) : Live(d)}]]
       /\ todo' = todo \ {r}
  /\ UNCHANGED <<conf, newConf, core>>

Created ==
  /\ core = "creating" /\ todo = {}
  /\ core' = "running"
  /\ UNCHANGED <<conf, newConf, resource, todo>>

(* closeResources(nil): after an error of a creation, an interrupt or Close. *)
Stop ==
  /\ core = "running" \/ (core = "creating" /\ todo # {})
  /\ core' = "stopping"
  /\ todo' = {r \in Resources : Live(r)}
  /\ UNCHANGED <<conf, newConf, resource>>

(* A configuration of apiConfigSet: reloadConf. *)
ReloadConf ==
  /\ core = "running"
  /\ \E c \in Confs :
       /\ newConf' = c
       /\ resource' = Reloaded(c)
       /\ todo' = {r \in Resources : Closes(r, c) /\ Live(r)}
  /\ core' = "closing"
  /\ UNCHANGED conf

CloseResource ==
  /\ core \in {"closing", "stopping"}
  /\ \E r \in Resources :
       /\ IsLast(r, todo)
       /\ resource' = [o \in Resources |->
            IF o = r THEN None ELSE [resource[o] EXCEPT !.uses = @ \ {r}]]
       /\ todo' = todo \ {r}
  /\ UNCHANGED <<conf, newConf, core>>

Closed ==
  /\ core \in {"closing", "stopping"} /\ todo = {}
  /\ IF core = "closing"
       THEN /\ conf' = newConf /\ core' = "creating"
            /\ todo' = {r \in Resources : Enabled(r, newConf) /\ ~Live(r)}
       ELSE core' = "gone" /\ UNCHANGED <<conf, todo>>
  /\ UNCHANGED <<newConf, resource>>

(* What the core does by itself. *)
Step == Create \/ Created \/ CloseResource \/ Closed

Next == Step \/ Stop \/ ReloadConf
-----------------------------------------------------------------------------
(* At no moment a resource works with one that was closed under it; when the   *)
(* core waits for a request, the resources are those that its configuration    *)
(* asks for, and each was created from it as it is now; none outlives the core. *)
ResourcesMatchConf ==
  /\ \A r \in Resources : Live(r) => resource[r].uses = {d \in Uses(r) : Live(d)}
  /\ core = "running" =>
       \A r \in Resources :
         /\ Live(r) <=> Enabled(r, conf)
         /\ Live(r) => resource[r].given = Given(r, conf)
  /\ core = "gone" => \A r \in Resources : ~Live(r)
=============================================================================
