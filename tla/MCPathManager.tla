--------------------------- MODULE MCPathManager ----------------------------
EXTENDS PathManager, TLC

CONSTANTS a, all

Hard(h) == [hard |-> h, soft |-> 0]
Soft(s) == [hard |-> 0, soft |-> s]

(* A pattern alone, a name of its own next to it, and the changes of either
   that do or do not need new paths. *)
ReloadedConfigs ==
  {(all :> Hard(0)), (all :> Hard(1)),
   (a :> Hard(0)) @@ (all :> Soft(1)), (a :> Hard(1)) @@ (all :> Hard(0))}

(* Two of them, in turn, for the liveness properties. *)
AlternatingConfigs == {(all :> Hard(0)), (a :> Hard(1)) @@ (all :> Hard(1))}

Symmetry == Permutations(Paths) \cup Permutations(Clients)
=============================================================================
