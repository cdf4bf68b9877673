---------------------------- MODULE StaticSource ----------------------------
(***************************************************************************)
(* What a path and its static source promise each other: the source is     *)
(* stopped, running without a stream, or running with the stream ready.    *)
(* A stream is announced by a running source alone, and stopping a source  *)
(* takes its stream away. Path uses the source in this way and SourceStatic*)
(* provides it.                                                            *)
(***************************************************************************)
VARIABLE static

Init == static \in {"stopped", "running"}

Start    == static = "stopped" /\ static' = "running"
Ready    == static = "running" /\ static' = "ready"
NotReady == static = "ready" /\ static' = "running"
Stop     == static \in {"running", "ready"} /\ static' = "stopped"

Next == Start \/ Ready \/ NotReady \/ Stop

Spec == Init /\ [][Next]_static
=============================================================================
