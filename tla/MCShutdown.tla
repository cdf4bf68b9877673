----------------------------- MODULE MCShutdown -----------------------------
(* Two servers: the first, closed first, serves r1; the second r2 and p1. *)
EXTENDS Shutdown, TLC

CONSTANTS r1, r2, p1

BaseConf ==
  [source |-> "publisher", sourceOnDemand |-> FALSE, runOnDemand |-> FALSE,
   regexp |-> FALSE, overridePublisher |-> TRUE, fallback |-> FALSE,
   maxReaders |-> 0]

(* Configurations without publishers on demand. *)
PromptConfs ==
  {[BaseConf EXCEPT !.source = "static", !.sourceOnDemand = TRUE,
                                   !.maxReaders = 1],
   [BaseConf EXCEPT !.source = "static"],
   [BaseConf EXCEPT !.regexp = TRUE]}

OnDemandPublisherConfs == {[BaseConf EXCEPT !.runOnDemand = TRUE]}

TwoServers == [c \in {r1, r2, p1} |-> IF c = r1 THEN 1 ELSE 2]
=============================================================================
