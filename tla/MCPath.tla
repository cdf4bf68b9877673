------------------------------- MODULE MCPath -------------------------------
(* Small instances of Path: the configurations that differ in the handlers. *)
EXTENDS Path, TLC

BaseConf ==
  [source |-> "publisher", sourceOnDemand |-> FALSE, runOnDemand |-> FALSE,
   regexp |-> FALSE, overridePublisher |-> TRUE, fallback |-> FALSE,
   maxReaders |-> 0]

OnDemandStatic == [BaseConf EXCEPT !.source = "static", !.sourceOnDemand = TRUE,
                                   !.maxReaders = 1]
PermanentStatic == [BaseConf EXCEPT !.source = "static", !.maxReaders = 1]
RedirectConf == [BaseConf EXCEPT !.source = "redirect", !.regexp = TRUE]
OnDemandPublisher == [BaseConf EXCEPT !.runOnDemand = TRUE, !.regexp = TRUE]
OnDemandExclusive == [OnDemandPublisher EXCEPT !.overridePublisher = FALSE,
                                               !.regexp = FALSE]
PlainPublisher == [BaseConf EXCEPT !.regexp = TRUE, !.fallback = TRUE]

StaticConfs == {OnDemandStatic, PermanentStatic, RedirectConf}
PublisherConfs == {OnDemandPublisher, OnDemandExclusive, PlainPublisher}
AllConfs == StaticConfs \cup PublisherConfs

Symmetry == Permutations(Readers) \cup Permutations(Publishers)
=============================================================================
