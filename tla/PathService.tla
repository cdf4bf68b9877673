----------------------------- MODULE PathService ----------------------------
(***************************************************************************)
(* What a path promises the clients that read from it, whatever its source *)
(* and its configuration: a client becomes a subscriber only by asking and *)
(* only while the path is online; once it is one it stays one until it     *)
(* leaves or the path goes offline, and then every subscriber is notified  *)
(* in the very step. Whoever is notified has yet to leave.                 *)
(***************************************************************************)
CONSTANT Readers

VARIABLES
  online,       \* there is a stream
  asking,       \* clients whose request was not answered yet
  subscribers,  \* clients that read the stream
  notified      \* clients that were told that their stream is gone

vars == <<online, asking, subscribers, notified>>

Init == online = FALSE /\ asking = {} /\ subscribers = {} /\ notified = {}

Ask(c) ==
  /\ c \notin asking
  /\ asking' = asking \cup {c}
  /\ UNCHANGED <<online, subscribers, notified>>

(* Requests are answered, some by a subscription, perhaps as the path goes
   online. *)
Serve ==
  \E answered \in SUBSET asking : \E admitted \in SUBSET answered :
    /\ asking' = asking \ answered
    /\ subscribers' = subscribers \cup admitted
    /\ online' \in {online, TRUE}
    /\ admitted # {} => online'
    /\ UNCHANGED notified

GoOffline ==
  \E refused \in SUBSET asking :
    /\ asking' = asking \ refused
    /\ online' = FALSE
    /\ subscribers' = {}
    /\ notified' = notified \cup subscribers

Leave(c) ==
  /\ c \in subscribers \cup notified
  /\ subscribers' = subscribers \ {c}
  /\ notified' = notified \ {c}
  /\ UNCHANGED <<online, asking>>

Next == Serve \/ GoOffline \/ \E c \in Readers : Ask(c) \/ Leave(c)

Spec == Init /\ [][Next]_vars
=============================================================================
