-------------------- MODULE PublicationIntake --------------------
(***************************************************************************)
(* What a community promises a publisher, without the messages, locks and  *)
(* caches it takes: a request is answered at most once and for good, and   *)
(* "accepted" is only ever said of a publication that has been stored.     *)
(***************************************************************************)
CONSTANTS Req, Pub, PubOf

VARIABLES
    stored, \* publications that have been stored
    told    \* [Req -> what the publisher was told]

Init == stored = {} /\ told = [h \in Req |-> "none"]

Store(h) ==
    /\ stored' = stored \cup {PubOf[h]}
    /\ told[h] = "none"
    /\ UNCHANGED told

Tell(h) ==
    /\ told[h] = "none"
    /\ \E v \in {"accepted", "rejected"} :
           /\ v = "accepted" => PubOf[h] \in stored
           /\ told' = [told EXCEPT ![h] = v]
    /\ UNCHANGED stored

Next == \E h \in Req : Store(h) \/ Tell(h)

Spec == Init /\ [][Next]_<<stored, told>>
========================================
