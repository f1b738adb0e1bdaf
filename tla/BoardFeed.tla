-------------------- MODULE BoardFeed --------------------
(***************************************************************************)
(* What readers of a community are promised about its record, without the  *)
(* cycle that produces it: it shows only what was stored, and what it has  *)
(* shown it never takes back, except whole parts that one record misses.   *)
(* A record that misses none shows everything that was ever listed.        *)
(***************************************************************************)
CONSTANTS
    Item,   \* posts and votes
    Parts   \* the sets of items a record reaches through one bucket

VARIABLES
    stored,  \* items the community accepted
    listed,  \* items some record was built over
    shown    \* items the published record reaches

Init == stored \subseteq Item /\ listed \subseteq stored /\ shown = listed

Store == stored' \in SUBSET Item /\ stored \subseteq stored' /\ UNCHANGED <<listed, shown>>

Publish ==
    /\ listed' \in SUBSET stored /\ listed \subseteq listed'
    /\ \E missed \in SUBSET Parts : shown' = listed' \ UNION missed
    /\ UNCHANGED stored

Next == Store \/ Publish

Spec == Init /\ [][Next]_<<stored, listed, shown>>
========================================
