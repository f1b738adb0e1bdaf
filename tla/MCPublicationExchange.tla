-------------------- MODULE MCPublicationExchange --------------------
(* Instances of PublicationExchange for TLC: the providers and how the list of *)
(* _getPubsubProviders names them. *)
EXTENDS PublicationExchange, TLC

CONSTANTS p1, p2, p3

TwoProviders == {p1, p2}
ThreeProviders == {p1, p2, p3}
Each == 1 :> p1 @@ 2 :> p2
EachOfThree == Each @@ 3 :> p3   \* the watchdog has two providers left to try

\* Handlers are alike, and so are the calls that answer.
Alike == Permutations(Copy) \cup Permutations(Ans)

========================================
