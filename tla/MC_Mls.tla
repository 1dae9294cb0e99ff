-------------------------------- MODULE MC_Mls --------------------------------
(* MLS in a group: requests, devices and commits racing for the slots of its *)
(* order, or devices around its delivery tables.  The two share no table: a  *)
(* behaviour is about one of them, and the other rests.                      *)
EXTENDS MlsSequence, MlsDelivery, TLC

CONSTANTS
    r1, r2, phone, laptop, c1, c2

VARIABLE
    about           \* "order" or "delivery"

MCRequests == {r1, r2}
MCSymmetry == Permutations(MCRequests)

MCReplied ==
    {[class |-> "application", epoch |-> 1, cid |-> NoCommit, dev |-> phone, gen |-> 0]}

MCInit == about \in {"order", "delivery"} /\ Init /\ DeliveryInit

MCNext ==
    /\ UNCHANGED about
    /\ \/ about = "order" /\ Next /\ UNCHANGED deliveryVars
       \/ about = "delivery" /\ DeliveryNext /\ UNCHANGED vars

MCSpec == MCInit /\ [][MCNext]_<<about, vars, deliveryVars>>
===============================================================================
