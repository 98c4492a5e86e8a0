------------------------------- MODULE Promises -------------------------------
(***************************************************************************)
(* What the holder of a future is promised by whoever keeps its promise: a *)
(* promise that was made gets one value and keeps it, or is broken when    *)
(* its keeper goes; from then on nothing is made, fulfilled or broken.     *)
(***************************************************************************)
CONSTANTS
    Ids,      \* the promises that may be made
    Values    \* the values they may be given

VARIABLES
    promise,  \* each promise: "none", "pending", "broken" or its value
    keeper    \* "here", or "gone" with the promises it had not fulfilled

vars == <<promise, keeper>>

Init ==
    /\ promise = [id \in Ids |-> "none"]
    /\ keeper = "here"

Make(id) ==
    /\ keeper = "here"
    /\ promise[id] = "none"
    /\ promise' = [promise EXCEPT ![id] = "pending"]
    /\ UNCHANGED keeper

Fulfil(id, v) ==
    /\ keeper = "here"
    /\ promise[id] = "pending"
    /\ promise' = [promise EXCEPT ![id] = v]
    /\ UNCHANGED keeper

Leave ==
    /\ keeper = "here"
    /\ keeper' = "gone"
    /\ promise' = [id \in Ids |-> IF promise[id] = "pending" THEN "broken" ELSE promise[id]]

Next ==
    \/ \E id \in Ids : Make(id)
    \/ \E id \in Ids, v \in Values : Fulfil(id, v)
    \/ Leave

Spec == Init /\ [][Next]_vars

===============================================================================
