---------------------------- MODULE PayoutPromise ---------------------------
(***************************************************************************)
(* What payout runs promise, without statuses, requests or transfers: the  *)
(* amount of a run leaves the platform at most once and only when the run  *)
(* has been approved, and what was sent may come back, once.               *)
(***************************************************************************)
CONSTANT Runs

VARIABLES
    approved,  \* runs a second person has approved
    money      \* where the amount of each run is

Init ==
    /\ approved = {}
    /\ money = [r \in Runs |-> "held"]

Approve(r) ==
    /\ r \notin approved
    /\ approved' = approved \cup {r}
    /\ UNCHANGED money

PayOut(r) ==
    /\ r \in approved /\ money[r] = "held"
    /\ money' = [money EXCEPT ![r] = "out"]
    /\ UNCHANGED approved

GiveBack(r) ==
    /\ money[r] = "out"
    /\ money' = [money EXCEPT ![r] = "back"]
    /\ UNCHANGED approved

Next == \E r \in Runs : Approve(r) \/ PayOut(r) \/ GiveBack(r)

Spec == Init /\ [][Next]_<<approved, money>>
=============================================================================
