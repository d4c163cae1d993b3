-------------------------- MODULE ApprovalContract --------------------------
(***************************************************************************)
(* What approving an order promises, with no request in sight: an order    *)
(* leaves the cart, is decided once, launches its jobs once and only after *)
(* it was started, and ends.  OrderApproval is the detailed specification. *)
(***************************************************************************)
EXTENDS Naturals

CONSTANT Quantity      \* jobs the items of the order call for

VARIABLES status, jobs

contract == <<status, jobs>>

Ended == {"SUCCESS", "FAILURE", "CANCELED"}

Init == status = "CART" /\ jobs = 0

\* The owner hands the cart in.
Submit == status = "CART" /\ status' = "PENDING" /\ UNCHANGED jobs

\* Decided: started, or nothing legal was left in it.
Decide == /\ status = "PENDING"
          /\ status' \in {"ACTIVE", "SUCCESS"}
          /\ UNCHANGED jobs

\* One job of a started order is handed to the job engine.
Launch == /\ status = "ACTIVE" /\ jobs < Quantity
          /\ jobs' = jobs + 1
          /\ UNCHANGED status

\* A started order ends well or badly; its jobs are never taken back.
End == /\ status = "ACTIVE"
       /\ status' \in {"SUCCESS", "FAILURE"}
       /\ UNCHANGED jobs

\* The owner withdraws an order nobody has decided.
Withdraw == /\ status \in {"CART", "PENDING"}
            /\ status' = "CANCELED"
            /\ UNCHANGED jobs

Next == Submit \/ Decide \/ Launch \/ End \/ Withdraw

Spec == Init /\ [][Next]_contract
=============================================================================
