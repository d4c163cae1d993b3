---------------------------- MODULE ApprovalHooks ----------------------------
(***************************************************************************)
(* The orchestration actions that change how orders are approved:          *)
(* src/actions/cloudbolt_plugins/multi_user_approval and                   *)
(* auto_approve_all_orders_below_a_threshold.  One plug-in is installed,   *)
(* at the trigger points "order submission" and "post-order approval"; the *)
(* platform approves the order, then asks the plug-in, which may put it    *)
(* back to PENDING, and starts its jobs if it is still ACTIVE.             *)
(*                                                                         *)
(* The group's quota is counted in tenths of its limit.  It counts an      *)
(* order only when what was ordered has been built.                        *)
(***************************************************************************)
EXTENDS Naturals, FiniteSets

CONSTANTS
    Plugins,      \* the plug-ins that may be installed
    Orders, Users,
    GroupsOf,     \* GroupsOf[u]: the groups of the user
    Costs,        \* bound: shares of the quota that orders take
    RateLimit     \* rate_threshold of the plug-in below_rate

VARIABLES
    plugin,       \* the installed plug-in
    order,        \* order[o]: [status, approvers, queue, cost]
    running,      \* orders whose jobs have been started
    used,         \* tenths of the quota that are counted as used
    overtaken     \* history: orders whose approval another order's build overtook

vars == <<plugin, order, running, used, overtaken>>

Anybody == "anybody"
Queues == {Anybody, "Finance", "IT"}

TypeOK ==
    /\ plugin \in Plugins
    /\ order \in [Orders -> [status : {"CART", "PENDING", "APPROVING", "ACTIVE", "DENIED"},
                             approvers : SUBSET Users, queue : Queues, cost : Costs]]
    /\ running \subseteq Orders
    /\ used \in Nat /\ overtaken \subseteq Orders
-----------------------------------------------------------------------------
\* order.all_groups_approved(groups)
AllGroupsApproved(approvers, groups) ==
    \A g \in groups : \E u \in approvers : g \in GroupsOf[u]

\* exceeds_quota_limit(create_combined_quota(order), threshold)
ExceedsQuotaLimit(cost, tenths) == used + cost >= tenths

\* The submission of the order, and the plug-in at "order submission"; an order
\* that is approved at once has no approver.
Submit(o) ==
    /\ order[o].status = "CART"
    /\ \E status \in {"PENDING", "APPROVING"} :
         /\ (status = "APPROVING") =
              (\/ plugin = "threshold" /\ ~ExceedsQuotaLimit(order[o].cost, 5)
               \/ plugin = "below_rate" /\ order[o].cost < RateLimit)
         /\ order' = [order EXCEPT ![o].status = status,
                        ![o].queue = IF plugin = "hierarchical" THEN "Finance" ELSE Anybody]
    /\ UNCHANGED <<plugin, running, used, overtaken>>

MayAlwaysApprove(u, o) == TRUE
MayApprove(u, o) == order[o].queue \in GroupsOf[u] \cup {Anybody}

\* A user approves; the status is saved before the plug-in is asked.
Approve(o, u) ==
    /\ order[o].status = "PENDING" /\ MayApprove(u, o)
    /\ order' = [order EXCEPT ![o].status = "APPROVING", ![o].approvers = @ \cup {u}]
    /\ UNCHANGED <<plugin, running, used, overtaken>>

Deny(o, u) ==
    /\ order[o].status = "PENDING" /\ MayApprove(u, o)
    /\ order' = [order EXCEPT ![o].status = "DENIED"]
    /\ UNCHANGED <<plugin, running, used, overtaken>>

AcceptsTwo(o) == Cardinality(order[o].approvers) >= 2

\* The plug-in at "post-order approval" leaves the order as it is ...
Accepts(o) ==
    LET by == order[o].approvers IN
    CASE plugin = "two_user" -> Cardinality(by) >= 2
      [] plugin \in {"multi_group", "hierarchical"} ->
           Cardinality(by) >= 2 /\ AllGroupsApproved(by, {"Finance", "IT"})
      [] plugin = "threshold" ->
           ExceedsQuotaLimit(order[o].cost, 9) =>
             Cardinality(by) >= 2 /\ AllGroupsApproved(by, {"Finance", "IT"})
      [] OTHER -> TRUE

\* ... and the hierarchical one hands it from Finance to IT.
NextQueue(o) ==
    IF plugin = "hierarchical" /\ AllGroupsApproved(order[o].approvers, {"Finance"})
    THEN "IT" ELSE order[o].queue

PostApproval(o) ==
    /\ order[o].status = "APPROVING"
    /\ order' = [order EXCEPT ![o].queue = NextQueue(o),
                              ![o].status = IF Accepts(o) THEN "ACTIVE" ELSE "PENDING"]
    /\ running' = IF Accepts(o) THEN running \cup {o} ELSE running
    /\ UNCHANGED <<plugin, used, overtaken>>

\* The jobs of the order have built what it asks for, and the quota counts it.
Built(o) ==
    /\ o \in running /\ running' = running \ {o}
    /\ used' = used + order[o].cost
    /\ overtaken' = overtaken \cup {p \in Orders : order[p].status = "APPROVING"}
    /\ UNCHANGED <<plugin, order>>
-----------------------------------------------------------------------------
Init ==
    /\ plugin \in Plugins
    /\ \E cost \in [Orders -> Costs] :
         order = [o \in Orders |-> [status |-> "CART", approvers |-> {}, queue |-> Anybody,
                                    cost |-> cost[o]]]
    /\ running = {} /\ used = 0 /\ overtaken = {}

Next == \E o \in Orders :
    \/ Submit(o) \/ PostApproval(o) \/ Built(o)
    \/ \E u \in Users : Approve(o, u) \/ Deny(o, u)

Spec == Init /\ [][Next]_vars
-----------------------------------------------------------------------------
(* Properties *)

Both(approvers) == Cardinality(approvers) >= 2 /\ AllGroupsApproved(approvers, {"Finance", "IT"})

\* No order is started before the users its plug-in asks for have approved it: two
\* of them, of Finance and of IT, or as many as its share of the quota calls for -
\* unless another order was being built, which the quota did not count yet.
EnoughApprovers ==
    [][\A o \in running' \ running :
         LET by == order[o].approvers
             share == used + order[o].cost
         IN  /\ plugin = "two_user" => Cardinality(by) >= 2
             /\ plugin \in {"multi_group", "hierarchical"} => Both(by)
             /\ plugin = "threshold" /\ running = {} /\ o \notin overtaken =>
                  /\ share >= 9 => Both(by)
                  /\ share >= 5 => by # {}]_vars

\* The hierarchical plug-in lets Finance decide first: a user who is of IT only
\* approves after one of Finance has.
FinanceFirst ==
    [][plugin = "hierarchical" =>
         \A o \in Orders : \A u \in order'[o].approvers \ order[o].approvers :
           "Finance" \in GroupsOf[u] \/ AllGroupsApproved(order[o].approvers, {"Finance"})]_vars
=============================================================================
