------------------------ MODULE ApprovalHooks_proofs ------------------------
(***************************************************************************)
(* Theorems about ApprovalHooks: for every set of orders, users, groups    *)
(* and costs, however many approvals overlap.                              *)
(***************************************************************************)
EXTENDS ApprovalHooks, TLAPS

(* Types *)

OrderType == [status : {"CART", "PENDING", "APPROVING", "ACTIVE", "DENIED"},
              approvers : SUBSET Users, queue : Queues, cost : Costs]

OrdersTyped ==
    /\ plugin \in Plugins
    /\ order \in [Orders -> OrderType]
    /\ running \subseteq Orders /\ overtaken \subseteq Orders

LEMMA InitTyped == Init => OrdersTyped
  BY DEF Init, OrdersTyped, OrderType, Queues, Anybody

LEMMA StepTyped == OrdersTyped /\ [Next]_vars => OrdersTyped'
<1> SUFFICES ASSUME OrdersTyped, [Next]_vars PROVE OrdersTyped'
  OBVIOUS
<1> USE DEF OrdersTyped, OrderType
<1>1. ASSUME NEW o \in Orders, Submit(o) PROVE OrdersTyped'
  <2>1. PICK status \in {"PENDING", "APPROVING"} :
          order' = [order EXCEPT ![o].status = status,
                      ![o].queue = IF plugin = "hierarchical" THEN "Finance" ELSE Anybody]
    BY <1>1 DEF Submit
  <2>2. (IF plugin = "hierarchical" THEN "Finance" ELSE Anybody) \in Queues
    BY DEF Queues
  <2> DEFINE queue == IF plugin = "hierarchical" THEN "Finance" ELSE Anybody
             after == [order[o] EXCEPT !.status = status, !.queue = queue]
  <2>a. order' = [order EXCEPT ![o] = after]
    BY <2>1
  <2> HIDE DEF queue
  <2>b. after \in OrderType
    BY <2>2 DEF queue
  <2> HIDE DEF after
  <2>3. order' \in [Orders -> OrderType]
    BY <2>a, <2>b
  <2> QED
    BY <1>1, <2>3 DEF Submit
<1>2. ASSUME NEW o \in Orders, PostApproval(o) PROVE OrdersTyped'
  <2>1. NextQueue(o) \in Queues
    BY DEF NextQueue, Queues
  <2> QED
    BY <1>2, <2>1 DEF PostApproval
<1>3. ASSUME NEW o \in Orders, Built(o) PROVE OrdersTyped'
  BY <1>3 DEF Built
<1>4. ASSUME NEW o \in Orders, NEW u \in Users, Approve(o, u) \/ Deny(o, u)
      PROVE  OrdersTyped'
  BY <1>4 DEF Approve, Deny
<1>5. CASE UNCHANGED vars
  BY <1>5 DEF vars
<1> QED
  BY <1>1, <1>2, <1>3, <1>4, <1>5 DEF Next

\* Every reachable state is well typed, if the costs are shares of the quota.
THEOREM TypeCorrect == ASSUME Costs \subseteq Nat PROVE Spec => []TypeOK
<1> DEFINE Typed == OrdersTyped /\ used \in Nat
<1>1. Init => Typed
  <2>1. Init => used = 0
    BY DEF Init
  <2> QED
    BY <2>1, InitTyped
<1>2. Typed /\ [Next]_vars => Typed'
  <2> SUFFICES ASSUME Typed, [Next]_vars PROVE used' \in Nat
    BY StepTyped
  <2>1. ASSUME NEW o \in Orders, Built(o) PROVE used' \in Nat
    <3>1. order[o].cost \in Nat
      BY DEF OrdersTyped, OrderType
    <3> QED
      BY <2>1, <3>1 DEF Built
  <2>2. ASSUME NEW o \in Orders, Submit(o) \/ PostApproval(o) PROVE used' = used
    BY <2>2 DEF Submit, PostApproval
  <2>3. ASSUME NEW o \in Orders, NEW u \in Users, Approve(o, u) \/ Deny(o, u)
        PROVE  used' = used
    BY <2>3 DEF Approve, Deny
  <2>4. CASE UNCHANGED vars
    BY <2>4 DEF vars
  <2> QED
    BY <2>1, <2>2, <2>3, <2>4 DEF Next
<1>3. Typed => TypeOK
  BY DEF OrdersTyped, OrderType, TypeOK
<1> QED
  BY <1>1, <1>2, <1>3, PTL DEF Spec
-----------------------------------------------------------------------------
(* Enough approvers *)

\* An order that is being approved by nobody was small when it was submitted, and
\* is so until a build changes the quota.
SmallIsSmall ==
    \A o \in Orders :
      /\ plugin = "threshold" /\ order[o].status = "APPROVING"
      /\ order[o].approvers = {} /\ o \notin overtaken
      => ~ExceedsQuotaLimit(order[o].cost, 5)

LEMMA SmallInit == Init => SmallIsSmall
  BY DEF Init, SmallIsSmall

LEMMA SmallStep == OrdersTyped /\ SmallIsSmall /\ [Next]_vars => SmallIsSmall'
<1> SUFFICES ASSUME OrdersTyped, SmallIsSmall, [Next]_vars,
                    NEW p \in Orders, plugin' = "threshold", order'[p].status = "APPROVING",
                    order'[p].approvers = {}, p \notin overtaken'
             PROVE  ~ExceedsQuotaLimit(order[p].cost, 5)'
  BY DEF SmallIsSmall
<1> USE DEF OrdersTyped, OrderType, SmallIsSmall
<1>1. ASSUME NEW o \in Orders, Submit(o) PROVE ~ExceedsQuotaLimit(order[p].cost, 5)'
  <2>1. order'[p].cost = order[p].cost /\ used' = used /\ plugin' = plugin
        /\ overtaken' = overtaken
    BY <1>1 DEF Submit
  <2>2. CASE p = o
    <3>0. PICK status \in {"PENDING", "APPROVING"} :
            /\ (status = "APPROVING") =
                 (\/ plugin = "threshold" /\ ~ExceedsQuotaLimit(order[o].cost, 5)
                  \/ plugin = "below_rate" /\ order[o].cost < RateLimit)
            /\ order' = [order EXCEPT ![o].status = status,
                           ![o].queue = IF plugin = "hierarchical" THEN "Finance" ELSE Anybody]
      BY <1>1 DEF Submit
    <3>a. order'[o].status = status
      BY <3>0
    <3>1. ~ExceedsQuotaLimit(order[o].cost, 5)
      BY <2>1, <2>2, <3>0, <3>a
    <3> QED
      BY <2>1, <2>2, <3>1 DEF ExceedsQuotaLimit
  <2>3. CASE p # o
    <3>1. order'[p] = order[p]
      BY <1>1, <2>3 DEF Submit
    <3> QED
      BY <2>1, <3>1 DEF ExceedsQuotaLimit
  <2> QED
    BY <2>2, <2>3
<1>2. ASSUME NEW o \in Orders, PostApproval(o) PROVE ~ExceedsQuotaLimit(order[p].cost, 5)'
  <2>1. p # o
    BY <1>2 DEF PostApproval
  <2>2. order'[p] = order[p] /\ UNCHANGED <<used, plugin, overtaken>>
    BY <1>2, <2>1 DEF PostApproval
  <2> QED
    BY <2>2 DEF ExceedsQuotaLimit
<1>3. ASSUME NEW o \in Orders, Built(o) PROVE FALSE
  BY <1>3 DEF Built
<1>4. ASSUME NEW o \in Orders, NEW u \in Users, Approve(o, u) \/ Deny(o, u)
      PROVE  ~ExceedsQuotaLimit(order[p].cost, 5)'
  <2>1. CASE Approve(o, u)
    <3>1. u \in order'[o].approvers
      BY <2>1 DEF Approve
    <3>2. p # o
      BY <3>1
    <3> QED
      BY <2>1, <3>2 DEF Approve, ExceedsQuotaLimit
  <2>2. CASE Deny(o, u)
    <3>1. p # o
      BY <2>2 DEF Deny
    <3> QED
      BY <2>2, <3>1 DEF Deny, ExceedsQuotaLimit
  <2> QED
    BY <1>4, <2>1, <2>2
<1>5. CASE UNCHANGED vars
  BY <1>5 DEF vars, ExceedsQuotaLimit
<1> QED
  BY <1>1, <1>2, <1>3, <1>4, <1>5 DEF Next

\* An order is started by PostApproval alone, and only if the plug-in accepts it.
LEMMA StartedIsAccepted ==
    ASSUME OrdersTyped, [Next]_vars, NEW o \in running' \ running
    PROVE  o \in Orders /\ order[o].status = "APPROVING" /\ Accepts(o)
<1>1. ASSUME NEW p \in Orders, PostApproval(p)
      PROVE  o \in Orders /\ order[o].status = "APPROVING" /\ Accepts(o)
  BY <1>1 DEF PostApproval
<1>2. ASSUME NEW p \in Orders, Submit(p) \/ Built(p) PROVE FALSE
  BY <1>2 DEF Submit, Built
<1>3. ASSUME NEW p \in Orders, NEW u \in Users, Approve(p, u) \/ Deny(p, u) PROVE FALSE
  BY <1>3 DEF Approve, Deny
<1>4. CASE UNCHANGED vars
  BY <1>4 DEF vars
<1> QED
  BY <1>1, <1>2, <1>3, <1>4 DEF Next

\* No order is started before the users its plug-in asks for have approved it.
THEOREM OrdersHaveTheirApprovers == Spec => EnoughApprovers
<1> DEFINE Inv == OrdersTyped /\ SmallIsSmall
<1>1. Init => Inv
  BY InitTyped, SmallInit
<1>2. Inv /\ [Next]_vars => Inv'
  BY StepTyped, SmallStep
<1>3. ASSUME Inv, [Next]_vars, NEW o \in running' \ running
      PROVE  LET by == order[o].approvers
                 share == used + order[o].cost
             IN  /\ plugin = "two_user" => Cardinality(by) >= 2
                 /\ plugin \in {"multi_group", "hierarchical"} => Both(by)
                 /\ plugin = "threshold" /\ running = {} /\ o \notin overtaken =>
                      /\ share >= 9 => Both(by)
                      /\ share >= 5 => by # {}
  <2>1. o \in Orders /\ order[o].status = "APPROVING" /\ Accepts(o)
    BY <1>3, StartedIsAccepted
  <2>2. plugin = "threshold" /\ o \notin overtaken /\ order[o].approvers = {}
        => ~ExceedsQuotaLimit(order[o].cost, 5)
    BY <1>3, <2>1 DEF SmallIsSmall
  <2>3. CASE plugin = "two_user"
    BY <2>1, <2>3 DEF Accepts
  <2>4. CASE plugin \in {"multi_group", "hierarchical"}
    BY <2>1, <2>4 DEF Accepts, Both
  <2>5. CASE plugin = "threshold"
    BY <2>1, <2>2, <2>5 DEF Accepts, Both, ExceedsQuotaLimit
  <2> QED
    BY <2>3, <2>4, <2>5
<1>4. Inv /\ [Next]_vars =>
        [\A o \in running' \ running :
           LET by == order[o].approvers
               share == used + order[o].cost
           IN  /\ plugin = "two_user" => Cardinality(by) >= 2
               /\ plugin \in {"multi_group", "hierarchical"} => Both(by)
               /\ plugin = "threshold" /\ running = {} /\ o \notin overtaken =>
                    /\ share >= 9 => Both(by)
                    /\ share >= 5 => by # {}]_vars
  BY <1>3
<1> QED
  BY <1>1, <1>2, <1>4, PTL DEF Spec, EnoughApprovers
-----------------------------------------------------------------------------
(* Finance first *)

Undecided(o) == order[o].status \in {"PENDING", "APPROVING"}

\* An undecided order waits for Finance, or for IT once Finance has approved it.
QueueInOrder ==
    plugin = "hierarchical" => \A o \in Orders : Undecided(o) =>
      \/ order[o].queue = "Finance"
      \/ order[o].queue = "IT" /\ AllGroupsApproved(order[o].approvers, {"Finance"})

LEMMA QueueInit == Init => QueueInOrder
  BY DEF Init, QueueInOrder, Undecided

LEMMA MoreApproveMore ==
    ASSUME NEW a, NEW b, NEW g, a \subseteq b, AllGroupsApproved(a, g)
    PROVE  AllGroupsApproved(b, g)
  BY DEF AllGroupsApproved

LEMMA QueueStep == OrdersTyped /\ QueueInOrder /\ [Next]_vars => QueueInOrder'
<1> DEFINE InOrder(q) == \/ q.queue = "Finance"
                         \/ q.queue = "IT" /\ AllGroupsApproved(q.approvers, {"Finance"})
<1> SUFFICES ASSUME OrdersTyped, QueueInOrder, [Next]_vars,
                    NEW p \in Orders, plugin' = "hierarchical", Undecided(p)'
             PROVE  InOrder(order'[p])
  BY DEF QueueInOrder, AllGroupsApproved
<1>0. plugin = "hierarchical"
  BY DEF Next, vars, Submit, PostApproval, Built, Approve, Deny
<1>a. Undecided(p) => InOrder(order[p])
  BY <1>0 DEF QueueInOrder
<1> USE DEF OrdersTyped, OrderType, Undecided
<1>1. ASSUME NEW o \in Orders, Submit(o) PROVE InOrder(order'[p])
  <2>1. CASE p = o
    BY <1>0, <1>1, <2>1 DEF Submit
  <2>2. CASE p # o
    <3>1. order'[p] = order[p]
      BY <1>1, <2>2 DEF Submit
    <3> QED
      BY <1>a, <3>1
  <2> QED
    BY <2>1, <2>2
<1>2. ASSUME NEW o \in Orders, PostApproval(o) PROVE InOrder(order'[p])
  <2>1. CASE p = o
    <3>1. order'[p].queue = NextQueue(p) /\ order'[p].approvers = order[p].approvers
      BY <1>2, <2>1 DEF PostApproval
    <3>2. InOrder(order[p])
      BY <1>2, <1>a, <2>1 DEF PostApproval
    <3> QED
      BY <1>0, <3>1, <3>2 DEF NextQueue
  <2>2. CASE p # o
    <3>1. order'[p] = order[p]
      BY <1>2, <2>2 DEF PostApproval
    <3> QED
      BY <1>a, <3>1
  <2> QED
    BY <2>1, <2>2
<1>3. ASSUME NEW o \in Orders, Built(o) PROVE InOrder(order'[p])
  BY <1>3, <1>a DEF Built
<1>4. ASSUME NEW o \in Orders, NEW u \in Users, Approve(o, u) \/ Deny(o, u)
      PROVE  InOrder(order'[p])
  <2>1. /\ Undecided(p)
        /\ order'[p].queue = order[p].queue
        /\ order[p].approvers \subseteq order'[p].approvers
    BY <1>4 DEF Approve, Deny
  <2> QED
    BY <1>a, <2>1, MoreApproveMore
<1>5. CASE UNCHANGED vars
  BY <1>5, <1>a DEF vars
<1> QED
  BY <1>1, <1>2, <1>3, <1>4, <1>5 DEF Next

LEMMA ApproverApproves ==
    ASSUME OrdersTyped, [Next]_vars, NEW o \in Orders,
           NEW u \in order'[o].approvers \ order[o].approvers
    PROVE  order[o].status = "PENDING" /\ MayApprove(u, o)
<1> USE DEF OrdersTyped, OrderType
<1>1. ASSUME NEW p \in Orders, NEW v \in Users, Approve(p, v)
      PROVE  order[o].status = "PENDING" /\ MayApprove(u, o)
  <2>1. p = o /\ v = u
    BY <1>1 DEF Approve
  <2> QED
    BY <1>1, <2>1 DEF Approve
<1>2. ASSUME NEW p \in Orders, Submit(p) \/ PostApproval(p) \/ Built(p) PROVE FALSE
  <2>1. CASE Submit(p)
    BY <2>1 DEF Submit
  <2>2. CASE PostApproval(p)
    BY <2>2 DEF PostApproval
  <2>3. CASE Built(p)
    BY <2>3 DEF Built
  <2> QED
    BY <1>2, <2>1, <2>2, <2>3
<1>3. ASSUME NEW p \in Orders, NEW v \in Users, Deny(p, v) PROVE FALSE
  BY <1>3 DEF Deny
<1>4. CASE UNCHANGED vars
  BY <1>4 DEF vars
<1> QED
  BY <1>1, <1>2, <1>3, <1>4 DEF Next

\* Under the hierarchical plug-in nobody of IT alone approves before Finance has.
THEOREM FinanceComesFirst == Spec => FinanceFirst
<1> DEFINE Inv == OrdersTyped /\ QueueInOrder
           First == plugin = "hierarchical" =>
             \A o \in Orders : \A u \in order'[o].approvers \ order[o].approvers :
               "Finance" \in GroupsOf[u] \/ AllGroupsApproved(order[o].approvers, {"Finance"})
<1>1. Init => Inv
  BY InitTyped, QueueInit
<1>2. Inv /\ [Next]_vars => Inv'
  BY StepTyped, QueueStep
<1>3. ASSUME Inv, [Next]_vars PROVE First
  <2> SUFFICES ASSUME plugin = "hierarchical", NEW o \in Orders,
                      NEW u \in order'[o].approvers \ order[o].approvers
               PROVE  \/ "Finance" \in GroupsOf[u]
                      \/ AllGroupsApproved(order[o].approvers, {"Finance"})
    OBVIOUS
  <2>1. order[o].status = "PENDING" /\ MayApprove(u, o)
    BY <1>3, ApproverApproves
  <2>2. \/ order[o].queue = "Finance"
        \/ order[o].queue = "IT" /\ AllGroupsApproved(order[o].approvers, {"Finance"})
    BY <1>3, <2>1 DEF QueueInOrder, Undecided
  <2> QED
    BY <2>1, <2>2 DEF MayApprove, Anybody
<1> QED
  BY <1>1, <1>2, <1>3, PTL DEF Spec, FinanceFirst
=============================================================================
