---------------------------- MODULE OrderApproval ----------------------------
(***************************************************************************)
(* Multilevel approval of one order: the CustomOrder model of              *)
(* ui_extensions/multilevelapprovals/models.py and the `modify` view of    *)
(* views.py, for any number of requests served at once.                    *)
(*                                                                         *)
(* A web worker loads the order row when a request opens and works on that *)
(* copy; Django's save() writes the whole copy back.  The approver ids     *)
(* (custom field values), the order items and the jobs are rows of their   *)
(* own, read from the database at each use.                                *)
(***************************************************************************)
EXTENDS Naturals, FiniteSets

CONSTANTS
    Users,        \* user profiles
    Roles,        \* roles that carry the order.approve permission
    Approver,     \* the default, single-level role, named "approver"
    NoUser,       \* the empty <role>_approver_id of a level nobody signed
    Workers,      \* web workers that serve requests
    Quantity,     \* jobs the items of the order call for
    MaxJobs,      \* bound: job records of the order
    Configs       \* group and order set-ups the order may start from

ASSUME ApproverIsRole == Approver \in Roles
ASSUME NoUserIsNoUser == NoUser \notin Users
ASSUME QuantityIsNat == Quantity \in Nat
ASSUME MaxJobsIsNat == MaxJobs \in Nat

\* owner: who ordered; admins: profiles with every permission; grms: the
\* GroupRoleMemberships of the order's group; levels: roles for which the
\* ordered blueprint has a <role>_approver_id; autoApproval: the flag of the
\* group; orchestrated: an order_approval action is installed.
ConfigType ==
    [owner : Users, admins : SUBSET Users, grms : SUBSET (Users \X Roles),
     levels : SUBSET Roles, autoApproval : BOOLEAN, orchestrated : BOOLEAN]

ASSUME ConfigsAreTyped == Configs \subseteq ConfigType

VARIABLES
    conf,         \* the set-up, chosen once
    order,        \* the row of the order: its status, and whether it has a group
    items,        \* does the order still have its items
    level,        \* level[r]: who signed for role r
    jobs,         \* job records created for the order
    req,          \* req[w]: the request worker w serves
    overlapped    \* history: two requests, or one and the job engine, overlapped

vars == <<conf, order, items, level, jobs, req, overlapped>>

Statuses == {"CART", "PENDING", "ACTIVE", "SUCCESS", "FAILURE", "CANCELED"}
RowType == [status : Statuses, grouped : BOOLEAN]

\* Where a request stands in modify(), start_approval_process() or approve().
Steps == {"idle", "submit", "cancel", "clear", "collect", "record", "tally",
          "decide", "approve", "activate", "hook", "jobs"}
Afters == {"idle", "tally", "decide", "activate"}
ReqType ==
    [pc : Steps, act : {"submit", "approve", "cancel", "clear"}, user : Users,
     row : RowType, mine : SUBSET Roles, after : Afters, todo : 0..Quantity]

TypeOK ==
    /\ conf \in Configs
    /\ order \in RowType
    /\ items \in BOOLEAN
    /\ level \in [Roles -> Users \cup {NoUser}]
    /\ jobs \in 0..MaxJobs
    /\ req \in [Workers -> ReqType]
    /\ overlapped \in BOOLEAN
-----------------------------------------------------------------------------
Busy(w) == req[w].pc # "idle"

(* Roles *)

RolesOf(u) == {r \in Roles : <<u, r>> \in conf.grms}

\* The default role does not count beside another one.
WithoutDefault(rs) == IF Cardinality(rs) > 1 THEN rs \ {Approver} ELSE rs

\* The memberships of everybody in the group.
OwnedByAnyone(u) == {r \in Roles : \E v \in Users : <<v, r>> \in conf.grms}

\* get_my_grms
Owned(u) == WithoutDefault(RolesOf(u))

\* How many roles has_all_approver_roles asks for: its first query has a row
\* for each membership, the second (more than one row) one for each role.
NeededCount ==
    IF Cardinality(conf.grms) > 1
    THEN Cardinality({g[2] : g \in conf.grms} \ {Approver})
    ELSE Cardinality(conf.grms)

\* has_all_approver_roles compares two counts.
HasAllApproverRoles(u) == NeededCount = Cardinality(Owned(u))

\* The platform's has_permission('order.approve', order or group).
HasPermission(u, row) == u \in conf.admins \/ (row.grouped /\ RolesOf(u) # {})

\* is_multilevel_approval, as a truth value: it has at least one level.
IsMultilevel == items /\ conf.levels # {}

AnySigned == \E r \in conf.levels : level[r] # NoUser

\* all(is_multilevel_approval().values()); an order without items has none.
AllSigned == items => \A r \in conf.levels : level[r] # NoUser

\* should_auto_approve, asked of the copy `row`.
ShouldAutoApprove(row) ==
    \/ row.grouped /\ conf.autoApproval
    \/ IF IsMultilevel THEN HasAllApproverRoles(conf.owner)
                       ELSE HasPermission(conf.owner, row)
-----------------------------------------------------------------------------
Goto(w, pc) == req' = [req EXCEPT ![w].pc = pc]
Idle == [pc |-> "idle", act |-> "submit", user |-> conf.owner,
         row |-> [status |-> "CART", grouped |-> TRUE],
         mine |-> {}, after |-> "tally", todo |-> 0]

Return(w) == req' = [req EXCEPT ![w] = Idle]
Keep == UNCHANGED <<conf, overlapped>>

\* save() writes every field of the worker's copy.
Save(row) == order' = row

(* modify(): load the order, check the permission, choose the branch *)

Open(w, u, a) ==
    /\ req[w].pc = "idle"
    /\ a = "approve" => HasPermission(u, order)
    /\ a \in {"submit", "cancel"} => u = conf.owner \/ u \in conf.admins
    /\ req' = [req EXCEPT ![w] =
                 [pc    |-> CASE a # "approve" -> a
                              [] a = "approve" /\ IsMultilevel -> "collect"
                              [] OTHER -> "approve",
                  act   |-> a, user |-> u, row |-> order, mine |-> {},
                  after |-> "tally", todo |-> 0]]
    /\ overlapped' = (overlapped \/ \E v \in Workers \ {w} : Busy(v))
    /\ UNCHANGED <<conf, order, items, level, jobs>>

\* order.submit() of the platform, then the head of start_approval_process:
\* an installed order_approval action replaces everything that follows.
Submit(w) ==
    /\ req[w].pc = "submit"
    /\ IF req[w].row.status # "CART" \/ ~items
       THEN Return(w) /\ UNCHANGED order
       ELSE LET row == [req[w].row EXCEPT !.status = "PENDING"] IN
            /\ Save(row)
            /\ IF conf.orchestrated THEN Return(w)
               ELSE req' = [req EXCEPT ![w].row = row, ![w].after = "decide",
                              ![w].pc = IF IsMultilevel THEN "collect" ELSE "decide"]
    /\ UNCHANGED <<items, level, jobs>> /\ Keep

(* approve_my_grms(): read which of my levels are unsigned, then sign them *)

\* Every level of mine, signed or not.
MyLevels(u) == Owned(u) \cap conf.levels

Unsigned(u) == {r \in Owned(u) \cap conf.levels : level[r] = NoUser}

\* A role of mine without an approver id raises DoesNotExist: the levels read
\* before it are signed and the request dies.  So does an order without items.
Collect(w) ==
    /\ req[w].pc = "collect"
    /\ \/ /\ req[w].row.status # "PENDING"
          /\ req' = [req EXCEPT ![w].pc = req[w].after]
       \/ /\ req[w].row.status = "PENDING" /\ ~items
          /\ Return(w)
       \/ /\ req[w].row.status = "PENDING" /\ items
          /\ Owned(req[w].user) \subseteq conf.levels
          /\ req' = [req EXCEPT ![w].pc = "record", ![w].mine = Unsigned(req[w].user)]
       \/ /\ req[w].row.status = "PENDING" /\ items
          /\ ~ Owned(req[w].user) \subseteq conf.levels
          /\ \E s \in SUBSET Unsigned(req[w].user) :
               req' = [req EXCEPT ![w].pc = "record", ![w].mine = s,
                                  ![w].after = "idle"]
    /\ UNCHANGED <<order, items, level, jobs>> /\ Keep

\* A worker that signs with the role instead of the user.
Misfiled(w) == [r \in Roles |-> IF r \in req[w].mine THEN r ELSE level[r]]

Signed(w) == [r \in Roles |-> IF r \in req[w].mine THEN req[w].user ELSE level[r]]

Record(w) ==
    /\ req[w].pc = "record"
    /\ level' = Signed(w)
    /\ IF req[w].after = "idle" THEN Return(w)
       ELSE req' = [req EXCEPT ![w].pc = req[w].after, ![w].mine = {}]
    /\ UNCHANGED <<order, items, jobs>> /\ Keep

\* Back in modify(): all levels signed, or "partial approval processed".
Tally(w) ==
    /\ req[w].pc = "tally"
    /\ IF AllSigned THEN Goto(w, "approve") ELSE Return(w)
    /\ UNCHANGED <<order, items, level, jobs>> /\ Keep

\* Back in start_approval_process(): approve for the owner, or mail approvers.
Decide(w) ==
    /\ req[w].pc = "decide"
    /\ IF ShouldAutoApprove(req[w].row)
       THEN req' = [req EXCEPT ![w].pc = "approve", ![w].user = conf.owner]
       ELSE Return(w)
    /\ UNCHANGED <<order, items, level, jobs>> /\ Keep

(* CustomOrder.approve() *)

\* The guard on the status, left out.
ApproveAnyStatus(w) ==
    /\ req[w].pc = "approve"
    /\ Goto(w, "activate")
    /\ UNCHANGED <<order, items, level, jobs>> /\ Keep

\* Signing once more for the approver; what it left unsigned is not looked at
\* (the dictionary itself is tested, and it is not empty).
Approve(w) ==
    /\ req[w].pc = "approve"
    /\ IF req[w].row.status # "PENDING" THEN Return(w)
       ELSE IF IsMultilevel
       THEN req' = [req EXCEPT ![w].pc = "collect", ![w].after = "activate"]
       ELSE Goto(w, "activate")
    /\ UNCHANGED <<order, items, level, jobs>> /\ Keep

\* Quota, then the filter on order items, then the order turns ACTIVE.
Activate(w) ==
    /\ req[w].pc = "activate"
    /\ \/ /\ Return(w) /\ UNCHANGED order      \* over quota, or no group (500)
       \/ /\ req[w].row.grouped                \* no legal item is left
          /\ Save([req[w].row EXCEPT !.status = "SUCCESS"])
          /\ Return(w)
       \/ /\ req[w].row.grouped /\ items
          /\ \E legal \in 0..Quantity :
               LET row == [req[w].row EXCEPT !.status = "ACTIVE"] IN
               /\ Save(row)
               /\ req' = [req EXCEPT ![w].pc = "hook", ![w].row = row,
                                     ![w].todo = legal]
    /\ UNCHANGED <<items, level, jobs>> /\ Keep

\* The pre_order_execution hook passes, or fails the order.
Hook(w) ==
    /\ req[w].pc = "hook"
    /\ \/ Goto(w, "jobs") /\ UNCHANGED order
       \/ Return(w) /\ Save([req[w].row EXCEPT !.status = "FAILURE"])
    /\ UNCHANGED <<items, level, jobs>> /\ Keep

\* One job record at a time; an order that needed none is complete.
Launch(w) ==
    /\ req[w].pc = "jobs"
    /\ \/ /\ req[w].todo > 0 /\ jobs < MaxJobs
          /\ jobs' = jobs + 1
          /\ IF req[w].todo = 1 THEN Return(w)
             ELSE req' = [req EXCEPT ![w].todo = @ - 1]
          /\ UNCHANGED order
       \/ /\ req[w].todo = 0
          /\ Save([req[w].row EXCEPT !.status = "SUCCESS"])
          /\ Return(w)
          /\ UNCHANGED jobs
    /\ UNCHANGED <<items, level>> /\ Keep

(* The other branches of modify() *)

\* The platform cancels a copy that is not decided yet.
Cancel(w) ==
    /\ req[w].pc = "cancel"
    /\ IF req[w].row.status \in {"CART", "PENDING"}
       THEN Save([req[w].row EXCEPT !.status = "CANCELED"])
       ELSE UNCHANGED order
    /\ Return(w)
    /\ UNCHANGED <<items, level, jobs>> /\ Keep

\* No look at the status: the row loses its group and the order its items.
Clear(w) ==
    /\ req[w].pc = "clear"
    /\ Save([req[w].row EXCEPT !.grouped = FALSE])
    /\ items' = FALSE
    /\ Return(w)
    /\ UNCHANGED <<level, jobs>> /\ Keep

(* Outside modify() *)

\* The worker process is killed; what it had not written is lost.
Crash(w) ==
    /\ req[w].pc # "idle"
    /\ Return(w)
    /\ UNCHANGED <<order, items, level, jobs>> /\ Keep

\* The job engine ends a started order once its jobs are done; it picks jobs
\* up within a minute, so not while they are still being created.
OrderCompletes ==
    /\ order.status = "ACTIVE" /\ jobs > 0
    /\ \A w \in Workers : req[w].pc # "jobs"
    /\ \E s \in {"SUCCESS", "FAILURE"} : order' = [order EXCEPT !.status = s]
    /\ overlapped' = (overlapped \/ \E w \in Workers : Busy(w))
    /\ UNCHANGED <<conf, items, level, jobs, req>>
-----------------------------------------------------------------------------
Init ==
    /\ conf \in Configs
    /\ order = [status |-> "CART", grouped |-> TRUE]
    /\ items = TRUE
    /\ level = [r \in Roles |-> NoUser]
    /\ jobs = 0
    /\ req = [w \in Workers |-> Idle]
    /\ overlapped = FALSE

Work(w) ==
    \/ Submit(w) \/ Collect(w) \/ Record(w) \/ Tally(w) \/ Decide(w)
    \/ Approve(w) \/ Activate(w) \/ Hook(w) \/ Launch(w)
    \/ Cancel(w) \/ Clear(w)

Next ==
    \/ \E w \in Workers, u \in Users, a \in {"submit", "approve", "cancel", "clear"} :
         Open(w, u, a)
    \/ \E w \in Workers : Work(w) \/ Crash(w)
    \/ OrderCompletes

Spec == Init /\ [][Next]_vars
-----------------------------------------------------------------------------
(* Properties *)

\* Nobody signs for a role they do not hold in the order's group, whatever
\* requests overlap (get_my_grms filters the memberships of the profile).
GenuineSignatures ==
    \A r \in Roles : level[r] # NoUser => <<level[r], r>> \in conf.grms

\* An order started by somebody's click on Approve has every level signed at
\* that moment, however the clicks of the other approvers interleave.
ViewNeedsEveryLevel ==
    [][\A w \in Workers :
         /\ req[w].act = "approve"
         /\ req[w].pc = "activate" /\ req'[w].pc = "hook"
         => \A r \in conf.levels : level[r] # NoUser]_vars

\* While requests do not overlap, a signature given is never replaced by
\* somebody else's (approve_my_grms signs only what is unsigned).
SerialSignaturesStand ==
    [][~overlapped' => \A r \in Roles : level[r] # NoUser => level'[r] = level[r]]_vars

\* While requests do not overlap, every step keeps the contract: the order is
\* decided once and its jobs are created once, while it is active.
Contract == INSTANCE ApprovalContract WITH status <- order.status

SerialContract ==
    /\ Contract!Init
    /\ [][~overlapped' => Contract!Next \/ UNCHANGED <<order.status, jobs>>]_vars

\* "Only orders that are in 'PENDING' state can be approved" (models.py:207):
\* no order that left that state is started.
OnlyPendingIsStarted ==
    [][\A w \in Workers :
         req[w].pc = "activate" /\ req'[w].pc = "hook" => order.status = "PENDING"]_vars

\* "Cannot fully approve this order.  Multilevel approvals not complete."
\* (models.py:228): approve() itself leaves such an order pending, unless the
\* group approves automatically.
IncompleteIsNotStarted ==
    [][\A w \in Workers :
         req[w].pc = "activate" /\ req'[w].pc = "hook"
         => conf.autoApproval \/ \A r \in conf.levels : level[r] # NoUser]_vars
=============================================================================
