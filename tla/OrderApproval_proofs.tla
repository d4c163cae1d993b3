------------------------ MODULE OrderApproval_proofs ------------------------
(***************************************************************************)
(* Theorems about OrderApproval, for every group, set of levels, number of *)
(* web workers and number of jobs.                                         *)
(***************************************************************************)
EXTENDS OrderApproval, TLAPS

USE DEF Statuses, Steps, Afters

\* The roles somebody signs for are roles they hold in the order's group, and
\* never the default role beside another one (get_my_grms).
LEMMA OwnedAreHeld ==
    ASSUME NEW u
    PROVE  Owned(u) \subseteq Roles /\ \A r \in Owned(u) : <<u, r>> \in conf.grms
  BY DEF Owned, WithoutDefault, RolesOf

LEMMA IdleTyped ==
    ASSUME conf \in Configs
    PROVE  Idle \in ReqType
  BY ConfigsAreTyped, QuantityIsNat DEF Idle, ReqType, RowType, ConfigType

LEMMA InitTyped == Init => TypeOK
<1> SUFFICES ASSUME Init PROVE TypeOK
  OBVIOUS
<1>1. Idle \in ReqType
  BY IdleTyped DEF Init
<1>2. req \in [Workers -> ReqType]
  BY <1>1 DEF Init
<1>3. order \in RowType /\ jobs \in 0..MaxJobs
  BY MaxJobsIsNat DEF Init, RowType
<1> QED
  BY <1>2, <1>3 DEF Init, TypeOK

\* Type correctness: each step keeps the state well formed; in particular at
\* most MaxJobs job records exist and a worker's copy stays an order row.
LEMMA StepTyped == TypeOK /\ [Next]_vars => TypeOK'
<1> SUFFICES ASSUME TypeOK, [Next]_vars PROVE TypeOK'
  OBVIOUS
<1> USE DEF TypeOK
<1>idle. Idle \in ReqType
  BY IdleTyped
<1>conf. conf \in ConfigType
  BY ConfigsAreTyped
<1>fields. ASSUME NEW w \in Workers
           PROVE  req[w] \in ReqType /\ req[w].row \in RowType
  BY DEF ReqType
<1>row. ASSUME NEW w \in Workers, NEW s \in Statuses
        PROVE  [req[w].row EXCEPT !.status = s] \in RowType
  BY <1>fields DEF RowType
<1>1. ASSUME NEW w \in Workers, NEW u \in Users,
             NEW a \in {"submit", "approve", "cancel", "clear"}, Open(w, u, a)
      PROVE  TypeOK'
  <2>1. [pc    |-> CASE a # "approve" -> a
                     [] a = "approve" /\ IsMultilevel -> "collect"
                     [] OTHER -> "approve",
         act   |-> a, user |-> u, row |-> order, mine |-> {},
         after |-> "tally", todo |-> 0] \in ReqType
    BY QuantityIsNat DEF ReqType
  <2> QED
    BY <1>1, <2>1 DEF Open
<1>2. ASSUME NEW w \in Workers, Submit(w) PROVE TypeOK'
  <2>1. CASE req[w].row.status # "CART" \/ ~items
    BY <1>2, <1>idle, <2>1 DEF Submit, Return, Keep
  <2>2. CASE ~(req[w].row.status # "CART" \/ ~items)
    <3> DEFINE row == [req[w].row EXCEPT !.status = "PENDING"]
    <3>1. row \in RowType
      BY DEF ReqType, RowType
    <3>2. req' \in [Workers -> ReqType]
      <4>1. CASE conf.orchestrated
        BY <1>2, <1>idle, <2>2, <4>1 DEF Submit, Return
      <4>2. CASE ~conf.orchestrated
        BY <1>2, <2>2, <3>1, <4>2 DEF Submit, ReqType
      <4> QED
        BY <4>1, <4>2
    <3> QED
      BY <1>2, <2>2, <3>1, <3>2 DEF Submit, Save, Keep
  <2> QED
    BY <2>1, <2>2
<1>3. ASSUME NEW w \in Workers, Collect(w) PROVE TypeOK'
  <2>1. Unsigned(req[w].user) \subseteq Roles
    BY OwnedAreHeld DEF Unsigned
  <2>2. CASE Return(w) \/ req' = [req EXCEPT ![w].pc = req[w].after]
    <3>1. req' \in [Workers -> ReqType]
      BY <1>idle, <2>2 DEF Return, ReqType
    <3> QED
      BY <1>3, <3>1 DEF Collect, Keep
  <2>3. ASSUME NEW s \in SUBSET Roles, NEW a \in Afters,
               req' = [req EXCEPT ![w].pc = "record", ![w].mine = s, ![w].after = a]
        PROVE  TypeOK'
    <3>1. [req[w] EXCEPT !.pc = "record", !.mine = s, !.after = a] \in ReqType
      <4>1. req[w] \in ReqType
        BY <1>fields
      <4> HIDE DEF TypeOK
      <4> QED
        BY <4>1 DEF ReqType, Steps
    <3>2. req' = [req EXCEPT ![w] = [req[w] EXCEPT !.pc = "record", !.mine = s, !.after = a]]
      BY <2>3
    <3>3. req' \in [Workers -> ReqType]
      BY <3>1, <3>2
    <3> QED
      BY <1>3, <3>3 DEF Collect, Keep
  <2>4. CASE req' = [req EXCEPT ![w].pc = "record", ![w].mine = Unsigned(req[w].user)]
    <3>1. [req[w] EXCEPT !.pc = "record", !.mine = Unsigned(req[w].user)] \in ReqType
      BY <1>fields, <2>1 DEF ReqType
    <3>2. req' = [req EXCEPT ![w] =
                    [req[w] EXCEPT !.pc = "record", !.mine = Unsigned(req[w].user)]]
      BY <2>4
    <3>3. req' \in [Workers -> ReqType]
      BY <3>1, <3>2
    <3> QED
      BY <1>3, <3>3 DEF Collect, Keep
  <2> QED
    BY <1>3, <2>1, <2>2, <2>3, <2>4 DEF Collect
<1>4. ASSUME NEW w \in Workers, Record(w) PROVE TypeOK'
  <2>1. req' \in [Workers -> ReqType]
    BY <1>4, <1>idle DEF Record, Return, ReqType
  <2>2. level' \in [Roles -> Users \cup {NoUser}]
    BY <1>4 DEF Record, Signed, ReqType
  <2> QED
    BY <1>4, <2>1, <2>2 DEF Record, Keep
<1>5. ASSUME NEW w \in Workers, Tally(w) PROVE TypeOK'
  BY <1>5, <1>idle DEF Tally, Goto, Return, Keep, ReqType
<1>6. ASSUME NEW w \in Workers, Decide(w) PROVE TypeOK'
  BY <1>6, <1>idle, <1>conf DEF Decide, Return, Keep, ReqType, ConfigType
<1>7. ASSUME NEW w \in Workers, Approve(w) PROVE TypeOK'
  BY <1>7, <1>idle DEF Approve, Goto, Return, Keep, ReqType
<1>8. ASSUME NEW w \in Workers, Activate(w) PROVE TypeOK'
  <2>1. CASE Return(w) /\ (UNCHANGED order \/ Save([req[w].row EXCEPT !.status = "SUCCESS"]))
    BY <1>8, <1>idle, <1>row, <2>1 DEF Activate, Return, Save, Keep
  <2>2. ASSUME NEW row \in RowType, NEW legal \in 0..Quantity, Save(row),
               req' = [req EXCEPT ![w].pc = "hook", ![w].row = row, ![w].todo = legal]
        PROVE  TypeOK'
    <3>1. [req[w] EXCEPT !.pc = "hook", !.row = row, !.todo = legal] \in ReqType
      BY <1>fields DEF ReqType
    <3>2. req' = [req EXCEPT ![w] =
                    [req[w] EXCEPT !.pc = "hook", !.row = row, !.todo = legal]]
      BY <2>2
    <3>3. req' \in [Workers -> ReqType]
      BY <3>1, <3>2
    <3> QED
      BY <1>8, <2>2, <3>3 DEF Activate, Save, Keep
  <2>3. [req[w].row EXCEPT !.status = "ACTIVE"] \in RowType
    BY <1>row
  <2> QED
    BY <1>8, <2>1, <2>2, <2>3 DEF Activate
<1>9. ASSUME NEW w \in Workers, Hook(w) PROVE TypeOK'
  <2>1. CASE Goto(w, "jobs") /\ UNCHANGED order
    BY <1>9, <2>1 DEF Hook, Goto, Keep, ReqType
  <2>2. CASE Return(w) /\ Save([req[w].row EXCEPT !.status = "FAILURE"])
    BY <1>9, <1>idle, <1>row, <2>2 DEF Hook, Return, Save, Keep
  <2> QED
    BY <1>9, <2>1, <2>2 DEF Hook
<1>10. ASSUME NEW w \in Workers, Launch(w) PROVE TypeOK'
  <2>1. CASE req[w].todo > 0 /\ jobs < MaxJobs /\ jobs' = jobs + 1 /\ order' = order
    <3>1. req' \in [Workers -> ReqType]
      BY <1>10, <1>idle, <2>1, QuantityIsNat DEF Launch, Return, ReqType
    <3> QED
      BY <1>10, <2>1, <3>1, MaxJobsIsNat DEF Launch, Keep
  <2>2. CASE req[w].todo = 0
    BY <1>10, <1>idle, <2>2 DEF Launch, Return, Save, Keep, ReqType, RowType
  <2> QED
    BY <1>10, <2>1, <2>2 DEF Launch
<1>11. ASSUME NEW w \in Workers, Cancel(w) PROVE TypeOK'
  BY <1>11, <1>idle DEF Cancel, Return, Save, Keep, ReqType, RowType
<1>12. ASSUME NEW w \in Workers, Clear(w) PROVE TypeOK'
  BY <1>12, <1>idle DEF Clear, Return, Save, Keep, ReqType, RowType
<1>13. ASSUME NEW w \in Workers, Crash(w) PROVE TypeOK'
  BY <1>13, <1>idle DEF Crash, Return, Keep
<1>14. ASSUME OrderCompletes PROVE TypeOK'
  BY <1>14 DEF OrderCompletes, RowType
<1>15. ASSUME UNCHANGED vars PROVE TypeOK'
  BY <1>15 DEF vars
<1> QED
  BY <1>1, <1>2, <1>3, <1>4, <1>5, <1>6, <1>7, <1>8, <1>9, <1>10, <1>11,
     <1>12, <1>13, <1>14, <1>15 DEF Next, Work

\* The state of the order, its levels and its requests is always well formed.
THEOREM TypeCorrect == Spec => []TypeOK
<1>1. Init => TypeOK
  BY InitTyped
<1>2. TypeOK /\ [Next]_vars => TypeOK'
  BY StepTyped
<1> QED
  BY <1>1, <1>2, PTL DEF Spec
-----------------------------------------------------------------------------
(* Signatures, and orders started from the view *)

\* What request w found unsigned was the user's to sign.
ClaimsAreOwned(w) ==
    req[w].pc = "record" => req[w].mine \subseteq Owned(req[w].user)

\* Only a submission decides without a look at the levels.
OnlySubmitDecides(w) ==
    \/ req[w].pc \in {"submit", "decide"}
    \/ req[w].pc \in {"collect", "record"} /\ req[w].after = "decide"
    => req[w].act = "submit"

\* Somebody's click has come past the tally of modify().
PastTally(w) ==
    /\ req[w].act = "approve"
    /\ \/ req[w].pc \in {"approve", "activate"}
       \/ req[w].pc \in {"collect", "record"} /\ req[w].after = "activate"

\* Past the tally, all levels are signed and stay so, or the items are gone.
TallyHolds(w) ==
    PastTally(w) => \/ ~items
                    \/ \A r \in conf.levels : level[r] # NoUser

Local(w) == ClaimsAreOwned(w) /\ OnlySubmitDecides(w) /\ TallyHolds(w)

IInv == TypeOK /\ GenuineSignatures /\ \A w \in Workers : Local(w)

\* The set-up never changes, items do not come back, and no step takes a
\* signature away (Cancel and Clear leave the approver ids in place).
LEMMA SignedStays ==
    ASSUME TypeOK, [Next]_vars
    PROVE  /\ conf' = conf
           /\ items' => items
           /\ \A r \in Roles : level[r] # NoUser => level'[r] # NoUser
<1>1. ASSUME NEW w \in Workers, Record(w)
      PROVE  \A r \in Roles : level[r] # NoUser => level'[r] # NoUser
  <2>1. req[w].user \in Users
    BY DEF TypeOK, ReqType
  <2> QED
    BY <1>1, <2>1, NoUserIsNoUser DEF Record, Signed
<1>2. ASSUME NEW w \in Workers, Record(w) PROVE conf' = conf /\ items' = items
  BY <1>2 DEF Record, Keep
<1>3. ASSUME NEW w \in Workers,
             \/ Submit(w) \/ Collect(w) \/ Tally(w) \/ Decide(w) \/ Approve(w)
             \/ Activate(w) \/ Hook(w) \/ Launch(w) \/ Cancel(w) \/ Clear(w)
             \/ Crash(w)
      PROVE  conf' = conf /\ level' = level /\ (items' => items)
  <2>1. CASE Submit(w) BY <2>1 DEF Submit, Keep
  <2>2. CASE Collect(w) BY <2>2 DEF Collect, Keep
  <2>3. CASE Tally(w) BY <2>3 DEF Tally, Keep
  <2>4. CASE Decide(w) BY <2>4 DEF Decide, Keep
  <2>5. CASE Approve(w) BY <2>5 DEF Approve, Keep
  <2>6. CASE Activate(w) BY <2>6 DEF Activate, Keep
  <2>7. CASE Hook(w) BY <2>7 DEF Hook, Keep
  <2>8. CASE Launch(w) BY <2>8 DEF Launch, Keep
  <2>9. CASE Cancel(w) BY <2>9 DEF Cancel, Keep
  <2>10. CASE Clear(w) BY <2>10 DEF Clear, Keep
  <2>11. CASE Crash(w) BY <2>11 DEF Crash, Keep
  <2> QED
    BY <1>3, <2>1, <2>2, <2>3, <2>4, <2>5, <2>6, <2>7, <2>8, <2>9, <2>10, <2>11
<1>4. ASSUME NEW w \in Workers, NEW u \in Users,
             NEW a \in {"submit", "approve", "cancel", "clear"}, Open(w, u, a)
      PROVE  conf' = conf /\ level' = level /\ items' = items
  BY <1>4 DEF Open
<1>5. ASSUME OrderCompletes \/ UNCHANGED vars
      PROVE  conf' = conf /\ level' = level /\ items' = items
  BY <1>5 DEF OrderCompletes, vars
<1> QED
  BY <1>1, <1>2, <1>3, <1>4, <1>5 DEF Next, Work

\* A request that a step leaves alone keeps its part of the invariant.
LEMMA LocalStays ==
    ASSUME TypeOK, [Next]_vars, NEW v \in Workers, Local(v), req'[v] = req[v]
    PROVE  Local(v)'
<1>1. conf' = conf
  BY SignedStays
<1>2. ClaimsAreOwned(v)'
  BY <1>1 DEF Local, ClaimsAreOwned, Owned, WithoutDefault, RolesOf
<1>4. OnlySubmitDecides(v)'
  BY DEF Local, OnlySubmitDecides
<1>5. conf.levels \subseteq Roles
  BY ConfigsAreTyped DEF TypeOK, ConfigType
<1>6. TallyHolds(v)'
  BY <1>1, <1>5, SignedStays DEF Local, TallyHolds, PastTally
<1> QED
  BY <1>2, <1>4, <1>6 DEF Local

\* What a worker has written down when its request is over says nothing.
LEMMA IdleIsLocal ==
    ASSUME NEW w \in Workers, req'[w] = Idle PROVE Local(w)'
  BY DEF Idle, Local, ClaimsAreOwned, OnlySubmitDecides, TallyHolds, PastTally

\* The request that makes the step keeps its part of the invariant, too.
LEMMA LocalKept ==
    ASSUME IInv, [Next]_vars, NEW w \in Workers, Work(w)
    PROVE  Local(w)'
<1> USE DEF Local, ClaimsAreOwned, OnlySubmitDecides, TallyHolds, PastTally
<1>type. TypeOK /\ req[w] \in ReqType
  BY DEF IInv, TypeOK
<1>dom. req \in [Workers -> ReqType] /\ Local(w)
  BY DEF IInv, TypeOK
<1>conf. conf' = conf /\ (items' => items) /\ conf.levels \subseteq Roles
  BY <1>type, SignedStays, ConfigsAreTyped DEF TypeOK, ConfigType
<1>owned. \A u : Owned(u)' = Owned(u)
  BY <1>conf DEF Owned, WithoutDefault, RolesOf
<1>idle. ASSUME Return(w) PROVE Local(w)'
  BY <1>idle, <1>dom, IdleIsLocal DEF Return
<1>1. CASE Submit(w)
  <2>1. CASE Return(w)
    BY <1>idle, <2>1
  <2>2. CASE ~Return(w)
    BY <1>1, <1>dom, <1>type, <2>2 DEF Submit, ReqType
  <2> QED
    BY <2>1, <2>2
<1>2. CASE Collect(w)
  <2>1. CASE Return(w)
    BY <1>idle, <2>1
  <2>2. CASE req' = [req EXCEPT ![w].pc = req[w].after]
    BY <1>2, <1>dom, <1>conf, <1>type, <2>2 DEF Collect, Keep, ReqType
  <2>3. Unsigned(req[w].user) \subseteq Owned(req[w].user)
    BY DEF Unsigned
  <2>4. ASSUME NEW s \in SUBSET Unsigned(req[w].user),
               req' = [req EXCEPT ![w].pc = "record", ![w].mine = s, ![w].after = "idle"]
        PROVE  Local(w)'
    BY <1>dom, <1>owned, <1>type, <2>3, <2>4 DEF ReqType
  <2>5. CASE req' = [req EXCEPT ![w].pc = "record", ![w].mine = Unsigned(req[w].user)]
    BY <1>2, <1>dom, <1>type, <1>owned, <1>conf, <2>3, <2>5 DEF Collect, Keep, ReqType
  <2> QED
    BY <1>2, <2>1, <2>2, <2>4, <2>5 DEF Collect
<1>3. CASE Record(w)
  <2>1. CASE Return(w)
    BY <1>idle, <2>1
  <2>2. CASE ~Return(w)
    <3>1. req' = [req EXCEPT ![w].pc = req[w].after, ![w].mine = {}]
      BY <1>3, <2>2 DEF Record
    <3>2. \A r \in Roles : level[r] # NoUser => level'[r] # NoUser
      BY <1>type, SignedStays
    <3> QED
      BY <1>3, <1>dom, <1>conf, <1>type, <3>1, <3>2 DEF Record, Keep, ReqType
  <2> QED
    BY <2>1, <2>2
<1>4. CASE Tally(w)
  <2>1. CASE Return(w)
    BY <1>idle, <2>1
  <2>2. CASE ~Return(w)
    BY <1>4, <1>dom, <1>type, <1>conf, <2>2 DEF Tally, Goto, Keep, AllSigned, ReqType
  <2> QED
    BY <2>1, <2>2
<1>5. CASE Decide(w)
  <2>1. CASE Return(w)
    BY <1>idle, <2>1
  <2>2. CASE ~Return(w)
    BY <1>5, <1>dom, <1>type, <2>2 DEF Decide, ReqType
  <2> QED
    BY <2>1, <2>2
<1>6. CASE Approve(w)
  <2>1. CASE Return(w)
    BY <1>idle, <2>1
  <2>2. CASE ~Return(w)
    BY <1>6, <1>dom, <1>type, <1>conf, <2>2 DEF Approve, Goto, Keep, ReqType
  <2> QED
    BY <2>1, <2>2
<1>7. CASE Activate(w)
  <2>1. CASE Return(w)
    BY <1>idle, <2>1
  <2>2. CASE ~Return(w)
    BY <1>7, <1>dom, <1>type, <2>2 DEF Activate, ReqType
  <2> QED
    BY <2>1, <2>2
<1>8. CASE Hook(w)
  BY <1>8, <1>idle, <1>dom, <1>type DEF Hook, Goto, ReqType
<1>9. CASE Launch(w)
  BY <1>9, <1>idle, <1>dom, <1>type DEF Launch, ReqType
<1>10. CASE Cancel(w) \/ Clear(w)
  BY <1>10, <1>idle DEF Cancel, Clear
<1> QED
  BY <1>1, <1>2, <1>3, <1>4, <1>5, <1>6, <1>7, <1>8, <1>9, <1>10 DEF Work

\* A step of one request leaves the others alone.
LEMMA OneAtATime ==
    ASSUME TypeOK, NEW w \in Workers, Work(w), NEW v \in Workers \ {w}
    PROVE  req'[v] = req[v]
<1> USE DEF TypeOK, Return, Goto
<1>1. CASE Submit(w) BY <1>1 DEF Submit
<1>2. CASE Collect(w) BY <1>2 DEF Collect
<1>3. CASE Record(w) BY <1>3 DEF Record
<1>4. CASE Tally(w) BY <1>4 DEF Tally
<1>5. CASE Decide(w) BY <1>5 DEF Decide
<1>6. CASE Approve(w) BY <1>6 DEF Approve
<1>7. CASE Activate(w) BY <1>7 DEF Activate
<1>8. CASE Hook(w) BY <1>8 DEF Hook
<1>9. CASE Launch(w) BY <1>9 DEF Launch
<1>10. CASE Cancel(w) \/ Clear(w) BY <1>10 DEF Cancel, Clear
<1> QED
  BY <1>1, <1>2, <1>3, <1>4, <1>5, <1>6, <1>7, <1>8, <1>9, <1>10 DEF Work

\* A fresh request of a click on Approve is past the tally only when the order
\* has no level left to ask for.
LEMMA OpenIsLocal ==
    ASSUME IInv, NEW w \in Workers, NEW u \in Users,
           NEW a \in {"submit", "approve", "cancel", "clear"}, Open(w, u, a)
    PROVE  /\ \A v \in Workers : v # w => req'[v] = req[v]
           /\ Local(w)'
<1>1. req \in [Workers -> ReqType]
  BY DEF IInv, TypeOK
<1>2. /\ req'[w].act = a /\ req'[w].after = "tally"
      /\ req'[w].pc = CASE a # "approve" -> a
                        [] a = "approve" /\ IsMultilevel -> "collect"
                        [] OTHER -> "approve"
  BY <1>1 DEF Open
<1>3. \A v \in Workers : v # w => req'[v] = req[v]
  BY <1>1 DEF Open
<1>4. ClaimsAreOwned(w)' /\ OnlySubmitDecides(w)'
  BY <1>2 DEF ClaimsAreOwned, OnlySubmitDecides
<1>5. TallyHolds(w)'
  BY <1>2 DEF Open, TallyHolds, PastTally, IsMultilevel
<1> QED
  BY <1>3, <1>4, <1>5 DEF Local

\* Signing: only Record writes approver ids, and only those it may.
LEMMA GenuineKept == IInv /\ [Next]_vars => GenuineSignatures'
<1> SUFFICES ASSUME IInv, [Next]_vars PROVE GenuineSignatures'
  OBVIOUS
<1>1. conf' = conf
  BY SignedStays DEF IInv
<1>2. ASSUME NEW w \in Workers, Record(w) PROVE GenuineSignatures'
  <2>1. req[w].mine \subseteq Owned(req[w].user)
    BY <1>2 DEF IInv, Local, ClaimsAreOwned, Record
  <2>2. \A r \in req[w].mine : <<req[w].user, r>> \in conf.grms
    BY <2>1, OwnedAreHeld
  <2> QED
    BY <1>1, <1>2, <2>2 DEF IInv, GenuineSignatures, Record, Signed
<1>3. CASE level' = level
  BY <1>1, <1>3 DEF IInv, GenuineSignatures
<1>4. (\E w \in Workers : Record(w)) \/ level' = level
  BY DEF Next, Work, vars, Open, Submit, Collect, Tally, Decide, Approve,
     Activate, Hook, Launch, Cancel, Clear, Crash, OrderCompletes
<1> QED
  BY <1>2, <1>3, <1>4

LEMMA IInvInit == Init => IInv
<1> SUFFICES ASSUME Init PROVE IInv
  OBVIOUS
<1>1. TypeOK
  BY InitTyped
<1>2. GenuineSignatures
  BY DEF Init, GenuineSignatures
<1>3. \A w \in Workers : Local(w)
  BY DEF Init, Idle, Local, ClaimsAreOwned, OnlySubmitDecides, TallyHolds, PastTally
<1> QED
  BY <1>1, <1>2, <1>3 DEF IInv

LEMMA IInvStep == IInv /\ [Next]_vars => IInv'
<1> SUFFICES ASSUME IInv, [Next]_vars PROVE IInv'
  OBVIOUS
<1>1. TypeOK' /\ GenuineSignatures'
  BY StepTyped, GenuineKept DEF IInv
<1>2. ASSUME NEW v \in Workers PROVE Local(v)'
  <2>1. CASE req'[v] = req[v]
    BY <2>1, LocalStays DEF IInv
  <2>2. ASSUME NEW w \in Workers, Work(w) PROVE Local(v)'
    BY <2>1, <2>2, LocalKept, OneAtATime DEF IInv
  <2>3. ASSUME NEW w \in Workers, NEW u \in Users,
               NEW a \in {"submit", "approve", "cancel", "clear"}, Open(w, u, a)
        PROVE  Local(v)'
    BY <2>1, <2>3, OpenIsLocal
  <2>4. ASSUME NEW w \in Workers, Crash(w) PROVE Local(v)'
    <3>1. req'[w] = Idle /\ (v # w => req'[v] = req[v])
      BY <2>4 DEF IInv, TypeOK, Crash, Return
    <3> QED
      BY <2>1, <3>1, IdleIsLocal
  <2>5. CASE OrderCompletes \/ UNCHANGED vars
    BY <2>1, <2>5 DEF OrderCompletes, vars
  <2> QED
    BY <2>2, <2>3, <2>4, <2>5 DEF Next
<1> QED
  BY <1>1, <1>2 DEF IInv

\* Nobody signs for a role they do not hold, however many requests overlap and
\* wherever worker processes die.
THEOREM SignaturesAreGenuine == Spec => []GenuineSignatures
<1>1. IInv => GenuineSignatures
  BY DEF IInv
<1> QED
  BY IInvInit, IInvStep, <1>1, PTL DEF Spec

\* A step that takes a request from the quota check to the hook is Activate's,
\* and the order still has its items.
LEMMA StartIsActivate ==
    ASSUME TypeOK, [Next]_vars, NEW w \in Workers,
           req[w].pc = "activate", req'[w].pc = "hook"
    PROVE  items
<1>1. Idle.pc = "idle"
  BY DEF Idle
<1>2. req \in [Workers -> ReqType]
  BY DEF TypeOK
<1>3. req'[w] # req[w] /\ req'[w] # Idle
  BY <1>1
<1>4. ASSUME NEW v \in Workers, Work(v) PROVE items
  <2>1. v = w
    BY <1>3, <1>4, OneAtATime
  <2>2. Activate(w)
    BY <1>4, <2>1 DEF Work, Submit, Collect, Record, Tally, Decide, Approve,
       Hook, Launch, Cancel, Clear
  <2> QED
    BY <1>2, <1>3, <2>2 DEF Activate, Return
<1>5. ASSUME NEW v \in Workers, NEW u \in Users,
             NEW a \in {"submit", "approve", "cancel", "clear"}, Open(v, u, a)
      PROVE  FALSE
  <2>1. v # w
    BY <1>5 DEF Open
  <2> QED
    BY <1>2, <1>3, <1>5, <2>1 DEF Open
<1>6. ASSUME NEW v \in Workers, Crash(v) PROVE FALSE
  BY <1>2, <1>3, <1>6 DEF Crash, Return
<1>7. ~ (OrderCompletes \/ UNCHANGED vars)
  BY <1>3 DEF OrderCompletes, vars
<1> QED
  BY <1>4, <1>5, <1>6, <1>7 DEF Next

\* An order that somebody's click on Approve starts has every level signed.
THEOREM ViewStartsSignedOrders == Spec => ViewNeedsEveryLevel
<1> DEFINE Step == \A w \in Workers :
                     /\ req[w].act = "approve"
                     /\ req[w].pc = "activate" /\ req'[w].pc = "hook"
                     => \A r \in conf.levels : level[r] # NoUser
<1>1. IInv /\ [Next]_vars => Step
  <2> SUFFICES ASSUME IInv, [Next]_vars, NEW w \in Workers,
                      req[w].act = "approve",
                      req[w].pc = "activate", req'[w].pc = "hook"
               PROVE  \A r \in conf.levels : level[r] # NoUser
    OBVIOUS
  <2>1. items
    BY StartIsActivate DEF IInv
  <2> QED
    BY <2>1 DEF IInv, Local, TallyHolds, PastTally
<1>2. IInv /\ [Next]_vars => [Step]_vars
  BY <1>1
<1> QED
  BY IInvInit, IInvStep, <1>2, PTL DEF Spec, ViewNeedsEveryLevel
-----------------------------------------------------------------------------
(* Orders started by a submission *)

\* Only a click on Approve goes through the tally of modify().
OnlyViewTallies(w) ==
    \/ req[w].pc = "tally"
    \/ req[w].pc \in {"collect", "record"} /\ req[w].after = "tally"
    => req[w].act = "approve"

\* A submission that approves for the owner.
PastDecision(w) ==
    /\ req[w].act # "approve"
    /\ \/ req[w].pc \in {"approve", "activate"}
       \/ req[w].pc \in {"collect", "record"} /\ req[w].after = "activate"

\* What should_auto_approve found stays true, as long as there is something to start.
OwnerCounts ==
    conf.autoApproval \/ ~items \/ conf.levels = {} \/ HasAllApproverRoles(conf.owner)

\* Its second pass over the levels of the owner leaves none of them unsigned.
OwnerSigns(w) ==
    PastDecision(w) =>
      /\ req[w].act = "submit" /\ req[w].user = conf.owner /\ OwnerCounts
      /\ req[w].pc = "collect" => req[w].row.status = "PENDING"
      /\ req[w].pc = "record" => Unsigned(conf.owner) \subseteq req[w].mine
      /\ req[w].pc = "activate" => ~items \/ Unsigned(conf.owner) = {}

Decision(w) == OnlyViewTallies(w) /\ OwnerSigns(w)

DInv == IInv /\ \A w \in Workers : Decision(w)

\* What a request relies on does not go away.
LEMMA DecisionFacts ==
    ASSUME TypeOK, [Next]_vars
    PROVE  /\ conf' = conf /\ (items' => items) /\ (OwnerCounts => OwnerCounts')
           /\ Unsigned(conf.owner)' \subseteq Unsigned(conf.owner)
<1>1. /\ conf' = conf /\ (items' => items)
      /\ \A r \in Roles : level[r] # NoUser => level'[r] # NoUser
  BY SignedStays
<1>2. Owned(conf.owner)' = Owned(conf.owner)
  BY <1>1 DEF Owned, WithoutDefault, RolesOf
<1>3. HasAllApproverRoles(conf.owner)' = HasAllApproverRoles(conf.owner)
  BY <1>1, <1>2 DEF HasAllApproverRoles, NeededCount
<1>4. OwnerCounts => OwnerCounts'
  BY <1>1, <1>3 DEF OwnerCounts
<1>5. conf.levels \subseteq Roles
  BY ConfigsAreTyped DEF TypeOK, ConfigType
<1>6. Unsigned(conf.owner)' \subseteq Unsigned(conf.owner)
  BY <1>1, <1>2, <1>5 DEF Unsigned
<1> QED
  BY <1>1, <1>2, <1>4, <1>6

LEMMA DecisionStays ==
    ASSUME TypeOK, [Next]_vars, NEW v \in Workers, Decision(v), req'[v] = req[v]
    PROVE  Decision(v)'
<1>1. /\ conf' = conf /\ (items' => items) /\ (OwnerCounts => OwnerCounts')
      /\ Unsigned(conf.owner)' \subseteq Unsigned(conf.owner)
  BY DecisionFacts
<1>2. OnlyViewTallies(v)'
  BY DEF Decision, OnlyViewTallies
<1>3. PastDecision(v)' = PastDecision(v)
  BY DEF PastDecision
<1>4. OwnerSigns(v)'
  BY <1>1, <1>3 DEF Decision, OwnerSigns
<1> QED
  BY <1>2, <1>4 DEF Decision

LEMMA IdleIsDecided ==
    ASSUME NEW w \in Workers, req'[w] = Idle PROVE Decision(w)'
  BY DEF Idle, Decision, OnlyViewTallies, OwnerSigns, PastDecision

\* A request that is neither tallied nor past the decision relies on nothing.
LEMMA ElsewhereIsDecided ==
    ASSUME NEW w \in Workers,
           \/ req'[w].pc \in {"idle", "submit", "cancel", "clear", "decide", "hook", "jobs"}
           \/ req'[w].pc \in {"collect", "record"} /\ req'[w].after \in {"decide", "idle"}
           \/ req'[w].act = "approve"
    PROVE  Decision(w)'
  BY DEF Decision, OnlyViewTallies, OwnerSigns, PastDecision

LEMMA CollectDecided ==
    ASSUME DInv, [Next]_vars, NEW w \in Workers, Collect(w) PROVE Decision(w)'
<1>1. TypeOK /\ req \in [Workers -> ReqType] /\ req[w] \in ReqType /\ Decision(w)
  BY DEF DInv, IInv, TypeOK
<1>2. conf' = conf /\ items' = items /\ level' = level /\ req[w].pc = "collect"
  BY DEF Collect, Keep
<1>3. req[w].after = "tally" => req[w].act = "approve"
  BY <1>1, <1>2 DEF Decision, OnlyViewTallies
<1>4. CASE Return(w)
  BY <1>1, <1>4, IdleIsDecided DEF Return
<1>5. CASE req[w].row.status # "PENDING" /\ req' = [req EXCEPT ![w].pc = req[w].after]
  <2>1. req'[w].pc = req[w].after /\ req'[w].act = req[w].act
    BY <1>1, <1>5 DEF ReqType
  <2>2. req[w].act = "approve" \/ req[w].after # "activate"
    BY <1>1, <1>2, <1>5 DEF Decision, OwnerSigns, PastDecision
  <2>3. req[w].after \in {"idle", "tally", "decide", "activate"}
    BY <1>1 DEF ReqType, Afters
  <2> QED
    BY <1>3, <2>1, <2>2, <2>3, ElsewhereIsDecided
<1>6. ASSUME NEW s, req' = [req EXCEPT ![w].pc = "record", ![w].mine = s, ![w].after = "idle"]
      PROVE  Decision(w)'
  <2>1. req'[w].pc = "record" /\ req'[w].after = "idle"
    BY <1>1, <1>6 DEF ReqType
  <2> QED
    BY <2>1, ElsewhereIsDecided
<1>7. CASE req' = [req EXCEPT ![w].pc = "record", ![w].mine = Unsigned(req[w].user)]
  <2>1. /\ req'[w].pc = "record" /\ req'[w].after = req[w].after /\ req'[w].act = req[w].act
        /\ req'[w].user = req[w].user /\ req'[w].mine = Unsigned(req[w].user)
    BY <1>1, <1>7 DEF ReqType
  <2>2. CASE req[w].act = "approve" \/ req[w].after # "activate"
    <3>1. req[w].after \in {"idle", "tally", "decide", "activate"}
      BY <1>1 DEF ReqType, Afters
    <3> QED
      BY <1>3, <2>1, <2>2, <3>1, ElsewhereIsDecided
  <2>3. CASE req[w].act # "approve" /\ req[w].after = "activate"
    <3>1. req[w].act = "submit" /\ req[w].user = conf.owner /\ OwnerCounts
      BY <1>1, <1>2, <2>3 DEF Decision, OwnerSigns, PastDecision
    <3>2. OwnerCounts' /\ Unsigned(conf.owner)' \subseteq Unsigned(conf.owner) /\ conf' = conf
      BY <1>1, <3>1, DecisionFacts
    <3> QED
      BY <2>1, <2>3, <3>1, <3>2 DEF Decision, OnlyViewTallies, OwnerSigns
  <2> QED
    BY <2>2, <2>3
<1> QED
  BY <1>4, <1>5, <1>6, <1>7 DEF Collect

LEMMA RecordDecided ==
    ASSUME DInv, [Next]_vars, NEW w \in Workers, Record(w) PROVE Decision(w)'
<1>1. TypeOK /\ req \in [Workers -> ReqType] /\ req[w] \in ReqType /\ Decision(w)
  BY DEF DInv, IInv, TypeOK
<1>2. level' = Signed(w) /\ req[w].pc = "record"
  BY DEF Record
<1>3. CASE Return(w)
  BY <1>1, <1>3, IdleIsDecided DEF Return
<1>4. CASE req' = [req EXCEPT ![w].pc = req[w].after, ![w].mine = {}]
  <2>1. /\ req'[w].pc = req[w].after /\ req'[w].act = req[w].act
        /\ req'[w].user = req[w].user
        /\ req[w].after \in {"idle", "tally", "decide", "activate"}
    BY <1>1, <1>4 DEF ReqType, Afters
  <2>2. req[w].after = "tally" => req[w].act = "approve"
    BY <1>1, <1>2 DEF Decision, OnlyViewTallies
  <2>3. CASE req[w].act = "approve" \/ req[w].after # "activate"
    BY <2>1, <2>2, <2>3, ElsewhereIsDecided
  <2>4. CASE req[w].act # "approve" /\ req[w].after = "activate"
    <3>1. /\ req[w].act = "submit" /\ req[w].user = conf.owner /\ OwnerCounts
          /\ Unsigned(conf.owner) \subseteq req[w].mine
      BY <1>1, <1>2, <2>4 DEF Decision, OwnerSigns, PastDecision
    <3>2. OwnerCounts' /\ Unsigned(conf.owner)' \subseteq Unsigned(conf.owner) /\ conf' = conf
      BY <1>1, <3>1, DecisionFacts
    <3>3. conf.levels \subseteq Roles /\ req[w].user # NoUser
      BY <1>1, ConfigsAreTyped, NoUserIsNoUser DEF TypeOK, ConfigType, ReqType
    <3>4. \A r \in Unsigned(conf.owner) : level'[r] # NoUser
      BY <1>2, <3>1, <3>3 DEF Signed, Unsigned
    <3>5. \A r \in Unsigned(conf.owner)' : level'[r] = NoUser
      BY DEF Unsigned
    <3>6. Unsigned(conf.owner)' = {}
      BY <3>2, <3>4, <3>5
    <3> QED
      BY <2>1, <2>4, <3>1, <3>2, <3>6 DEF Decision, OnlyViewTallies, OwnerSigns
  <2> QED
    BY <2>3, <2>4
<1> QED
  BY <1>3, <1>4 DEF Record

LEMMA DecideDecided ==
    ASSUME DInv, [Next]_vars, NEW w \in Workers, Decide(w) PROVE Decision(w)'
<1>1. TypeOK /\ req \in [Workers -> ReqType] /\ req[w] \in ReqType /\ Local(w)
  BY DEF DInv, IInv, TypeOK
<1>2. CASE Return(w)
  BY <1>1, <1>2, IdleIsDecided DEF Return
<1>3. CASE ShouldAutoApprove(req[w].row) /\ req' = [req EXCEPT ![w].pc = "approve", ![w].user = conf.owner]
  <2>1. req'[w].pc = "approve" /\ req'[w].user = conf.owner /\ req'[w].act = req[w].act
    BY <1>1, <1>3 DEF ReqType
  <2>2. req[w].act = "submit"
    BY <1>1 DEF Decide, Local, OnlySubmitDecides
  <2>3. OwnerCounts
    BY <1>3 DEF ShouldAutoApprove, OwnerCounts, IsMultilevel
  <2>4. OwnerCounts' /\ conf' = conf
    BY <1>1, <2>3, DecisionFacts
  <2> QED
    BY <2>1, <2>2, <2>4 DEF Decision, OnlyViewTallies, OwnerSigns
<1> QED
  BY <1>2, <1>3 DEF Decide

LEMMA ApproveDecided ==
    ASSUME DInv, [Next]_vars, NEW w \in Workers, Approve(w) PROVE Decision(w)'
<1>1. TypeOK /\ req \in [Workers -> ReqType] /\ req[w] \in ReqType /\ Decision(w)
  BY DEF DInv, IInv, TypeOK
<1>2. req[w].pc = "approve" /\ conf' = conf /\ items' = items
  BY DEF Approve, Keep
<1>3. CASE Return(w)
  BY <1>1, <1>3, IdleIsDecided DEF Return
<1>4. CASE req[w].act = "approve"
  <2>1. Return(w) \/ req'[w].act = "approve"
    BY <1>1, <1>4 DEF Approve, Goto, ReqType
  <2> QED
    BY <1>3, <2>1, ElsewhereIsDecided
<1>5. ASSUME req[w].act # "approve", ~Return(w) PROVE Decision(w)'
  <2>1. req[w].act = "submit" /\ req[w].user = conf.owner /\ OwnerCounts
    BY <1>1, <1>2, <1>5 DEF Decision, OwnerSigns, PastDecision
  <2>2. OwnerCounts' /\ Unsigned(conf.owner)' \subseteq Unsigned(conf.owner)
    BY <1>1, <2>1, DecisionFacts
  <2>3. req[w].row.status = "PENDING"
    BY <1>5 DEF Approve
  <2>4. CASE IsMultilevel
    <3>1. req' = [req EXCEPT ![w].pc = "collect", ![w].after = "activate"]
      BY <1>5, <2>3, <2>4 DEF Approve
    <3>2. /\ req'[w].pc = "collect" /\ req'[w].after = "activate" /\ req'[w].act = req[w].act
          /\ req'[w].user = req[w].user /\ req'[w].row = req[w].row
      BY <1>1, <3>1 DEF ReqType
    <3> QED
      BY <1>2, <2>1, <2>2, <2>3, <3>2 DEF Decision, OnlyViewTallies, OwnerSigns
  <2>5. CASE ~IsMultilevel
    <3>1. req' = [req EXCEPT ![w].pc = "activate"]
      BY <1>5, <2>3, <2>5 DEF Approve, Goto
    <3>2. req'[w].pc = "activate" /\ req'[w].act = req[w].act /\ req'[w].user = req[w].user
      BY <1>1, <3>1 DEF ReqType
    <3>3. ~items \/ Unsigned(conf.owner) = {}
      BY <2>5 DEF IsMultilevel, Unsigned
    <3>4. ~items' \/ Unsigned(conf.owner)' = {}
      BY <1>2, <2>2, <3>3
    <3> QED
      BY <1>2, <2>1, <2>2, <3>2, <3>4 DEF Decision, OnlyViewTallies, OwnerSigns
  <2> QED
    BY <2>4, <2>5
<1> QED
  BY <1>3, <1>4, <1>5

LEMMA WorkDecided ==
    ASSUME DInv, [Next]_vars, NEW w \in Workers, Work(w) PROVE Decision(w)'
<1>1. TypeOK /\ req \in [Workers -> ReqType] /\ req[w] \in ReqType /\ Decision(w)
  BY DEF DInv, IInv, TypeOK
<1>2. ASSUME Return(w) PROVE Decision(w)'
  BY <1>1, <1>2, IdleIsDecided DEF Return
<1>3. CASE Submit(w)
  <2>1. \/ Return(w)
        \/ req'[w].pc \in {"collect", "decide"} /\ req'[w].after = "decide"
    BY <1>1, <1>3 DEF Submit, ReqType
  <2> QED
    BY <1>2, <2>1, ElsewhereIsDecided
<1>4. CASE Tally(w)
  <2>1. req[w].act = "approve"
    BY <1>1, <1>4 DEF Tally, Decision, OnlyViewTallies
  <2>2. Return(w) \/ req'[w].act = "approve"
    BY <1>1, <1>4, <2>1 DEF Tally, Goto, ReqType
  <2> QED
    BY <1>2, <2>2, ElsewhereIsDecided
<1>5. CASE Activate(w) \/ Hook(w) \/ Launch(w)
  <2>1. Return(w) \/ req'[w].pc \in {"hook", "jobs"}
    <3>1. CASE Activate(w)
      BY <1>1, <3>1 DEF Activate, ReqType
    <3>2. CASE Hook(w)
      BY <1>1, <3>2 DEF Hook, Goto, ReqType
    <3>3. CASE Launch(w)
      BY <1>1, <3>3 DEF Launch, ReqType
    <3> QED
      BY <1>5, <3>1, <3>2, <3>3
  <2> QED
    BY <1>2, <2>1, ElsewhereIsDecided
<1>6. CASE Cancel(w) \/ Clear(w)
  BY <1>2, <1>6 DEF Cancel, Clear
<1> QED
  BY <1>3, <1>4, <1>5, <1>6, CollectDecided, RecordDecided, DecideDecided, ApproveDecided DEF Work

LEMMA OpenDecided ==
    ASSUME DInv, NEW w \in Workers, NEW u \in Users,
           NEW a \in {"submit", "approve", "cancel", "clear"}, Open(w, u, a)
    PROVE  Decision(w)'
<1>1. /\ req'[w].act = a
      /\ req'[w].pc = CASE a # "approve" -> a
                        [] a = "approve" /\ IsMultilevel -> "collect"
                        [] OTHER -> "approve"
  BY DEF Open, DInv, IInv, TypeOK
<1>2. CASE a = "approve"
  BY <1>1, <1>2, ElsewhereIsDecided
<1>3. CASE a # "approve"
  BY <1>1, <1>3, ElsewhereIsDecided
<1> QED
  BY <1>2, <1>3

LEMMA DInvInit == Init => DInv
<1> SUFFICES ASSUME Init PROVE DInv
  OBVIOUS
<1>1. \A w \in Workers : Decision(w)
  BY DEF Init, Idle, Decision, OnlyViewTallies, OwnerSigns, PastDecision
<1> QED
  BY <1>1, IInvInit DEF DInv

LEMMA DInvStep == DInv /\ [Next]_vars => DInv'
<1> SUFFICES ASSUME DInv, [Next]_vars PROVE DInv'
  OBVIOUS
<1>1. IInv /\ IInv' /\ TypeOK
  BY IInvStep DEF DInv, IInv
<1>2. ASSUME NEW v \in Workers PROVE Decision(v)'
  <2>1. CASE req'[v] = req[v]
    BY <1>1, <2>1, DecisionStays DEF DInv
  <2>2. ASSUME NEW w \in Workers, Work(w) PROVE Decision(v)'
    BY <1>1, <2>1, <2>2, WorkDecided, OneAtATime
  <2>3. ASSUME NEW w \in Workers, NEW u \in Users,
               NEW a \in {"submit", "approve", "cancel", "clear"}, Open(w, u, a)
        PROVE  Decision(v)'
    <3>1. v # w => req'[v] = req[v]
      BY <1>1, <2>3, OpenIsLocal
    <3>2. CASE v = w
      BY <2>3, <3>2, OpenDecided
    <3> QED
      BY <2>1, <3>1, <3>2
  <2>4. ASSUME NEW w \in Workers, Crash(w) PROVE Decision(v)'
    <3>1. req'[w] = Idle /\ (v # w => req'[v] = req[v])
      BY <1>1, <2>4 DEF TypeOK, Crash, Return
    <3> QED
      BY <2>1, <3>1, IdleIsDecided
  <2>5. CASE OrderCompletes \/ UNCHANGED vars
    BY <2>1, <2>5 DEF OrderCompletes, vars
  <2> QED
    BY <2>2, <2>3, <2>4, <2>5 DEF Next
<1> QED
  BY <1>1, <1>2 DEF DInv

\* "Cannot fully approve this order.  Multilevel approvals not complete."
\* (models.py:228) fails in one way only, however requests overlap: the order was
\* submitted, and has_all_approver_roles counts as many roles of its owner as the
\* group has, although the role of the unsigned level is not among them.
THEOREM UnsignedStartsAreMiscounted ==
    Spec => [][\A w \in Workers :
                 req[w].pc = "activate" /\ req'[w].pc = "hook" /\ ~conf.autoApproval
                 => \A r \in conf.levels : level[r] = NoUser =>
                      /\ req[w].act = "submit" /\ HasAllApproverRoles(conf.owner)
                      /\ r \notin Owned(conf.owner)]_vars
<1> DEFINE Step == \A w \in Workers :
                     req[w].pc = "activate" /\ req'[w].pc = "hook" /\ ~conf.autoApproval
                     => \A r \in conf.levels : level[r] = NoUser =>
                          /\ req[w].act = "submit" /\ HasAllApproverRoles(conf.owner)
                          /\ r \notin Owned(conf.owner)
<1>1. DInv /\ [Next]_vars => [Step]_vars
  <2> SUFFICES ASSUME DInv, [Next]_vars, NEW w \in Workers,
                      req[w].pc = "activate", req'[w].pc = "hook", ~conf.autoApproval,
                      NEW r \in conf.levels, level[r] = NoUser
               PROVE  /\ req[w].act = "submit" /\ HasAllApproverRoles(conf.owner)
                      /\ r \notin Owned(conf.owner)
    OBVIOUS
  <2>1. items
    BY StartIsActivate DEF DInv, IInv
  <2>2. req[w].act # "approve"
    BY <2>1 DEF DInv, IInv, Local, TallyHolds, PastTally
  <2>3. req[w].act = "submit" /\ OwnerCounts /\ Unsigned(conf.owner) = {}
    BY <2>1, <2>2 DEF DInv, Decision, OwnerSigns, PastDecision
  <2> QED
    BY <2>1, <2>3 DEF OwnerCounts, Unsigned
<1> QED
  BY DInvInit, DInvStep, <1>1, PTL DEF Spec
-----------------------------------------------------------------------------
(* While requests do not overlap *)

\* Nothing is launched for an order nobody has started, nor more than it calls
\* for.
JobsInBounds ==
    /\ order.status \in {"CART", "PENDING"} => jobs = 0
    /\ jobs <= Quantity

\* The one request that is served works on what the row says; past the guard
\* of approve() the order is pending, past the quota check it is active.
InStep(w) ==
    /\ req[w].row = order
    /\ \/ req[w].pc = "activate"
       \/ req[w].pc \in {"collect", "record"} /\ req[w].after = "activate"
       => order.status = "PENDING"
    /\ req[w].pc \in {"hook", "jobs"} => order.status = "ACTIVE"

\* What it has still to launch was not launched yet.
JobsAhead(w) ==
    /\ req[w].pc = "hook" => jobs = 0
    /\ req[w].pc = "jobs" => jobs + req[w].todo <= Quantity

\* What it is about to sign is unsigned.
SignsUnsigned(w) ==
    req[w].pc = "record" => \A r \in req[w].mine : level[r] = NoUser

Serial(w) ==
    /\ \A v \in Workers : Busy(v) => v = w
    /\ InStep(w) /\ JobsAhead(w) /\ SignsUnsigned(w)

SerialInv ==
    ~overlapped => JobsInBounds /\ \A w \in Workers : Busy(w) => Serial(w)

\* What a step of the one request served owes: the rest of its invariant, a
\* step of the contract, and the signatures that were there.
SerialStep(w) ==
    /\ JobsInBounds'
    /\ Busy(w)' => (InStep(w) /\ JobsAhead(w) /\ SignsUnsigned(w))'
    /\ Contract!Next \/ UNCHANGED <<order.status, jobs>>
    /\ \A r \in Roles : level[r] # NoUser => level'[r] = level[r]

\* A step that ends the request, or moves it on without a write, owes little.
LEMMA QuietStep ==
    ASSUME TypeOK, NEW w \in Workers, JobsInBounds,
           UNCHANGED <<order, jobs, level>>,
           Busy(w)' => (InStep(w) /\ JobsAhead(w) /\ SignsUnsigned(w))'
    PROVE  SerialStep(w)
  BY DEF SerialStep, JobsInBounds

LEMMA ReturnIsIdle ==
    ASSUME TypeOK, NEW w \in Workers, Return(w)
    PROVE  ~Busy(w)'
  BY DEF TypeOK, Return, Idle, Busy

LEMMA QuietReturn ==
    ASSUME TypeOK, NEW w \in Workers, JobsInBounds, Return(w),
           UNCHANGED <<order, jobs, level>>
    PROVE  SerialStep(w)
  BY ReturnIsIdle, QuietStep

\* The last write of a request that ends: one step of the contract.
LEMMA LastWrite ==
    ASSUME TypeOK, NEW w \in Workers, JobsInBounds, Return(w), order' \in RowType,
           UNCHANGED <<jobs, level>>,
           \/ order'.status = order.status
           \/ order.status = "PENDING" /\ order'.status = "SUCCESS"
           \/ order.status = "ACTIVE" /\ order'.status \in {"SUCCESS", "FAILURE"}
           \/ order.status \in {"CART", "PENDING"} /\ order'.status \in {"CANCELED"}
           \/ order.status = "CART" /\ order'.status = "PENDING"
    PROVE  SerialStep(w)
<1>1. ~Busy(w)'
  BY ReturnIsIdle
<1>2. JobsInBounds'
  BY DEF JobsInBounds
<1>3. Contract!Next \/ UNCHANGED <<order.status, jobs>>
  BY DEF Contract!Next, Contract!Decide, Contract!End, Contract!Withdraw, Contract!Submit
<1> QED
  BY <1>1, <1>2, <1>3 DEF SerialStep

LEMMA SerialWork ==
    ASSUME TypeOK, ~overlapped, JobsInBounds, NEW w \in Workers, Serial(w), Work(w)
    PROVE  SerialStep(w)
<1>type. /\ req \in [Workers -> ReqType] /\ req[w] \in ReqType
         /\ req[w].row = order /\ order \in RowType /\ jobs \in Nat
         /\ req[w].todo \in Nat /\ req[w].todo <= Quantity
  BY MaxJobsIsNat, QuantityIsNat DEF TypeOK, ReqType, Serial, InStep
<1> USE DEF Busy, InStep, JobsAhead, SignsUnsigned
<1>1. CASE Submit(w)
  <2> DEFINE row == [req[w].row EXCEPT !.status = "PENDING"]
  <2>1. CASE UNCHANGED order /\ Return(w)
    BY <1>1, <2>1, QuietReturn DEF Submit
  <2>2. CASE req[w].row.status = "CART" /\ order' = row /\ Return(w)
    <3>1. row \in RowType /\ row.status = "PENDING" /\ order.status = "CART"
      BY <1>type, <2>2 DEF RowType
    <3> QED
      BY <1>1, <2>2, <3>1, LastWrite DEF Submit
  <2>3. CASE /\ req[w].row.status = "CART" /\ order' = row
             /\ req' = [req EXCEPT ![w].row = row, ![w].after = "decide",
                              ![w].pc = IF IsMultilevel THEN "collect" ELSE "decide"]
    <3>1. row \in RowType /\ row.status = "PENDING" /\ order.status = "CART"
      BY <1>type, <2>3 DEF RowType
    <3>2. /\ req'[w].row = row /\ req'[w].pc \in {"collect", "decide"}
          /\ req'[w].after = "decide"
      BY <1>type, <2>3 DEF ReqType
    <3>3. jobs' = jobs /\ level' = level
      BY <1>1 DEF Submit
    <3>4. Contract!Next
      BY <2>3, <3>1, <3>3 DEF Contract!Next, Contract!Submit
    <3> QED
      BY <2>3, <3>1, <3>2, <3>3, <3>4 DEF SerialStep, JobsInBounds
  <2> QED
    BY <1>1, <2>1, <2>2, <2>3 DEF Submit, Save
<1>2. CASE Collect(w)
  <2>0. UNCHANGED <<order, jobs, level>>
    BY <1>2 DEF Collect
  <2>1. CASE Return(w)
    BY <2>0, <2>1, QuietReturn
  <2>2. CASE req[w].row.status # "PENDING" /\ req' = [req EXCEPT ![w].pc = req[w].after]
    <3>1. req'[w].row = order /\ req'[w].pc = req[w].after /\ req[w].after \in Afters
      BY <1>type, <2>2 DEF ReqType
    <3>2. req[w].after # "activate"
      BY <1>2, <1>type, <2>2 DEF Collect, Serial
    <3> QED
      BY <2>0, <3>1, <3>2, QuietStep
  <2>3. ASSUME NEW s \in SUBSET Unsigned(req[w].user), NEW a \in {"idle", req[w].after},
               req[w].row.status = "PENDING", req'[w].row = req[w].row,
               req'[w].pc = "record", req'[w].mine = s, req'[w].after = a
        PROVE  SerialStep(w)
    BY <1>type, <2>0, <2>3, QuietStep DEF Unsigned
  <2>4. ASSUME NEW s \in SUBSET Unsigned(req[w].user), req[w].row.status = "PENDING",
               req' = [req EXCEPT ![w].pc = "record", ![w].mine = s, ![w].after = "idle"]
        PROVE  SerialStep(w)
    <3>1. /\ req'[w].row = req[w].row /\ req'[w].pc = "record" /\ req'[w].mine = s
          /\ req'[w].after = "idle"
      BY <1>type, <2>4 DEF ReqType
    <3> QED
      BY <2>3, <2>4, <3>1
  <2>5. ASSUME req[w].row.status = "PENDING",
               req' = [req EXCEPT ![w].pc = "record", ![w].mine = Unsigned(req[w].user)]
        PROVE  SerialStep(w)
    <3>1. /\ req'[w].row = req[w].row /\ req'[w].pc = "record"
          /\ req'[w].mine = Unsigned(req[w].user) /\ req'[w].after = req[w].after
      BY <1>type, <2>5 DEF ReqType
    <3> QED
      BY <2>3, <2>5, <3>1
  <2> QED
    BY <1>2, <2>1, <2>2, <2>4, <2>5 DEF Collect
<1>3. CASE Record(w)
  <2>1. \A r \in Roles : level[r] # NoUser => level'[r] = level[r]
    BY <1>3 DEF Record, Signed, Serial
  <2>2. order' = order /\ jobs' = jobs
    BY <1>3 DEF Record
  <2>3. CASE Return(w)
    BY <2>1, <2>2, <2>3, ReturnIsIdle DEF SerialStep, JobsInBounds
  <2>4. CASE req' = [req EXCEPT ![w].pc = req[w].after, ![w].mine = {}]
    <3>1. req'[w].row = req[w].row /\ req'[w].pc = req[w].after /\ req[w].after \in Afters
      BY <1>type, <2>4 DEF ReqType
    <3>2. req[w].after = "activate" => order.status = "PENDING"
      BY <1>3 DEF Record, Serial
    <3> QED
      BY <1>type, <2>1, <2>2, <3>1, <3>2 DEF SerialStep, JobsInBounds
  <2> QED
    BY <1>3, <2>3, <2>4 DEF Record
<1>4. CASE Tally(w) \/ Decide(w)
  <2>0. UNCHANGED <<order, jobs, level>>
    BY <1>4 DEF Tally, Decide
  <2>1. CASE Return(w)
    BY <2>0, <2>1, QuietReturn
  <2>2. CASE ~Return(w)
    <3>1. req'[w].row = req[w].row /\ req'[w].pc = "approve"
      BY <1>4, <1>type, <2>2 DEF Tally, Decide, Goto, ReqType
    <3> QED
      BY <1>type, <2>0, <3>1, QuietStep
  <2> QED
    BY <2>1, <2>2
<1>5. CASE Approve(w)
  <2>0. UNCHANGED <<order, jobs, level>>
    BY <1>5 DEF Approve
  <2>1. CASE Return(w)
    BY <2>0, <2>1, QuietReturn
  <2>2. CASE ~Return(w)
    <3>1. /\ req'[w].row = req[w].row /\ req'[w].pc \in {"collect", "activate"}
          /\ req[w].row.status = "PENDING"
      BY <1>5, <1>type, <2>2 DEF Approve, Goto, ReqType
    <3> QED
      BY <1>type, <2>0, <3>1, QuietStep
  <2> QED
    BY <2>1, <2>2
<1>6. CASE Activate(w)
  <2>0. jobs' = jobs /\ level' = level /\ order.status = "PENDING"
    BY <1>6 DEF Activate, Serial
  <2>1. CASE Return(w) /\ UNCHANGED order
    BY <2>0, <2>1, QuietReturn
  <2>2. CASE Return(w) /\ order' = [req[w].row EXCEPT !.status = "SUCCESS"]
    <3>1. order' \in RowType /\ order'.status = "SUCCESS"
      BY <1>type, <2>2 DEF RowType
    <3> QED
      BY <2>0, <2>2, <3>1, LastWrite
  <2>3. ASSUME NEW legal \in 0..Quantity, NEW row,
               row = [req[w].row EXCEPT !.status = "ACTIVE"], order' = row,
               req' = [req EXCEPT ![w].pc = "hook", ![w].row = row, ![w].todo = legal]
        PROVE  SerialStep(w)
    <3>1. row.status = "ACTIVE" /\ req'[w].row = row /\ req'[w].pc = "hook"
      BY <1>type, <2>3 DEF ReqType, RowType
    <3>2. Contract!Next
      BY <2>0, <2>3, <3>1 DEF Contract!Next, Contract!Decide
    <3> QED
      BY <1>type, <2>0, <2>3, <3>1, <3>2, QuantityIsNat DEF SerialStep, JobsInBounds
  <2> QED
    BY <1>6, <2>1, <2>2, <2>3 DEF Activate, Save
<1>7. CASE Hook(w)
  <2>0. jobs' = jobs /\ level' = level /\ order.status = "ACTIVE" /\ jobs = 0
    BY <1>7 DEF Hook, Serial
  <2>1. CASE Goto(w, "jobs") /\ UNCHANGED order
    <3>1. req'[w].row = req[w].row /\ req'[w].pc = "jobs" /\ req'[w].todo = req[w].todo
      BY <1>type, <2>1 DEF Goto, ReqType
    <3> QED
      BY <1>type, <2>0, <2>1, <3>1, QuietStep
  <2>2. CASE Return(w) /\ order' = [req[w].row EXCEPT !.status = "FAILURE"]
    <3>1. order' \in RowType /\ order'.status = "FAILURE"
      BY <1>type, <2>2 DEF RowType
    <3> QED
      BY <2>0, <2>2, <3>1, LastWrite
  <2> QED
    BY <1>7, <2>1, <2>2 DEF Hook, Save
<1>8. CASE Launch(w)
  <2>0. level' = level /\ order.status = "ACTIVE" /\ jobs + req[w].todo <= Quantity
    BY <1>8 DEF Launch, Serial
  <2>1. CASE req[w].todo > 0 /\ jobs' = jobs + 1 /\ UNCHANGED order
    <3>1. jobs < Quantity /\ jobs' <= Quantity
      BY <1>type, <2>0, <2>1, QuantityIsNat
    <3>2. Contract!Next
      BY <2>0, <2>1, <3>1 DEF Contract!Next, Contract!Launch
    <3>3. JobsInBounds'
      BY <2>0, <2>1, <3>1 DEF JobsInBounds
    <3>4. CASE Return(w)
      BY <2>0, <3>2, <3>3, <3>4, ReturnIsIdle DEF SerialStep
    <3>5. CASE ~Return(w)
      <4>1. /\ req'[w].row = req[w].row /\ req'[w].pc = "jobs"
            /\ req'[w].todo = req[w].todo - 1
        BY <1>8, <1>type, <2>1, <3>5 DEF Launch, ReqType
      <4>2. jobs' + req'[w].todo <= Quantity
        BY <1>type, <2>0, <2>1, <4>1, QuantityIsNat
      <4> QED
        BY <1>type, <2>0, <2>1, <3>2, <3>3, <4>1, <4>2 DEF SerialStep
    <3> QED
      BY <3>4, <3>5
  <2>2. CASE Return(w) /\ order' = [req[w].row EXCEPT !.status = "SUCCESS"] /\ jobs' = jobs
    <3>1. order' \in RowType /\ order'.status = "SUCCESS"
      BY <1>type, <2>2 DEF RowType
    <3> QED
      BY <2>0, <2>2, <3>1, LastWrite
  <2> QED
    BY <1>8, <2>1, <2>2 DEF Launch, Save
<1>9. CASE Cancel(w)
  <2>0. jobs' = jobs /\ level' = level /\ Return(w)
    BY <1>9 DEF Cancel
  <2>1. CASE UNCHANGED order
    BY <2>0, <2>1, QuietReturn
  <2>2. CASE /\ order' = [req[w].row EXCEPT !.status = "CANCELED"]
             /\ req[w].row.status \in {"CART", "PENDING"}
    <3>1. order' \in RowType /\ order'.status = "CANCELED"
      BY <1>type, <2>2 DEF RowType
    <3> QED
      BY <1>type, <2>0, <2>2, <3>1, LastWrite
  <2> QED
    BY <1>9, <2>1, <2>2 DEF Cancel, Save
<1>10. CASE Clear(w)
  <2>1. order' \in RowType /\ order'.status = order.status
    BY <1>10, <1>type DEF Clear, Save, RowType
  <2> QED
    BY <1>10, <2>1, LastWrite DEF Clear
<1> QED
  BY <1>1, <1>2, <1>3, <1>4, <1>5, <1>6, <1>7, <1>8, <1>9, <1>10 DEF Work

\* A request that opens alone finds what the row says.
LEMMA SerialOpen ==
    ASSUME TypeOK, SerialInv, NEW w \in Workers, NEW u \in Users,
           NEW a \in {"submit", "approve", "cancel", "clear"}, Open(w, u, a),
           ~overlapped'
    PROVE  SerialInv' /\ UNCHANGED <<order, jobs, level>>
<1>1. req \in [Workers -> ReqType]
  BY DEF TypeOK
<1>2. /\ req'[w].row = order /\ req'[w].after = "tally"
      /\ req'[w].pc \in {"submit", "cancel", "clear", "collect", "approve"}
  BY <1>1 DEF Open
<1>3. \A v \in Workers : v # w => req'[v] = req[v] /\ ~Busy(v)
  BY <1>1 DEF Open
<1>4. \A v \in Workers : Busy(v)' => v = w
  BY <1>3 DEF Busy
<1>5. UNCHANGED <<order, jobs, level>> /\ ~overlapped
  BY DEF Open
<1>6. JobsInBounds'
  BY <1>5 DEF SerialInv, JobsInBounds
<1>7. Serial(w)'
  BY <1>2, <1>4, <1>5 DEF Serial, InStep, JobsAhead, SignsUnsigned
<1> QED
  BY <1>4, <1>5, <1>6, <1>7 DEF SerialInv

\* Only a request that is served works, and its steps open no other.
LEMMA WorkIsBusy ==
    ASSUME NEW w \in Workers, Work(w)
    PROVE  Busy(w) /\ overlapped' = overlapped
<1> USE DEF Keep, Busy
<1>1. CASE Submit(w) BY <1>1 DEF Submit
<1>2. CASE Collect(w) BY <1>2 DEF Collect
<1>3. CASE Record(w) BY <1>3 DEF Record
<1>4. CASE Tally(w) BY <1>4 DEF Tally
<1>5. CASE Decide(w) BY <1>5 DEF Decide
<1>6. CASE Approve(w) BY <1>6 DEF Approve
<1>7. CASE Activate(w) BY <1>7 DEF Activate
<1>8. CASE Hook(w) BY <1>8 DEF Hook
<1>9. CASE Launch(w) BY <1>9 DEF Launch
<1>10. CASE Cancel(w) BY <1>10 DEF Cancel
<1>11. CASE Clear(w) BY <1>11 DEF Clear
<1> QED
  BY <1>1, <1>2, <1>3, <1>4, <1>5, <1>6, <1>7, <1>8, <1>9, <1>10, <1>11 DEF Work

\* Every step taken while requests have not overlapped.
LEMMA SerialNext ==
    ASSUME TypeOK, SerialInv, [Next]_vars, ~overlapped'
    PROVE  /\ SerialInv'
           /\ Contract!Next \/ UNCHANGED <<order.status, jobs>>
           /\ \A r \in Roles : level[r] # NoUser => level'[r] = level[r]
<1>1. ASSUME NEW w \in Workers, Work(w)
      PROVE  /\ SerialInv'
             /\ Contract!Next \/ UNCHANGED <<order.status, jobs>>
             /\ \A r \in Roles : level[r] # NoUser => level'[r] = level[r]
  <2>1. ~overlapped /\ Busy(w)
    BY <1>1, WorkIsBusy
  <2>2. JobsInBounds /\ Serial(w)
    BY <2>1 DEF SerialInv
  <2>3. SerialStep(w)
    BY <1>1, <2>1, <2>2, SerialWork
  <2>4. \A v \in Workers : Busy(v)' => v = w
    BY <1>1, <2>2, OneAtATime DEF Serial, Busy
  <2> QED
    BY <2>3, <2>4 DEF SerialInv, SerialStep, Serial
<1>2. ASSUME NEW w \in Workers, Crash(w)
      PROVE  SerialInv' /\ UNCHANGED <<order, jobs, level>>
  <2>1. ~overlapped /\ Busy(w) /\ Return(w) /\ UNCHANGED <<order, jobs, level>>
    BY <1>2 DEF Crash, Keep, Busy
  <2>2. \A v \in Workers : ~Busy(v)'
    BY <2>1, ReturnIsIdle DEF SerialInv, Serial, Return, Busy, TypeOK
  <2> QED
    BY <2>1, <2>2 DEF SerialInv, JobsInBounds
<1>3. ASSUME OrderCompletes
      PROVE  SerialInv' /\ Contract!Next /\ UNCHANGED level
  <2>1. \A w \in Workers : ~Busy(w) /\ ~Busy(w)'
    BY <1>3 DEF OrderCompletes, Busy
  <2>2. /\ order'.status \in {"SUCCESS", "FAILURE"} /\ order.status = "ACTIVE"
        /\ jobs' = jobs /\ level' = level /\ ~overlapped
    BY <1>3 DEF OrderCompletes, TypeOK, RowType
  <2> QED
    BY <2>1, <2>2 DEF SerialInv, JobsInBounds, Contract!Next, Contract!End
<1>4. CASE UNCHANGED vars
  BY <1>4 DEF vars, SerialInv, JobsInBounds, Serial, InStep, JobsAhead,
     SignsUnsigned, Busy
<1> QED
  BY <1>1, <1>2, <1>3, <1>4, SerialOpen DEF Next

LEMMA SerialInit == Init => SerialInv
<1> SUFFICES ASSUME Init PROVE SerialInv
  OBVIOUS
<1>1. \A w \in Workers : ~Busy(w)
  BY DEF Init, Idle, Busy
<1> QED
  BY <1>1, QuantityIsNat DEF Init, SerialInv, JobsInBounds

LEMMA SerialInvStep == TypeOK /\ SerialInv /\ [Next]_vars => SerialInv'
  BY SerialNext DEF SerialInv

LEMMA SerialInvHolds == Spec => [](TypeOK /\ SerialInv)
<1>1. TypeOK /\ SerialInv /\ [Next]_vars => (TypeOK /\ SerialInv)'
  BY SerialInvStep, StepTyped
<1> QED
  BY InitTyped, SerialInit, <1>1, PTL DEF Spec

\* While requests do not overlap, nobody's signature is replaced.
THEOREM SerialRequestsKeepSignatures == Spec => SerialSignaturesStand
<1> DEFINE Step == ~overlapped' => \A r \in Roles : level[r] # NoUser => level'[r] = level[r]
<1>1. TypeOK /\ SerialInv /\ [Next]_vars => [Step]_vars
  BY SerialNext
<1> QED
  BY SerialInvHolds, <1>1, PTL DEF Spec, SerialSignaturesStand

\* While requests do not overlap, the order starts where the contract starts and
\* each step is one of the contract's, or leaves status and jobs alone: approve()
\* decides a pending order once and launches at most the jobs it calls for.
THEOREM SerialRequestsKeepTheContract == Spec => SerialContract
<1> DEFINE Step == ~overlapped' => Contract!Next \/ UNCHANGED <<order.status, jobs>>
<1>1. Init => Contract!Init
  BY DEF Init, Contract!Init
<1>2. TypeOK /\ SerialInv /\ [Next]_vars => [Step]_vars
  BY SerialNext
<1> QED
  BY SerialInvHolds, <1>1, <1>2, PTL DEF Spec, SerialContract

\* So no job is created twice: an order never has more jobs than it calls for
\* and none before it is started, wherever a worker dies between two jobs.
THEOREM SerialRequestsLaunchOnce == Spec => [](~overlapped => JobsInBounds)
<1>1. SerialInv => (~overlapped => JobsInBounds)
  BY DEF SerialInv
<1> QED
  BY SerialInvHolds, <1>1, PTL
-----------------------------------------------------------------------------
(* The contract, and the behaviours that implement it *)

\* What the contract gives: no job before the order is started or once it was
\* withdrawn, and no more jobs than it calls for.
JobsOfContract ==
    /\ jobs \in Nat /\ jobs <= Quantity
    /\ order.status \in {"CART", "PENDING", "CANCELED"} => jobs = 0

EndedStays == order.status \in Contract!Ended => UNCHANGED <<order.status, jobs>>

\* An order that keeps the contract is never given too many jobs.
THEOREM ContractBoundsJobs == Contract!Spec => []JobsOfContract
<1>1. Contract!Init => JobsOfContract
  BY QuantityIsNat DEF Contract!Init, JobsOfContract
<1>2. JobsOfContract /\ [Contract!Next]_<<order.status, jobs>> => JobsOfContract'
  BY QuantityIsNat
  DEF JobsOfContract, Contract!Next, Contract!Submit, Contract!Decide, Contract!Launch, Contract!End,
      Contract!Withdraw
<1> QED
  BY <1>1, <1>2, PTL DEF Contract!Spec, Contract!contract

\* An order that keeps the contract ends once: neither its status nor its jobs change
\* any more.
THEOREM ContractEndsOnce == Contract!Spec => [][EndedStays]_<<order.status, jobs>>
<1>1. [Contract!Next]_<<order.status, jobs>> => [EndedStays]_<<order.status, jobs>>
  BY DEF EndedStays, Contract!Ended, Contract!Next, Contract!Submit, Contract!Decide, Contract!Launch,
     Contract!End, Contract!Withdraw
<1> QED
  BY <1>1, PTL DEF Contract!Spec, Contract!contract

\* The requests of an order, served one after the other.
SerialSpec == Init /\ [][Next /\ ~overlapped']_vars

\* The multilevel approval of one order implements the contract when its requests are
\* served one after the other, whatever they are and wherever their workers die.
THEOREM SerialImplementsContract == SerialSpec => Contract!Spec
<1>1. Init => Contract!Init
  BY DEF Init, Contract!Init
<1>2. TypeOK /\ SerialInv /\ [Next /\ ~overlapped']_vars => [Contract!Next]_<<order.status, jobs>>
  <2> SUFFICES ASSUME TypeOK, SerialInv, [Next /\ ~overlapped']_vars
               PROVE  Contract!Next \/ UNCHANGED <<order.status, jobs>>
    OBVIOUS
  <2>1. CASE Next /\ ~overlapped'
    BY <2>1, SerialNext
  <2>2. CASE UNCHANGED vars
    BY <2>2 DEF vars
  <2> QED
    BY <2>1, <2>2
<1>3. SerialSpec => Spec
  <2>1. [Next /\ ~overlapped']_vars => [Next]_vars
    OBVIOUS
  <2> QED
    BY <2>1, PTL DEF SerialSpec, Spec
<1> QED
  BY <1>1, <1>2, <1>3, SerialInvHolds, PTL DEF SerialSpec, Contract!Spec, Contract!contract

\* So the contract's promises are kept: an order that ended, was canceled or failed is
\* not started again and gets no job more.
THEOREM SerialOrdersEndOnce ==
    SerialSpec => []JobsOfContract /\ [][EndedStays]_<<order.status, jobs>>
  BY SerialImplementsContract, ContractBoundsJobs, ContractEndsOnce

LEMMA OverlapStays == [Next]_vars /\ overlapped => overlapped'
<1> SUFFICES ASSUME [Next]_vars, overlapped PROVE overlapped'
  OBVIOUS
<1>1. ASSUME NEW w \in Workers, Work(w) PROVE overlapped'
  BY <1>1, WorkIsBusy
<1>2. ASSUME NEW w \in Workers, Crash(w) PROVE overlapped'
  BY <1>2 DEF Crash, Keep
<1>3. ASSUME NEW w \in Workers, NEW u \in Users,
             NEW a \in {"submit", "approve", "cancel", "clear"}, Open(w, u, a)
      PROVE  overlapped'
  BY <1>3 DEF Open
<1>4. CASE OrderCompletes \/ UNCHANGED vars
  BY <1>4 DEF OrderCompletes, vars
<1> QED
  BY <1>1, <1>2, <1>3, <1>4 DEF Next

\* "Only orders that are in 'PENDING' state can be approved" (models.py:207) is true
\* of requests that do not overlap: OnlyPendingIsStarted fails by overlap alone.
THEOREM SerialStartsArePending ==
    Spec => [][~overlapped' => \A w \in Workers :
                 req[w].pc = "activate" /\ req'[w].pc = "hook" => order.status = "PENDING"]_vars
<1> DEFINE Step == ~overlapped' => \A w \in Workers :
                     req[w].pc = "activate" /\ req'[w].pc = "hook" => order.status = "PENDING"
<1>1. SerialInv /\ [Next]_vars => [Step]_vars
  <2> SUFFICES ASSUME SerialInv, [Next]_vars, ~overlapped', NEW w \in Workers,
                      req[w].pc = "activate"
               PROVE  order.status = "PENDING"
    OBVIOUS
  <2>1. ~overlapped /\ Busy(w)
    BY OverlapStays DEF Busy
  <2> QED
    BY <2>1 DEF SerialInv, Serial, InStep
<1> QED
  BY SerialInvHolds, <1>1, PTL DEF Spec
=============================================================================
