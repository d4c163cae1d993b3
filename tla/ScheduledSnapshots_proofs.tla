---------------------- MODULE ScheduledSnapshots_proofs ----------------------
(***************************************************************************)
(* Theorems about ScheduledSnapshots, for every set of servers and of      *)
(* concurrent requests and every maximum.                                  *)
(***************************************************************************)
EXTENDS ScheduledSnapshots, FiniteSetTheorems, WellFoundedInduction, TLAPS

USE BoundsAreNats

-----------------------------------------------------------------------------
(* Types *)

LEMMA InitTyped == Init => TypeOK
  BY MaxValuesAreNats DEF Init, TypeOK, Runs, Snapshots

LEMMA RunFields ==
    ASSUME run \in [Creators -> Runs], NEW c \in Creators
    PROVE  /\ run[c] \in Runs
           /\ run[c].pc \in {"idle", "next", "create", "count", "trim"}
           /\ run[c].server \in Servers /\ run[c].todo \subseteq Servers
           /\ run[c].limit \in Nat /\ run[c].made \in 0..MaxTaken
           /\ MaxTaken \in Nat
  BY DEF Runs

RunSteps == {"idle", "next", "create", "count", "trim"}

LEMMA RunUpdated ==
    ASSUME NEW r \in Runs, NEW p \in RunSteps, NEW t \in SUBSET Servers,
           NEW l \in Nat, NEW m \in 0..MaxTaken
    PROVE  /\ [r EXCEPT !.pc = p, !.made = m, !.limit = l] \in Runs
           /\ [r EXCEPT !.pc = p, !.made = m, !.limit = l, !.todo = t] \in Runs
           /\ [r EXCEPT !.pc = p, !.made = m] \in Runs
  BY DEF Runs, RunSteps

LEMMA ZeroIsTyped == 0 \in Nat /\ 0 \in 0..MaxTaken
  OBVIOUS

LEMMA TurnTyped ==
    ASSUME run \in [Creators -> Runs], NEW c \in Creators, Turn(c)
    PROVE  run' \in [Creators -> Runs]
<1>1. ASSUME NEW p \in RunSteps, NEW z \in Nat, z \in 0..MaxTaken,
             run' = [run EXCEPT ![c].pc = p, ![c].made = z, ![c].limit = z]
      PROVE  run' \in [Creators -> Runs]
  <2>1. [run[c] EXCEPT !.pc = p, !.made = z, !.limit = z] \in Runs
    BY <1>1, RunUpdated
  <2>2. run' = [run EXCEPT ![c] = [run[c] EXCEPT !.pc = p, !.made = z, !.limit = z]]
    BY <1>1
  <2> QED
    BY <2>1, <2>2
<1> QED
  BY <1>1, ZeroIsTyped DEF Turn, RunSteps

\* Whatever is edited, a maximum the job trims to is a number.
LEMMA LimitIsNat ==
    ASSUME TypeOK, NEW s \in Servers
    PROVE  JobLimit(s) \in Nat /\ (max[s] # Unset => max[s] \in Nat)
  BY MaxValuesAreNats, UnsetIsNoNat DEF TypeOK, JobLimit

LEMMA ExcessIsTyped ==
    ASSUME TypeOK, NEW s \in Servers, NEW limit
    PROVE  Excess(s, limit) \in SUBSET Snapshots /\ Excess(s, limit) \subseteq snaps[s]
  BY DEF TypeOK, Excess

LEMMA StepTyped == TypeOK /\ [Next]_vars => TypeOK'
<1> SUFFICES ASSUME TypeOK, [Next]_vars PROVE TypeOK'
  OBVIOUS
<1> USE DEF TypeOK
<1>1. CASE StartJob
  <2>1. [run[RecurringJob] EXCEPT !.pc = "next", !.todo = due] \in Runs
    BY DEF Runs, Creators
  <2>2. run' = [run EXCEPT ![RecurringJob] =
                  [run[RecurringJob] EXCEPT !.pc = "next", !.todo = due]]
    BY <1>1 DEF StartJob, Creators
  <2> QED
    BY <1>1, <2>1, <2>2 DEF StartJob
<1>2. CASE NextServer
  <2>1. CASE run' = [run EXCEPT ![RecurringJob].pc = "idle"]
    <3>1. [run[RecurringJob] EXCEPT !.pc = "idle"] \in Runs
      BY RunFields DEF Runs, Creators
    <3> QED
      BY <1>2, <2>1, <3>1 DEF NextServer
  <2>2. ASSUME NEW s \in run[RecurringJob].todo,
               run' = [run EXCEPT ![RecurringJob].pc = "create",
                                  ![RecurringJob].server = s,
                                  ![RecurringJob].todo = @ \ {s}]
        PROVE  TypeOK'
    <3> DEFINE after == [run[RecurringJob] EXCEPT !.pc = "create", !.server = s,
                                                  !.todo = @ \ {s}]
    <3>1. after \in Runs
      <4>1. run[RecurringJob] \in Runs
        BY RunFields DEF Creators
      <4>2. s \in Servers
        BY <2>2, <4>1 DEF Runs
      <4> QED
        BY <4>1, <4>2 DEF Runs
    <3>2. run' = [run EXCEPT ![RecurringJob] = after]
      BY <2>2 DEF Creators, Runs
    <3> HIDE DEF after
    <3>3. run' \in [Creators -> Runs]
      BY <3>1, <3>2
    <3> QED
      BY <1>2, <3>3 DEF NextServer
  <2> QED
    BY <1>2, <2>1, <2>2 DEF NextServer
<1>3. ASSUME NEW c \in Creators, NEW s \in Servers, StartRequest(c, s) PROVE TypeOK'
  <2> DEFINE after == [run[c] EXCEPT !.pc = "create", !.server = s]
  <2>1. after \in Runs
    BY RunFields DEF Runs
  <2>2. run' = [run EXCEPT ![c] = after]
    BY <1>3 DEF StartRequest
  <2> HIDE DEF after
  <2>3. run' \in [Creators -> Runs]
    BY <2>1, <2>2
  <2> QED
    BY <1>3, <2>3 DEF StartRequest
<1>4. ASSUME NEW c \in Creators, Create(c) PROVE TypeOK'
  <2> DEFINE s == run[c].server
  <2>1. s \in Servers
    BY DEF Runs
  <2>2. CASE Turn(c) /\ UNCHANGED <<taken, snaps>>
    BY <1>4, <2>2, TurnTyped DEF Create
  <2>3. CASE ~(Turn(c) /\ UNCHANGED <<taken, snaps>>)
    <3>1. /\ taken[s] < MaxTaken
          /\ taken' = [taken EXCEPT ![s] = @ + 1]
          /\ snaps' = [snaps EXCEPT ![s] = @ \cup {taken[s] + 1}]
          /\ run' = [run EXCEPT ![c].pc = "count", ![c].made = taken[s] + 1]
      BY <1>4, <2>3 DEF Create
    <3>2. taken[s] + 1 \in 1..MaxTaken
      BY <2>1, <3>1
    <3>3. run' \in [Creators -> Runs]
      <4>1. ASSUME NEW m \in 0..MaxTaken,
                   run' = [run EXCEPT ![c].pc = "count", ![c].made = m]
            PROVE  run' \in [Creators -> Runs]
        <5>1. [run[c] EXCEPT !.pc = "count", !.made = m] \in Runs
          BY RunUpdated DEF RunSteps
        <5>2. run' = [run EXCEPT ![c] = [run[c] EXCEPT !.pc = "count", !.made = m]]
          BY <4>1
        <5> QED
          BY <5>1, <5>2
      <4> DEFINE new == taken[s] + 1
      <4>2. new \in 0..MaxTaken
        BY <3>2
      <4>3. run' = [run EXCEPT ![c].pc = "count", ![c].made = new]
        BY <3>1
      <4> HIDE DEF new
      <4> QED
        BY <4>1, <4>2, <4>3
    <3>4. snaps' \in [Servers -> SUBSET Snapshots]
      BY <2>1, <3>1, <3>2 DEF Snapshots
    <3>5. taken' \in [Servers -> 0..MaxTaken]
      BY <2>1, <3>1, <3>2
    <3> QED
      BY <1>4, <3>3, <3>4, <3>5 DEF Create
  <2> QED
    BY <2>2, <2>3
<1>5. ASSUME NEW c \in Creators, Count(c) PROVE TypeOK'
  <2> DEFINE s == run[c].server
             limit == IF c = RecurringJob THEN JobLimit(s) ELSE max[s]
  <2>1. s \in Servers
    BY DEF Runs
  <2>2. CASE Turn(c)
    BY <1>5, <2>2, TurnTyped DEF Count
  <2>3. CASE ~Turn(c)
    <3>1. run' = [run EXCEPT ![c].pc = "trim", ![c].limit = limit]
      BY <1>5, <2>3 DEF Count
    <3>2. limit \in Nat
      BY <1>5, <2>1, <2>3, LimitIsNat DEF Count
    <3> DEFINE after == [run[c] EXCEPT !.pc = "trim", !.limit = limit]
    <3> HIDE DEF limit
    <3>a. after \in Runs
      BY <3>2, RunFields DEF Runs
    <3>b. run' = [run EXCEPT ![c] = after]
      BY <3>1
    <3> HIDE DEF after
    <3>3. run' \in [Creators -> Runs]
      BY <3>a, <3>b
    <3> QED
      BY <1>5, <3>3 DEF Count
  <2> QED
    BY <2>2, <2>3
<1>6. ASSUME NEW c \in Creators, Trim(c) PROVE TypeOK'
  <2>1. run[c].server \in Servers /\ run[c].limit \in Nat
    BY DEF Runs
  <2>2. [server |-> run[c].server, snaps |-> Excess(run[c].server, run[c].limit)]
          \in DeleteJobs
    BY <2>1, ExcessIsTyped DEF DeleteJobs
  <2>3. deletes' \in SUBSET DeleteJobs
    BY <1>6, <2>2 DEF Trim
  <2>4. lowest' \in [Servers -> Nat]
    BY <1>6, <2>1 DEF Trim, Lesser
  <2>5. run' \in [Creators -> Runs]
    BY <1>6, TurnTyped DEF Trim
  <2> QED
    BY <1>6, <2>3, <2>4, <2>5 DEF Trim
<1>7. ASSUME NEW c \in Creators, CreatorDies(c) PROVE TypeOK'
  <2>1. run' \in [Creators -> Runs]
    <3>1. ASSUME NEW z \in Nat, z \in 0..MaxTaken,
                 run' = [run EXCEPT ![c].pc = "idle", ![c].made = z, ![c].limit = z,
                                    ![c].todo = {}]
          PROVE  run' \in [Creators -> Runs]
      <4>1. [run[c] EXCEPT !.pc = "idle", !.made = z, !.limit = z, !.todo = {}] \in Runs
        BY <3>1, RunUpdated DEF RunSteps
      <4>2. run' = [run EXCEPT ![c] =
                      [run[c] EXCEPT !.pc = "idle", !.made = z, !.limit = z, !.todo = {}]]
        BY <3>1
      <4> QED
        BY <4>1, <4>2
    <3> QED
      BY <1>7, <3>1, ZeroIsTyped DEF CreatorDies
  <2>2. faults' \in 0..MaxFaults
    BY <1>7 DEF CreatorDies
  <2> QED
    BY <1>7, <2>1, <2>2 DEF CreatorDies
<1>8. ASSUME NEW d \in deletes, DeleteOne(d) PROVE TypeOK'
  <2>1. d.server \in Servers /\ d.snaps \subseteq Snapshots
    BY DEF DeleteJobs
  <2>2. CASE d.snaps = {}
    BY <1>8, <2>2 DEF DeleteOne
  <2>3. CASE d.snaps # {}
    <3>1. PICK n \in d.snaps :
            /\ snaps' = [snaps EXCEPT ![d.server] = @ \ {n}]
            /\ deletes' = (deletes \ {d}) \cup {[d EXCEPT !.snaps = @ \ {n}]}
      BY <1>8, <2>3 DEF DeleteOne
    <3>2. [d EXCEPT !.snaps = @ \ {n}] \in DeleteJobs
      BY <2>1 DEF DeleteJobs
    <3>3. snaps' \in [Servers -> SUBSET Snapshots]
      BY <2>1, <3>1
    <3> QED
      BY <1>8, <3>1, <3>2, <3>3 DEF DeleteOne
  <2> QED
    BY <2>2, <2>3
<1>9. ASSUME NEW d \in deletes, DeleteFails(d) PROVE TypeOK'
  BY <1>9 DEF DeleteFails
<1>10. ASSUME NEW s \in Servers, DeleteAll(s) PROVE TypeOK'
  <2>1. [server |-> s, snaps |-> snaps[s]] \in DeleteJobs
    BY DEF DeleteJobs
  <2> QED
    BY <1>10, <2>1 DEF DeleteAll
<1>11. ASSUME NEW s \in Servers, ScheduleChanges(s) PROVE TypeOK'
  BY <1>11 DEF ScheduleChanges
<1>12. ASSUME NEW s \in Servers, NEW v \in MaxValues \cup {Empty}, EditMaximum(s, v)
       PROVE  TypeOK'
  BY <1>12 DEF EditMaximum, Stored
<1>13. CASE UNCHANGED vars
  BY <1>13 DEF vars
<1> QED
  BY <1>1, <1>2, <1>3, <1>4, <1>5, <1>6, <1>7, <1>8, <1>9, <1>10, <1>11, <1>12,
     <1>13 DEF Next

\* Type correctness: among others, each maximum the job trims to is a number,
\* whatever the form stored.
THEOREM TypeCorrect == Spec => []TypeOK
  BY InitTyped, StepTyped, PTL DEF Spec
-----------------------------------------------------------------------------
(* The oldest snapshots go first *)

\* Snapshots are numbered as they are taken, and only taken ones are deleted.
Numbered ==
    /\ \A s \in Servers : snaps[s] \subseteq 1..taken[s]
    /\ \A d \in deletes : d.snaps \subseteq 1..taken[d.server]

IInv == TypeOK /\ Numbered /\ OldestGoFirst

\* What is cut off the list, newest first, is cut off at its end: all that is
\* older than a snapshot of the excess is excess.
LEMMA ExcessIsOldest ==
    ASSUME TypeOK, NEW s \in Servers, NEW limit \in Nat
    PROVE  \A n \in Excess(s, limit) : Older(s, n) \subseteq Excess(s, limit)
<1> SUFFICES ASSUME NEW n \in Excess(s, limit), NEW m \in Older(s, n)
             PROVE  m \in Excess(s, limit)
  OBVIOUS
<1>1. snaps[s] \subseteq 1..MaxTaken /\ m < n /\ m \in snaps[s] /\ n \in snaps[s]
  BY DEF TypeOK, Snapshots, Older, Excess
<1>2. Newer(s, n) \subseteq Newer(s, m)
  BY <1>1 DEF Newer
<1>3. IsFiniteSet(1..MaxTaken)
  BY FS_Interval
<1>4. IsFiniteSet(Newer(s, m))
  BY <1>1, <1>3, FS_Subset DEF Newer
<1>5. Cardinality(Newer(s, n)) <= Cardinality(Newer(s, m))
  BY <1>2, <1>4, FS_Subset
<1>6. Cardinality(Newer(s, n)) \in Nat /\ Cardinality(Newer(s, m)) \in Nat
  BY <1>2, <1>4, FS_Subset, FS_CardinalityType
<1>7. Cardinality(Newer(s, n)) >= limit
  BY DEF Excess
<1>8. Cardinality(Newer(s, m)) >= limit
  BY <1>5, <1>6, <1>7
<1> QED
  BY <1>1, <1>8 DEF Excess

\* Steps that take no snapshot and choose none keep both facts, however many
\* delete jobs end.
LEMMA FewerIsOrdered ==
    ASSUME IInv, taken' = taken, snaps' = snaps, deletes' \subseteq deletes
    PROVE  Numbered' /\ OldestGoFirst'
  BY DEF IInv, Numbered, OldestGoFirst, Older

\* A job is added that holds, for one server, a set closed under "older".
LEMMA ClosedIsOrdered ==
    ASSUME IInv, taken' = taken, snaps' = snaps, NEW s \in Servers,
           NEW S \in SUBSET snaps[s], \A n \in S : Older(s, n) \subseteq S,
           deletes' = deletes \cup {[server |-> s, snaps |-> S]}
    PROVE  Numbered' /\ OldestGoFirst'
<1>1. Numbered'
  BY DEF IInv, Numbered
<1>2. OldestGoFirst'
  BY DEF IInv, OldestGoFirst, Older
<1> QED
  BY <1>1, <1>2

\* A new snapshot is newer than all there are.
LEMMA CreatedIsNewer ==
    ASSUME IInv, NEW c \in Creators, Create(c)
    PROVE  Numbered' /\ OldestGoFirst'
<1> DEFINE s == run[c].server
<1>1. s \in Servers /\ deletes' = deletes
  BY DEF IInv, TypeOK, Runs, Create
<1>2. CASE UNCHANGED <<taken, snaps>>
  BY <1>1, <1>2, FewerIsOrdered
<1>3. CASE ~ UNCHANGED <<taken, snaps>>
  <2>1. taken' = [taken EXCEPT ![s] = @ + 1]
    BY <1>3 DEF Create
  <2>2. snaps' = [snaps EXCEPT ![s] = @ \cup {taken[s] + 1}]
    BY <1>3 DEF Create
  <2>3. taken[s] \in Nat
    BY <1>1 DEF IInv, TypeOK
  <2>4. \A t \in Servers : taken[t] \in Nat /\ taken'[t] \in Nat /\ taken[t] <= taken'[t]
    BY <1>1, <2>1 DEF IInv, TypeOK
  <2>5. \A d \in deletes : d.server \in Servers
    BY DEF IInv, TypeOK, DeleteJobs
  <2>6. Numbered'
    <3>1. ASSUME NEW t \in Servers PROVE snaps'[t] \subseteq 1..taken'[t]
      <4>1. snaps[t] \subseteq 1..taken[t]
        BY DEF IInv, Numbered
      <4>2. CASE t = s
        BY <1>1, <2>1, <2>2, <2>3, <4>1, <4>2 DEF IInv, TypeOK
      <4>3. CASE t # s
        BY <1>1, <2>1, <2>2, <4>1, <4>3 DEF IInv, TypeOK
      <4> QED
        BY <4>2, <4>3
    <3>2. ASSUME NEW d \in deletes PROVE d.snaps \subseteq 1..taken'[d.server]
      BY <2>4, <2>5 DEF IInv, Numbered
    <3> QED
      BY <1>1, <3>1, <3>2 DEF Numbered
  <2>7. OldestGoFirst'
    <3> SUFFICES ASSUME NEW d \in deletes, NEW n \in d.snaps,
                        NEW m \in snaps'[d.server], m < n
                 PROVE  m \in d.snaps
      BY <1>1 DEF OldestGoFirst, Older
    <3>1. d.server \in Servers /\ n \in 1..taken[d.server]
      BY <2>5 DEF IInv, Numbered
    <3>2. m # taken[d.server] + 1
      BY <2>4, <3>1
    <3>3. m \in snaps[d.server]
      BY <1>1, <2>2, <3>1, <3>2 DEF IInv, TypeOK
    <3> QED
      BY <3>3 DEF IInv, OldestGoFirst, Older
  <2> QED
    BY <2>6, <2>7
<1> QED
  BY <1>2, <1>3

\* A job deletes a snapshot it holds: the snapshot is gone from every list.
LEMMA DeletedIsOrdered ==
    ASSUME IInv, NEW d \in deletes, DeleteOne(d)
    PROVE  Numbered' /\ OldestGoFirst'
<1>1. taken' = taken
  BY DEF DeleteOne
<1>2. CASE d.snaps = {}
  BY <1>1, <1>2, FewerIsOrdered DEF DeleteOne
<1>3. CASE d.snaps # {}
  <2>1. PICK n \in d.snaps :
          /\ snaps' = [snaps EXCEPT ![d.server] = @ \ {n}]
          /\ deletes' = (deletes \ {d}) \cup {[d EXCEPT !.snaps = @ \ {n}]}
    BY <1>3 DEF DeleteOne
  <2> DEFINE rest == [d EXCEPT !.snaps = @ \ {n}]
  <2>2. rest.server = d.server /\ rest.snaps = d.snaps \ {n}
    BY DEF IInv, TypeOK, DeleteJobs
  <2> HIDE DEF rest
  <2>3. deletes' = (deletes \ {d}) \cup {rest}
    BY <2>1 DEF rest
  <2>4. \A e \in deletes : e.server \in Servers
    BY DEF IInv, TypeOK, DeleteJobs
  <2>5. \A s \in Servers : /\ snaps'[s] \subseteq snaps[s]
                           /\ s = d.server => snaps'[s] = snaps[s] \ {n}
    BY <2>1 DEF IInv, TypeOK
  <2>6. Numbered'
    BY <1>1, <2>2, <2>3, <2>5 DEF IInv, Numbered
  <2>7. OldestGoFirst'
    <3>1. ASSUME NEW k \in rest.snaps PROVE Older(rest.server, k)' \subseteq rest.snaps
      BY <2>2, <2>4, <2>5 DEF IInv, OldestGoFirst, Older
    <3>2. ASSUME NEW e \in deletes, NEW k \in e.snaps
          PROVE  Older(e.server, k)' \subseteq e.snaps
      BY <2>4, <2>5 DEF IInv, OldestGoFirst, Older
    <3> QED
      BY <2>3, <3>1, <3>2 DEF OldestGoFirst
  <2> QED
    BY <2>6, <2>7
<1> QED
  BY <1>2, <1>3

LEMMA OrderKept == IInv /\ [Next]_vars => Numbered' /\ OldestGoFirst'
<1> SUFFICES ASSUME IInv, [Next]_vars PROVE Numbered' /\ OldestGoFirst'
  OBVIOUS
<1>1. CASE UNCHANGED <<taken, snaps, deletes>>
  BY <1>1, FewerIsOrdered
<1>2. ASSUME NEW c \in Creators, Create(c) PROVE Numbered' /\ OldestGoFirst'
  BY <1>2, CreatedIsNewer
<1>3. ASSUME NEW c \in Creators, Trim(c) PROVE Numbered' /\ OldestGoFirst'
  <2>1. run[c].server \in Servers /\ run[c].limit \in Nat
    BY DEF IInv, TypeOK, Runs
  <2>2. Excess(run[c].server, run[c].limit) \subseteq snaps[run[c].server]
    BY DEF Excess
  <2>3. \A n \in Excess(run[c].server, run[c].limit) :
          Older(run[c].server, n) \subseteq Excess(run[c].server, run[c].limit)
    BY <2>1, ExcessIsOldest DEF IInv
  <2> QED
    BY <1>3, <2>1, <2>2, <2>3, ClosedIsOrdered DEF Trim
<1>4. ASSUME NEW d \in deletes, DeleteOne(d) PROVE Numbered' /\ OldestGoFirst'
  BY <1>4, DeletedIsOrdered
<1>5. ASSUME NEW d \in deletes, DeleteFails(d) PROVE Numbered' /\ OldestGoFirst'
  BY <1>5, FewerIsOrdered DEF DeleteFails
<1>6. ASSUME NEW s \in Servers, DeleteAll(s) PROVE Numbered' /\ OldestGoFirst'
  <2>1. \A n \in snaps[s] : Older(s, n) \subseteq snaps[s]
    BY DEF Older
  <2> QED
    BY <1>6, <2>1, ClosedIsOrdered DEF DeleteAll
<1>7. StartJob \/ NextServer => UNCHANGED <<taken, snaps, deletes>>
  BY DEF StartJob, NextServer
<1>8. \A c \in Creators : \/ \E s \in Servers : StartRequest(c, s)
                          \/ Count(c) \/ CreatorDies(c)
                          => UNCHANGED <<taken, snaps, deletes>>
  BY DEF StartRequest, Count, CreatorDies
<1>9. \A s \in Servers : \/ ScheduleChanges(s)
                         \/ \E v \in MaxValues \cup {Empty} : EditMaximum(s, v)
                         => UNCHANGED <<taken, snaps, deletes>>
  BY DEF ScheduleChanges, EditMaximum
<1>10. UNCHANGED vars => UNCHANGED <<taken, snaps, deletes>>
  BY DEF vars
<1> QED
  BY <1>1, <1>2, <1>3, <1>4, <1>5, <1>6, <1>7, <1>8, <1>9, <1>10 DEF Next

\* No delete job holds a snapshot and spares an older one, however many
\* creators run at once and wherever they and the delete jobs die.
THEOREM OldestFirst == Spec => []OldestGoFirst
<1>1. Init => IInv
  BY InitTyped DEF Init, IInv, Numbered, OldestGoFirst
<1>2. IInv /\ [Next]_vars => IInv'
  BY StepTyped, OrderKept DEF IInv
<1>3. IInv => OldestGoFirst
  BY DEF IInv
<1> QED
  BY <1>1, <1>2, <1>3, PTL DEF Spec
-----------------------------------------------------------------------------
(* Nothing is chosen to be deleted before a new snapshot is there *)

\* A creator that counts or trims has made a snapshot.
MadeFirst ==
    \A c \in Creators : run[c].pc \in {"count", "trim"} => run[c].made > 0

\* A creator that a step leaves alone, or sends elsewhere, needs none.
LEMMA MadeFirstKept == TypeOK /\ MadeFirst /\ [Next]_vars => MadeFirst'
<1> SUFFICES ASSUME TypeOK, MadeFirst, [Next]_vars PROVE MadeFirst'
  OBVIOUS
<1> USE DEF MadeFirst
<1>run. run \in [Creators -> Runs]
  BY DEF TypeOK
<1>1. CASE UNCHANGED run
  BY <1>1
<1>2. ASSUME NEW c \in Creators, Turn(c) PROVE MadeFirst'
  BY <1>run, <1>2 DEF Turn, Runs
<1>3. CASE StartJob
  BY <1>run, <1>3 DEF StartJob, Creators, Runs
<1>4. CASE NextServer
  <2>1. \E p \in {"idle", "create"} : run'[RecurringJob].pc = p
    <3>1. RecurringJob \in Creators /\ run[RecurringJob] \in Runs
      BY <1>run DEF Creators
    <3>2. CASE run' = [run EXCEPT ![RecurringJob].pc = "idle"]
      BY <1>run, <3>1, <3>2 DEF Runs
    <3>3. ASSUME NEW s \in run[RecurringJob].todo,
                 run' = [run EXCEPT ![RecurringJob].pc = "create",
                                    ![RecurringJob].server = s,
                                    ![RecurringJob].todo = @ \ {s}]
          PROVE  run'[RecurringJob].pc = "create"
      BY <1>run, <3>1, <3>3 DEF Runs
    <3> QED
      BY <1>4, <3>2, <3>3 DEF NextServer
  <2>2. \A c \in Creators \ {RecurringJob} : run'[c] = run[c]
    BY <1>run, <1>4 DEF NextServer
  <2> QED
    BY <2>1, <2>2
<1>5. ASSUME NEW c \in Creators, NEW s \in Servers, StartRequest(c, s) PROVE MadeFirst'
  BY <1>run, <1>5 DEF StartRequest, Runs
<1>6. ASSUME NEW c \in Creators, Create(c) PROVE MadeFirst'
  <2>1. CASE Turn(c)
    BY <1>2, <2>1
  <2>2. CASE ~Turn(c)
    <3> DEFINE new == taken[run[c].server] + 1
    <3>1. run' = [run EXCEPT ![c].pc = "count", ![c].made = new]
      BY <1>6, <2>2 DEF Create
    <3>2. new > 0
      BY <1>run DEF TypeOK, Runs
    <3> HIDE DEF new
    <3> QED
      BY <1>run, <3>1, <3>2 DEF Runs
  <2> QED
    BY <2>1, <2>2
<1>7. ASSUME NEW c \in Creators, Count(c) PROVE MadeFirst'
  <2>1. CASE Turn(c)
    BY <1>2, <2>1
  <2>2. CASE ~Turn(c)
    <3>1. PICK limit : run' = [run EXCEPT ![c].pc = "trim", ![c].limit = limit]
      BY <1>7, <2>2 DEF Count
    <3>2. run[c].made > 0
      BY <1>7 DEF Count
    <3> QED
      BY <1>run, <3>1, <3>2 DEF Runs
  <2> QED
    BY <2>1, <2>2
<1>8. ASSUME NEW c \in Creators, Trim(c) PROVE MadeFirst'
  BY <1>2, <1>8 DEF Trim
<1>9. ASSUME NEW c \in Creators, CreatorDies(c) PROVE MadeFirst'
  BY <1>run, <1>9 DEF CreatorDies, Runs
<1>10. \A d : DeleteOne(d) \/ DeleteFails(d) => UNCHANGED run
  BY DEF DeleteOne, DeleteFails
<1>11. \A s : \/ DeleteAll(s) \/ ScheduleChanges(s) \/ \E v : EditMaximum(s, v)
              => UNCHANGED run
  BY DEF DeleteAll, ScheduleChanges, EditMaximum
<1>12. UNCHANGED vars => UNCHANGED run
  BY DEF vars
<1> QED
  BY <1>1, <1>3, <1>4, <1>5, <1>6, <1>7, <1>8, <1>9, <1>10, <1>11, <1>12 DEF Next

\* Whoever trims has made a new snapshot before, for every schedule, maximum
\* and number of requests.
THEOREM CreatedBeforeTrimmed == Spec => TrimAfterCreate
<1> DEFINE Step == \A c \in Creators :
                     run[c].pc = "trim" /\ run'[c].pc # "trim" /\ deletes' # deletes
                     => run[c].made > 0
<1>1. Init => TypeOK /\ MadeFirst
  <2>1. Init => \A c \in Creators : run[c].pc = "idle"
    BY DEF Init
  <2> QED
    BY <2>1, InitTyped DEF MadeFirst
<1>2. TypeOK /\ MadeFirst /\ [Next]_vars => TypeOK' /\ MadeFirst'
  BY StepTyped, MadeFirstKept
<1>3. MadeFirst => Step
  BY DEF MadeFirst
<1>4. MadeFirst /\ [Next]_vars => [Step]_vars
  BY <1>3
<1> QED
  BY <1>1, <1>2, <1>4, PTL DEF Spec, TrimAfterCreate
-----------------------------------------------------------------------------
(* Trimming never digs below the maximum *)

\* The snapshots that no trimming may choose: the newest of all that were taken, as
\* many as the least maximum so far.
Window(s) == {n \in 1..taken[s] : n + lowest[s] > taken[s]}

WindowKept == bulk = 0 => \A s \in Servers : Window(s) \subseteq Kept(s)

LEMMA ServerFields ==
    ASSUME TypeOK, NEW s \in Servers
    PROVE  taken[s] \in Nat /\ lowest[s] \in Nat /\ snaps[s] \subseteq Snapshots
  BY DEF TypeOK

LEMMA DoomedIs ==
    ASSUME NEW s, NEW n
    PROVE  n \in Doomed(s) <=> \E d \in deletes : d.server = s /\ n \in d.snaps
  BY DEF Doomed

LEMMA NewerAreFew ==
    ASSUME TypeOK, Numbered, NEW s \in Servers, NEW n \in 1..taken[s]
    PROVE  /\ Cardinality(Newer(s, n)) \in Nat
           /\ Cardinality(Newer(s, n)) <= taken[s] - n
<1>1. taken[s] \in Nat /\ snaps[s] \subseteq 1..taken[s]
  BY ServerFields DEF Numbered
<1>2. IsFiniteSet((n + 1)..taken[s]) /\ Cardinality((n + 1)..taken[s]) = taken[s] - n
  <2>1. n + 1 \in Int /\ taken[s] \in Int /\ n <= taken[s]
    BY <1>1
  <2>2. /\ IsFiniteSet((n + 1)..taken[s])
        /\ Cardinality((n + 1)..taken[s])
             = IF n + 1 > taken[s] THEN 0 ELSE taken[s] - (n + 1) + 1
    BY <2>1, FS_Interval
  <2> QED
    BY <2>1, <2>2
<1>3. Newer(s, n) \in SUBSET ((n + 1)..taken[s])
  BY <1>1 DEF Newer
<1>4. /\ IsFiniteSet(Newer(s, n))
      /\ Cardinality(Newer(s, n)) <= Cardinality((n + 1)..taken[s])
  BY <1>2, <1>3, FS_Subset
<1> QED
  BY <1>2, <1>4, FS_CardinalityType

LEMMA WindowSize ==
    ASSUME TypeOK, NEW s \in Servers
    PROVE  IsFiniteSet(Window(s)) /\ Cardinality(Window(s)) = Lesser(lowest[s], taken[s])
<1>1. taken[s] \in Nat /\ lowest[s] \in Nat
  BY ServerFields
<1>2. CASE lowest[s] < taken[s]
  <2>1. Window(s) = (taken[s] - lowest[s] + 1)..taken[s]
    BY <1>1, <1>2 DEF Window
  <2>2. /\ IsFiniteSet((taken[s] - lowest[s] + 1)..taken[s])
        /\ Cardinality((taken[s] - lowest[s] + 1)..taken[s])
             = IF taken[s] - lowest[s] + 1 > taken[s] THEN 0
               ELSE taken[s] - (taken[s] - lowest[s] + 1) + 1
    <3>1. taken[s] - lowest[s] + 1 \in Int /\ taken[s] \in Int
      BY <1>1
    <3> QED
      BY <3>1, FS_Interval
  <2>3. Cardinality((taken[s] - lowest[s] + 1)..taken[s]) = lowest[s]
    BY <1>1, <2>2
  <2> QED
    BY <1>2, <2>1, <2>2, <2>3 DEF Lesser
<1>3. CASE ~(lowest[s] < taken[s])
  <2>1. Window(s) = 1..taken[s]
    BY <1>1, <1>3 DEF Window
  <2>2. /\ IsFiniteSet(1..taken[s])
        /\ Cardinality(1..taken[s]) = IF 1 > taken[s] THEN 0 ELSE taken[s] - 1 + 1
    <3>1. 1 \in Int /\ taken[s] \in Int
      BY <1>1
    <3> QED
      BY <3>1, FS_Interval
  <2>3. Cardinality(1..taken[s]) = taken[s]
    BY <1>1, <2>2
  <2> QED
    BY <1>3, <2>1, <2>2, <2>3 DEF Lesser
<1> QED
  BY <1>2, <1>3

\* Steps that take no snapshot and choose none.
LEMMA FewerDoomed ==
    ASSUME WindowKept, UNCHANGED <<taken, snaps, lowest, bulk>>, deletes' \subseteq deletes
    PROVE  WindowKept'
<1>1. ASSUME NEW s, NEW n \in Doomed(s)' PROVE n \in Doomed(s)
  BY <1>1 DEF Doomed
<1> QED
  BY <1>1 DEF WindowKept, Window, Kept

\* A new snapshot pushes the oldest out of the window.
LEMMA CreatedIsKept ==
    ASSUME IInv, WindowKept, NEW c \in Creators, Create(c) PROVE WindowKept'
<1> DEFINE s == run[c].server
<1>1. s \in Servers /\ UNCHANGED <<deletes, lowest, bulk>>
  BY DEF IInv, TypeOK, Runs, Create
<1>2. CASE UNCHANGED <<taken, snaps>>
  BY <1>1, <1>2, FewerDoomed
<1>3. CASE ~ UNCHANGED <<taken, snaps>>
  <2>1. /\ taken' = [taken EXCEPT ![s] = @ + 1]
        /\ snaps' = [snaps EXCEPT ![s] = @ \cup {taken[s] + 1}]
    BY <1>3 DEF Create
  <2> SUFFICES ASSUME bulk = 0, NEW t \in Servers, NEW n \in Window(t)'
               PROVE  n \in Kept(t)'
    BY <1>1 DEF WindowKept
  <2>2. Doomed(t)' = Doomed(t)
    BY <1>1 DEF Doomed
  <2>3. taken[t] \in Nat /\ lowest[t] \in Nat /\ lowest'[t] = lowest[t]
    BY <1>1, ServerFields DEF IInv
  <2>4. CASE t # s
    <3>1. taken'[t] = taken[t] /\ snaps'[t] = snaps[t]
      BY <1>1, <2>1, <2>4 DEF IInv, TypeOK
    <3>2. n \in Kept(t)
      BY <2>3, <3>1 DEF WindowKept, Window
    <3> QED
      BY <2>2, <3>1, <3>2 DEF Kept
  <2>5. CASE t = s
    <3>1. taken'[t] = taken[t] + 1 /\ snaps'[t] = snaps[t] \cup {taken[t] + 1}
      BY <1>1, <2>1, <2>5 DEF IInv, TypeOK
    <3>2. n \in 1..(taken[t] + 1) /\ n + lowest[t] > taken[t] + 1
      BY <2>3, <3>1 DEF Window
    <3>3. CASE n = taken[t] + 1
      <4>1. n \notin Doomed(t)
        BY <2>3, <3>3, DoomedIs DEF IInv, Numbered
      <4> QED
        BY <2>2, <3>1, <3>3, <4>1 DEF Kept
    <3>4. CASE n # taken[t] + 1
      <4>1. n \in Window(t)
        BY <2>3, <3>2, <3>4 DEF Window
      <4>2. n \in Kept(t)
        BY <4>1 DEF WindowKept
      <4> QED
        BY <2>2, <3>1, <4>2 DEF Kept
    <3> QED
      BY <3>3, <3>4
  <2> QED
    BY <2>4, <2>5
<1> QED
  BY <1>2, <1>3

\* What is cut off the list has as many newer snapshots as the maximum, and so is
\* outside the window.
LEMMA TrimmedIsOutside ==
    ASSUME IInv, WindowKept, NEW c \in Creators, Trim(c) PROVE WindowKept'
<1> DEFINE s == run[c].server
           limit == run[c].limit
           new == [server |-> s, snaps |-> Excess(s, limit)]
<1>1. s \in Servers /\ limit \in Nat /\ lowest[s] \in Nat
  BY RunFields, ServerFields DEF IInv, TypeOK
<1>2. /\ deletes' = deletes \cup {new} /\ UNCHANGED <<taken, snaps, bulk>>
      /\ lowest' = [lowest EXCEPT ![s] = Lesser(@, limit)]
  BY DEF Trim
<1> SUFFICES ASSUME bulk = 0, NEW t \in Servers, NEW n \in Window(t)'
             PROVE  n \in Kept(t)'
  BY <1>2 DEF WindowKept
<1>3. taken[t] \in Nat /\ lowest[t] \in Nat
  BY ServerFields DEF IInv
<1>4. lowest'[t] <= lowest[t] /\ (t = s => lowest'[t] <= limit) /\ lowest'[t] \in Nat
  <2>1. CASE t = s
    <3>1. lowest'[t] = Lesser(lowest[s], limit)
      BY <1>1, <1>2, <2>1 DEF IInv, TypeOK
    <3> QED
      BY <1>1, <2>1, <3>1 DEF Lesser
  <2>2. CASE t # s
    BY <1>1, <1>2, <1>3, <2>2 DEF IInv, TypeOK
  <2> QED
    BY <2>1, <2>2
<1>5. n \in 1..taken[t] /\ n + lowest'[t] > taken[t]
  BY <1>2 DEF Window
<1>6. n \in Window(t)
  BY <1>3, <1>4, <1>5 DEF Window
<1>7. n \in snaps[t] /\ n \notin Doomed(t)
  BY <1>6 DEF WindowKept, Kept
<1>8. t = s => n \notin Excess(s, limit)
  <2> SUFFICES ASSUME t = s PROVE Cardinality(Newer(t, n)) < limit
    <3>1. Cardinality(Newer(t, n)) \in Nat
      BY <1>5, NewerAreFew DEF IInv
    <3> QED
      BY <1>1, <3>1 DEF Excess
  <2>1. Cardinality(Newer(t, n)) \in Nat /\ Cardinality(Newer(t, n)) <= taken[t] - n
    BY <1>5, NewerAreFew DEF IInv
  <2> QED
    BY <1>1, <1>3, <1>4, <1>5, <2>1
<1>9. ASSUME NEW d \in deletes', d.server = t PROVE n \notin d.snaps
  <2>1. CASE d \in deletes
    BY <1>7, <1>9, <2>1, DoomedIs
  <2>2. CASE d = new
    BY <1>8, <1>9, <2>2
  <2> QED
    BY <1>2, <1>9, <2>1, <2>2
<1>10. n \notin Doomed(t)'
  BY <1>9 DEF Doomed
<1> QED
  BY <1>2, <1>7, <1>10 DEF Kept

LEMMA DeletedWasDoomed ==
    ASSUME IInv, WindowKept, NEW d \in deletes, DeleteOne(d) PROVE WindowKept'
<1>1. UNCHANGED <<taken, lowest, bulk>> /\ d.server \in Servers
  BY DEF DeleteOne, IInv, TypeOK, DeleteJobs
<1>2. CASE d.snaps = {}
  BY <1>1, <1>2, FewerDoomed DEF DeleteOne
<1>3. CASE d.snaps # {}
  <2>1. PICK m \in d.snaps :
          /\ snaps' = [snaps EXCEPT ![d.server] = @ \ {m}]
          /\ deletes' = (deletes \ {d}) \cup {[d EXCEPT !.snaps = @ \ {m}]}
    BY <1>3 DEF DeleteOne
  <2> SUFFICES ASSUME bulk = 0, NEW t \in Servers, NEW n \in Window(t)
               PROVE  n \in Kept(t)'
    BY <1>1 DEF WindowKept, Window
  <2>2. n \in snaps[t] /\ n \notin Doomed(t)
    BY DEF WindowKept, Kept
  <2>3. t = d.server => n # m
    BY <2>2, DoomedIs
  <2>4. n \in snaps'[t]
    BY <1>1, <2>1, <2>2, <2>3 DEF IInv, TypeOK
  <2>5. ASSUME NEW e \in deletes', e.server = t PROVE n \notin e.snaps
    <3>1. CASE e \in deletes
      BY <2>2, <2>5, <3>1, DoomedIs
    <3>2. CASE e = [d EXCEPT !.snaps = @ \ {m}]
      <4>1. e.server = d.server /\ e.snaps \subseteq d.snaps
        BY <3>2 DEF IInv, TypeOK, DeleteJobs
      <4> QED
        BY <2>2, <2>5, <4>1, DoomedIs
    <3> QED
      BY <2>1, <2>5, <3>1, <3>2
  <2>6. n \notin Doomed(t)'
    BY <2>5 DEF Doomed
  <2> QED
    BY <2>4, <2>6 DEF Kept
<1> QED
  BY <1>2, <1>3

LEMMA WindowStep == ASSUME IInv, WindowKept, [Next]_vars PROVE WindowKept'
<1>1. CASE UNCHANGED <<taken, snaps, deletes, lowest, bulk>>
  BY <1>1, FewerDoomed
<1>2. ASSUME NEW s \in Servers, DeleteAll(s) PROVE WindowKept'
  <2>1. bulk \in Nat /\ bulk' = bulk + 1
    BY <1>2 DEF DeleteAll, IInv, TypeOK
  <2> QED
    BY <2>1 DEF WindowKept
<1>3. ASSUME NEW d \in deletes, DeleteFails(d) PROVE WindowKept'
  BY <1>3, FewerDoomed DEF DeleteFails
<1>4. StartJob \/ NextServer => UNCHANGED <<taken, snaps, deletes, lowest, bulk>>
  BY DEF StartJob, NextServer
<1>5. \A c \in Creators : \/ \E s \in Servers : StartRequest(c, s)
                          \/ Count(c) \/ CreatorDies(c)
                          => UNCHANGED <<taken, snaps, deletes, lowest, bulk>>
  BY DEF StartRequest, Count, CreatorDies
<1>6. \A s \in Servers : \/ ScheduleChanges(s)
                         \/ \E v \in MaxValues \cup {Empty} : EditMaximum(s, v)
                         => UNCHANGED <<taken, snaps, deletes, lowest, bulk>>
  BY DEF ScheduleChanges, EditMaximum
<1>7. UNCHANGED vars => UNCHANGED <<taken, snaps, deletes, lowest, bulk>>
  BY DEF vars
<1> QED
  BY <1>1, <1>2, <1>3, <1>4, <1>5, <1>6, <1>7, CreatedIsKept, TrimmedIsOutside,
     DeletedWasDoomed DEF Next

LEMMA Invariance == Spec => [](IInv /\ WindowKept)
<1>1. Init => IInv /\ WindowKept
  <2>1. ASSUME Init, NEW s \in Servers PROVE Window(s) = {}
    BY <2>1 DEF Init, Window
  <2> QED
    BY <2>1, InitTyped DEF Init, IInv, Numbered, OldestGoFirst, WindowKept
<1>2. IInv /\ WindowKept /\ [Next]_vars => (IInv /\ WindowKept)'
  BY StepTyped, OrderKept, WindowStep DEF IInv
<1> QED
  BY <1>1, <1>2, PTL DEF Spec

\* As long as nobody asks for all snapshots to be deleted, a server keeps as many as
\* the least maximum it was trimmed to, or all, whatever overlaps or dies.
THEOREM MaximumRetained == Spec => []RetainsMaximum
<1>1. ASSUME IInv, WindowKept, bulk = 0, NEW s \in Servers
      PROVE  Cardinality(Kept(s)) >= Lesser(lowest[s], taken[s])
  <2>1. Window(s) \in SUBSET Kept(s)
    BY <1>1 DEF WindowKept
  <2>2. IsFiniteSet(Snapshots)
    BY FS_Interval DEF Snapshots
  <2>3. Kept(s) \in SUBSET Snapshots
    BY <1>1, ServerFields DEF Kept, IInv
  <2>4. IsFiniteSet(Kept(s))
    BY <2>2, <2>3, FS_Subset
  <2>5. Cardinality(Window(s)) <= Cardinality(Kept(s))
    BY <2>1, <2>4, FS_Subset
  <2>6. Cardinality(Window(s)) \in Nat /\ Cardinality(Kept(s)) \in Nat
        /\ Cardinality(Window(s)) = Lesser(lowest[s], taken[s])
    BY <1>1, <2>4, WindowSize, FS_CardinalityType DEF IInv
  <2> QED
    BY <2>5, <2>6
<1>2. IInv /\ WindowKept => RetainsMaximum
  BY <1>1 DEF RetainsMaximum
<1> QED
  BY <1>2, Invariance, PTL
-----------------------------------------------------------------------------
(* Nor does excess pile up *)

\* As long as no maximum is edited, a creator trims to the maximum of its server.
LimitIsMaximum ==
    edits = 0 => \A c \in Creators : LET s == run[c].server IN
                   run[c].pc = "trim" /\ max[s] \notin {Unset, 0} => run[c].limit = max[s]

\* A set of numbers that is not empty has a least one.
LEMMA LeastNumber == ASSUME NEW T \in SUBSET Nat, T # {} PROVE \E m \in T : \A n \in T : m <= n
<1> DEFINE R == OpToRel(<, Nat)
<1>1. IsWellFoundedOn(R, Nat)
  BY NatLessThanWellFounded
<1>2. \A x, y \in Nat : x < y => <<x, y>> \in R
  BY DEF OpToRel
<1> HIDE DEF R
<1>3. \E x \in T : \A y \in T : ~ (<<y, x>> \in R)
  BY <1>1, WFMin
<1>4. PICK x \in T : \A y \in T : ~ (<<y, x>> \in R)
  BY <1>3
<1>5. ASSUME NEW y \in T PROVE x <= y
  <2>1. x \in Nat /\ y \in Nat
    OBVIOUS
  <2>2. ~(y < x)
    BY <1>2, <1>4, <2>1
  <2> QED
    BY <2>1, <2>2
<1> QED
  BY <1>5

LEMMA SnapshotsFinite ==
    ASSUME TypeOK, NEW s \in Servers, NEW S \in SUBSET snaps[s]
    PROVE  IsFiniteSet(S) /\ Cardinality(S) \in Nat
<1>1. IsFiniteSet(Snapshots)
  BY FS_Interval DEF Snapshots
<1>2. S \in SUBSET Snapshots
  BY ServerFields
<1> QED
  BY <1>1, <1>2, FS_Subset, FS_CardinalityType

\* The list that is left by a cut is no longer than the maximum.
LEMMA CutIsShort ==
    ASSUME TypeOK, NEW s \in Servers, NEW limit \in Nat
    PROVE  Cardinality(snaps[s] \ Excess(s, limit)) <= limit
<1> DEFINE T == snaps[s] \ Excess(s, limit)
<1>1. snaps[s] \subseteq Nat
  BY ServerFields DEF Snapshots
<1>2. ASSUME NEW n \in T
      PROVE  Cardinality(Newer(s, n)) \in Nat /\ Cardinality(Newer(s, n)) < limit
  <2>1. Cardinality(Newer(s, n)) \in Nat
    BY SnapshotsFinite DEF Newer
  <2>2. ~(Cardinality(Newer(s, n)) >= limit)
    BY DEF Excess
  <2> QED
    BY <2>1, <2>2
<1>3. IsFiniteSet(T) /\ Cardinality(T) \in Nat
  BY SnapshotsFinite
<1>4. CASE T = {}
  BY <1>4, FS_EmptySet
<1>5. CASE T # {}
  <2>1. PICK m \in T : \A n \in T : m <= n
    BY <1>1, <1>5, LeastNumber
  <2>2. T \subseteq Newer(s, m) \cup {m}
    BY <1>1, <2>1 DEF Newer
  <2>3. IsFiniteSet(Newer(s, m)) /\ m \notin Newer(s, m)
    BY <1>1, SnapshotsFinite DEF Newer
  <2>4. /\ IsFiniteSet(Newer(s, m) \cup {m})
        /\ Cardinality(Newer(s, m) \cup {m}) = Cardinality(Newer(s, m)) + 1
    BY <2>3, FS_AddElement
  <2>5. Cardinality(T) <= Cardinality(Newer(s, m) \cup {m})
    BY <2>2, <2>4, FS_Subset
  <2>6. Cardinality(Newer(s, m)) \in Nat /\ Cardinality(Newer(s, m)) < limit
    BY <1>2
  <2> HIDE DEF T
  <2>7. Cardinality(T) <= limit
    BY <1>3, <2>4, <2>5, <2>6
  <2> QED
    BY <2>7 DEF T
<1> QED
  BY <1>4, <1>5

LEMMA CreatorsFinite ==
    ASSUME NEW C \in SUBSET Creators
    PROVE  IsFiniteSet(C) /\ Cardinality(C) \in Nat
<1>1. IsFiniteSet(Creators)
  BY RequestsAreFinite, FS_AddElement DEF Creators
<1> QED
  BY <1>1, FS_Subset, FS_CardinalityType

Bounded(s) == Cardinality(Kept(s)) <= max[s] + Cardinality(InFlight(s))

MaySay(s) == edits = 0 /\ faults = 0 /\ max[s] \notin {Unset, 0}

\* Where no snapshot is kept that was not, and every creator stays in flight.
LEMMA NoMoreKept ==
    ASSUME TypeOK, TypeOK', NEW s \in Servers, MaySay(s), Bounded(s), max'[s] = max[s],
           Kept(s)' \subseteq Kept(s), InFlight(s) \subseteq InFlight(s)'
    PROVE  Bounded(s)'
<1>1. max[s] \in Nat
  BY LimitIsNat DEF MaySay
<1>2. IsFiniteSet(Kept(s)) /\ Cardinality(Kept(s)) \in Nat /\ Cardinality(Kept(s)') \in Nat
      /\ Cardinality(Kept(s)') <= Cardinality(Kept(s))
  <2>1. Kept(s) \in SUBSET snaps[s] /\ Kept(s)' \in SUBSET snaps[s]
    BY DEF Kept
  <2> QED
    BY <2>1, SnapshotsFinite, FS_Subset
<1>3. Cardinality(InFlight(s)) \in Nat /\ Cardinality(InFlight(s)') \in Nat
      /\ Cardinality(InFlight(s)) <= Cardinality(InFlight(s)')
  <2>1. InFlight(s) \in SUBSET Creators /\ InFlight(s)' \in SUBSET Creators
    BY DEF InFlight
  <2> QED
    BY <2>1, CreatorsFinite, FS_Subset
<1>4. Cardinality(Kept(s)) <= max[s] + Cardinality(InFlight(s))
  BY DEF Bounded
<1>5. Cardinality(Kept(s)') <= max'[s] + Cardinality(InFlight(s)')
  BY <1>1, <1>2, <1>3, <1>4
<1> QED
  BY <1>5 DEF Bounded

\* Where what is kept is no more than the maximum anyhow.
LEMMA KeptWithin ==
    ASSUME TypeOK, NEW s \in Servers, MaySay(s), max'[s] = max[s],
           NEW S \in SUBSET snaps[s], Kept(s)' \subseteq S, Cardinality(S) <= max[s]
    PROVE  Bounded(s)'
<1>1. max[s] \in Nat
  BY LimitIsNat DEF MaySay
<1>2. Cardinality(S) \in Nat /\ Cardinality(Kept(s)') \in Nat
      /\ Cardinality(Kept(s)') <= Cardinality(S)
  BY SnapshotsFinite, FS_Subset
<1>3. Cardinality(InFlight(s)') \in Nat
  BY CreatorsFinite DEF InFlight
<1>4. Cardinality(Kept(s)') <= max'[s] + Cardinality(InFlight(s)')
  BY <1>1, <1>2, <1>3
<1> QED
  BY <1>4 DEF Bounded

EInv == IInv /\ ExcessIsInFlight /\ LimitIsMaximum

LEMMA TurnedIs ==
    ASSUME TypeOK, NEW c \in Creators, Turn(c)
    PROVE  /\ run'[c].pc \in {"idle", "next"}
           /\ \A b \in Creators : b # c => run'[b] = run[b]
  BY DEF TypeOK, Turn, Runs

\* The steps of one creator leave the others in flight.
LEMMA OthersInFlight ==
    ASSUME NEW c \in Creators, \A b \in Creators : b # c => run'[b] = run[b], NEW s
    PROVE  InFlight(s) \ {c} \subseteq InFlight(s)'
  BY DEF InFlight

LEMMA BoundedBefore ==
    ASSUME EInv, NEW s \in Servers, MaySay(s) PROVE Bounded(s)
  BY DEF EInv, ExcessIsInFlight, MaySay, Bounded

\* Steps that keep no snapshot more and put nobody out of flight.
LEMMA QuietSteps ==
    ASSUME EInv, TypeOK', UNCHANGED <<max, edits, faults>>,
           \A s \in Servers : Kept(s)' \subseteq Kept(s) /\ InFlight(s) \subseteq InFlight(s)'
    PROVE  ExcessIsInFlight'
<1>1. ASSUME NEW s \in Servers, MaySay(s) PROVE Bounded(s)'
  BY <1>1, BoundedBefore, NoMoreKept DEF EInv, IInv
<1> QED
  BY <1>1 DEF ExcessIsInFlight, MaySay, Bounded

LEMMA SameKept ==
    ASSUME UNCHANGED <<snaps, deletes>>, NEW s PROVE Kept(s)' = Kept(s)
  BY DEF Kept, Doomed

LEMMA CreatedIsInFlight ==
    ASSUME EInv, TypeOK', NEW c \in Creators, Create(c),
           NEW s \in Servers, s = run[c].server
    PROVE  ExcessIsInFlight'
<1>1. s \in Servers /\ UNCHANGED <<deletes, max, edits, faults>> /\ run[c].pc = "create"
  BY DEF EInv, IInv, TypeOK, Runs, Create
<1>2. \A t : c \notin InFlight(t)
  BY <1>1 DEF InFlight
<1>3. CASE Turn(c) /\ UNCHANGED <<taken, snaps>>
  <2>1. \A b \in Creators : b # c => run'[b] = run[b]
    BY <1>3, TurnedIs DEF EInv, IInv
  <2> QED
    BY <1>1, <1>2, <1>3, <2>1, OthersInFlight, SameKept, QuietSteps
<1>4. CASE ~(Turn(c) /\ UNCHANGED <<taken, snaps>>)
  <2> DEFINE new == taken[s] + 1
  <2>1. /\ snaps' = [snaps EXCEPT ![s] = @ \cup {new}]
        /\ run' = [run EXCEPT ![c].pc = "count", ![c].made = new]
    BY <1>4 DEF Create
  <2> HIDE DEF new
  <2>2. /\ \A b \in Creators : b # c => run'[b] = run[b]
        /\ run'[c].pc = "count" /\ run'[c].server = s
    BY <2>1 DEF EInv, IInv, TypeOK, Runs
  <2>3. ASSUME NEW t \in Servers PROVE Doomed(t)' = Doomed(t)
    BY <1>1 DEF Doomed
  <2>4. ASSUME NEW t \in Servers, t # s, MaySay(t) PROVE Bounded(t)'
    <3>1. Kept(t)' = Kept(t)
      BY <1>1, <2>1, <2>3, <2>4 DEF Kept, EInv, IInv, TypeOK
    <3>2. InFlight(t) \subseteq InFlight(t)'
      BY <1>2, <2>2, OthersInFlight
    <3> QED
      BY <1>1, <2>4, <3>1, <3>2, BoundedBefore, NoMoreKept DEF EInv, IInv
  <2>5. ASSUME MaySay(s) PROVE Bounded(s)'
    <3>1. Kept(s)' \subseteq Kept(s) \cup {new}
      BY <1>1, <2>1, <2>3 DEF Kept, EInv, IInv, TypeOK
    <3>2. InFlight(s) \cup {c} \subseteq InFlight(s)'
      BY <1>2, <2>2, OthersInFlight DEF InFlight
    <3>3. max[s] \in Nat /\ max'[s] = max[s]
      BY <1>1, <2>5, LimitIsNat DEF MaySay, EInv, IInv
    <3>4. /\ IsFiniteSet(Kept(s)) /\ Cardinality(Kept(s)) \in Nat
          /\ IsFiniteSet(Kept(s) \cup {new}) /\ Cardinality(Kept(s) \cup {new}) \in Nat
          /\ Cardinality(Kept(s) \cup {new}) <= Cardinality(Kept(s)) + 1
      <4>1. IsFiniteSet(Kept(s)) /\ Cardinality(Kept(s)) \in Nat
        BY <1>1, SnapshotsFinite DEF Kept, EInv, IInv
      <4>2. /\ IsFiniteSet(Kept(s) \cup {new})
            /\ Cardinality(Kept(s) \cup {new})
                 = IF new \in Kept(s) THEN Cardinality(Kept(s)) ELSE Cardinality(Kept(s)) + 1
        BY <4>1, FS_AddElement
      <4> QED
        BY <4>1, <4>2
    <3>5. Cardinality(Kept(s)') \in Nat
          /\ Cardinality(Kept(s)') <= Cardinality(Kept(s) \cup {new})
      BY <3>1, <3>4, FS_Subset, FS_CardinalityType
    <3>6. /\ Cardinality(InFlight(s)) \in Nat /\ Cardinality(InFlight(s)') \in Nat
          /\ Cardinality(InFlight(s)) + 1 <= Cardinality(InFlight(s)')
      <4>1. IsFiniteSet(InFlight(s)) /\ Cardinality(InFlight(s)) \in Nat
        BY CreatorsFinite DEF InFlight
      <4>2. IsFiniteSet(InFlight(s)') /\ Cardinality(InFlight(s)') \in Nat
        BY CreatorsFinite DEF InFlight
      <4>3. Cardinality(InFlight(s) \cup {c}) = Cardinality(InFlight(s)) + 1
        BY <1>2, <4>1, FS_AddElement
      <4>4. Cardinality(InFlight(s) \cup {c}) <= Cardinality(InFlight(s)')
        BY <3>2, <4>2, FS_Subset
      <4> QED
        BY <4>1, <4>2, <4>3, <4>4
    <3>7. Cardinality(Kept(s)) <= max[s] + Cardinality(InFlight(s))
      BY <1>1, <2>5, BoundedBefore DEF Bounded
    <3>8. Cardinality(Kept(s)') <= max'[s] + Cardinality(InFlight(s)')
      BY <3>3, <3>4, <3>5, <3>6, <3>7
    <3> QED
      BY <3>8 DEF Bounded
  <2> QED
    BY <1>1, <2>4, <2>5 DEF ExcessIsInFlight, MaySay, Bounded
<1> QED
  BY <1>3, <1>4

LEMMA CountedIsWithin ==
    ASSUME EInv, TypeOK', NEW c \in Creators, Count(c),
           NEW s \in Servers, s = run[c].server
    PROVE  ExcessIsInFlight'
<1> DEFINE limit == IF c = RecurringJob THEN JobLimit(s) ELSE max[s]
<1>1. s \in Servers /\ UNCHANGED <<snaps, deletes, max, edits, faults>> /\ run[c].pc = "count"
  BY DEF EInv, IInv, TypeOK, Runs, Count
<1>2. CASE Turn(c)
  <2>1. \A b \in Creators : b # c => run'[b] = run[b]
    BY <1>2, TurnedIs DEF EInv, IInv
  <2>2. ASSUME NEW t \in Servers, t # s, MaySay(t) PROVE Bounded(t)'
    <3>1. InFlight(t) \subseteq InFlight(t)'
      BY <2>1, <2>2, OthersInFlight DEF InFlight
    <3> QED
      BY <1>1, <2>2, <3>1, SameKept, BoundedBefore, NoMoreKept DEF EInv, IInv
  <2>3. ASSUME MaySay(s), ~Exceeds(s, limit) PROVE Bounded(s)'
    <3>1. limit = max[s] /\ max[s] \in Nat
      BY <1>1, <2>3, LimitIsNat DEF MaySay, JobLimit, EInv, IInv
    <3>2. Cardinality(snaps[s]) \in Nat
      BY <1>1, SnapshotsFinite DEF EInv, IInv
    <3>3. Cardinality(snaps[s]) <= max[s]
      BY <2>3, <3>1, <3>2 DEF Exceeds
    <3>4. Kept(s)' \subseteq snaps[s]
      BY <1>1 DEF Kept
    <3> QED
      BY <1>1, <2>3, <3>3, <3>4, KeptWithin DEF EInv, IInv
  <2>4. ASSUME MaySay(s), Exceeds(s, limit) PROVE FALSE
    <3>1. limit = max[s] /\ max[s] \notin {Unset, 0}
      BY <2>4 DEF MaySay, JobLimit
    <3>2. run'[c].pc \in {"idle", "next"}
      BY <1>2, TurnedIs DEF EInv, IInv
    <3>3. run' = [run EXCEPT ![c].pc = "trim", ![c].limit = limit]
      BY <2>4, <3>1 DEF Count
    <3>4. run'[c].pc = "trim"
      BY <3>3 DEF EInv, IInv, TypeOK, Runs
    <3> QED
      BY <3>2, <3>4
  <2> QED
    BY <1>1, <2>2, <2>3, <2>4 DEF ExcessIsInFlight, MaySay, Bounded
<1>3. CASE ~Turn(c)
  <2>1. run' = [run EXCEPT ![c].pc = "trim", ![c].limit = limit]
    BY <1>3 DEF Count
  <2> HIDE DEF limit
  <2>2. /\ \A b \in Creators : b # c => run'[b] = run[b]
        /\ run'[c].pc = "trim" /\ run'[c].server = s
    BY <2>1 DEF EInv, IInv, TypeOK, Runs
  <2>3. ASSUME NEW t \in Servers PROVE InFlight(t) \subseteq InFlight(t)'
    BY <2>2 DEF InFlight
  <2> QED
    BY <1>1, <2>3, SameKept, QuietSteps
<1> QED
  BY <1>2, <1>3

LEMMA TrimmedIsWithin ==
    ASSUME EInv, TypeOK', NEW c \in Creators, Trim(c),
           NEW s \in Servers, s = run[c].server
    PROVE  ExcessIsInFlight'
<1> DEFINE limit == run[c].limit
           new == [server |-> s, snaps |-> Excess(s, limit)]
<1>1. /\ s \in Servers /\ limit \in Nat /\ run[c].pc = "trim"
      /\ UNCHANGED <<snaps, max, edits, faults>> /\ deletes' = deletes \cup {new}
  BY RunFields DEF EInv, IInv, TypeOK, Trim
<1>2. \A b \in Creators : b # c => run'[b] = run[b]
  BY TurnedIs DEF EInv, IInv, Trim
<1>3. ASSUME NEW t \in Servers, t # s, MaySay(t) PROVE Bounded(t)'
  <2>1. Kept(t)' \subseteq Kept(t)
    <3>1. Doomed(t) \subseteq Doomed(t)'
      BY <1>1 DEF Doomed
    <3> QED
      BY <1>1, <3>1 DEF Kept
  <2>2. InFlight(t) \subseteq InFlight(t)'
    BY <1>2, <1>3, OthersInFlight DEF InFlight
  <2> QED
    BY <1>1, <1>3, <2>1, <2>2, BoundedBefore, NoMoreKept DEF EInv, IInv
<1>4. ASSUME MaySay(s) PROVE Bounded(s)'
  <2>1. limit = max[s]
    BY <1>1, <1>4 DEF EInv, LimitIsMaximum, MaySay
  <2>2. Kept(s)' \subseteq snaps[s] \ Excess(s, limit)
    <3>1. Excess(s, limit) \subseteq Doomed(s)'
      <4>1. new \in deletes' /\ new.server = s /\ new.snaps = Excess(s, limit)
        BY <1>1
      <4> HIDE DEF new
      <4> QED
        BY <4>1 DEF Doomed
    <3> QED
      BY <1>1, <3>1 DEF Kept
  <2>3. Cardinality(snaps[s] \ Excess(s, limit)) <= max[s]
    BY <1>1, <2>1, CutIsShort DEF EInv, IInv
  <2> QED
    BY <1>1, <1>4, <2>2, <2>3, KeptWithin DEF EInv, IInv
<1> QED
  BY <1>1, <1>3, <1>4 DEF ExcessIsInFlight, MaySay, Bounded

LEMMA DeletedWasNotKept ==
    ASSUME EInv, NEW d \in deletes, DeleteOne(d), NEW s \in Servers
    PROVE  Kept(s)' \subseteq Kept(s)
<1>1. d.server \in Servers
  BY DEF EInv, IInv, TypeOK, DeleteJobs
<1>2. CASE d.snaps = {}
  <2>1. snaps' = snaps /\ deletes' = deletes \ {d}
    BY <1>2 DEF DeleteOne
  <2>2. Doomed(s)' = Doomed(s)
    BY <1>2, <2>1 DEF Doomed
  <2> QED
    BY <2>1, <2>2 DEF Kept
<1>3. CASE d.snaps # {}
  <2>1. PICK m \in d.snaps :
          /\ snaps' = [snaps EXCEPT ![d.server] = @ \ {m}]
          /\ deletes' = (deletes \ {d}) \cup {[d EXCEPT !.snaps = @ \ {m}]}
    BY <1>3 DEF DeleteOne
  <2> SUFFICES ASSUME NEW n \in snaps'[s], n \in Doomed(s), n \notin Doomed(s)' PROVE FALSE
    <3>1. snaps'[s] \subseteq snaps[s]
      BY <1>1, <2>1 DEF EInv, IInv, TypeOK
    <3> QED
      BY <3>1 DEF Kept
  <2>2. PICK e \in deletes : e.server = s /\ n \in e.snaps
    BY DoomedIs
  <2>3. CASE e # d
    <3>1. e \in deletes'
      BY <2>1, <2>3
    <3> QED
      BY <2>2, <3>1 DEF Doomed
  <2>4. CASE e = d
    <3>1. [d EXCEPT !.snaps = @ \ {m}].server = s
          /\ [d EXCEPT !.snaps = @ \ {m}].snaps = d.snaps \ {m}
      BY <2>2, <2>4 DEF EInv, IInv, TypeOK, DeleteJobs
    <3>2. n # m
      BY <1>1, <2>1, <2>2, <2>4 DEF EInv, IInv, TypeOK
    <3>3. n \in [d EXCEPT !.snaps = @ \ {m}].snaps
      BY <2>2, <2>4, <3>1, <3>2
    <3> QED
      BY <2>1, <3>1, <3>3 DEF Doomed
  <2> QED
    BY <2>3, <2>4
<1> QED
  BY <1>2, <1>3

LEMMA ExcessStep == ASSUME EInv, TypeOK', [Next]_vars PROVE ExcessIsInFlight'
<1> DEFINE Same == UNCHANGED <<snaps, deletes, max, edits, faults>>
<1>t. TypeOK /\ run \in [Creators -> Runs] /\ edits \in Nat /\ faults \in Nat
  BY DEF EInv, IInv, TypeOK
<1>1. ASSUME Same, NEW c \in Creators, run[c].pc \in {"idle", "next"},
             \A b \in Creators : b # c => run'[b] = run[b]
      PROVE  ExcessIsInFlight'
  <2>1. ASSUME NEW s \in Servers PROVE InFlight(s) \subseteq InFlight(s)'
    BY <1>1 DEF InFlight
  <2> QED
    BY <1>1, <2>1, SameKept, QuietSteps
<1>2. CASE StartJob \/ NextServer
  <2>1. /\ Same /\ RecurringJob \in Creators /\ run[RecurringJob].pc \in {"idle", "next"}
        /\ \A b \in Creators : b # RecurringJob => run'[b] = run[b]
    BY <1>t, <1>2 DEF StartJob, NextServer, Creators
  <2> QED
    BY <1>1, <2>1
<1>3. ASSUME NEW c \in Creators, NEW s \in Servers, StartRequest(c, s) PROVE ExcessIsInFlight'
  <2>1. /\ Same /\ run[c].pc \in {"idle", "next"}
        /\ \A b \in Creators : b # c => run'[b] = run[b]
    BY <1>t, <1>3 DEF StartRequest
  <2> QED
    BY <1>1, <2>1
<1>4. ASSUME NEW c \in Creators, CreatorDies(c) PROVE ExcessIsInFlight'
  BY <1>t, <1>4 DEF CreatorDies, ExcessIsInFlight
<1>5. ASSUME NEW d \in deletes, DeleteOne(d) PROVE ExcessIsInFlight'
  <2>1. UNCHANGED <<run, max, edits, faults>>
    BY <1>5 DEF DeleteOne
  <2>2. \A s : InFlight(s)' = InFlight(s)
    BY <2>1 DEF InFlight
  <2> QED
    BY <1>5, <2>1, <2>2, DeletedWasNotKept, QuietSteps
<1>6. ASSUME NEW d \in deletes, DeleteFails(d) PROVE ExcessIsInFlight'
  BY <1>t, <1>6 DEF DeleteFails, ExcessIsInFlight
<1>7. ASSUME NEW s \in Servers, DeleteAll(s) PROVE ExcessIsInFlight'
  <2>1. UNCHANGED <<snaps, run, max, edits, faults>> /\ deletes \subseteq deletes'
    BY <1>7 DEF DeleteAll
  <2>2. \A t : InFlight(t)' = InFlight(t)
    BY <2>1 DEF InFlight
  <2>3. ASSUME NEW t \in Servers PROVE Kept(t)' \subseteq Kept(t)
    <3>1. Doomed(t) \subseteq Doomed(t)'
      BY <2>1 DEF Doomed
    <3> QED
      BY <2>1, <3>1 DEF Kept
  <2> QED
    BY <2>1, <2>2, <2>3, QuietSteps
<1>8. CASE UNCHANGED <<snaps, deletes, run, max, edits, faults>>
  <2>1. \A t : InFlight(t)' = InFlight(t)
    BY <1>8 DEF InFlight
  <2> QED
    BY <1>8, <2>1, SameKept, QuietSteps
<1>9. ASSUME NEW s, NEW v, EditMaximum(s, v) PROVE ExcessIsInFlight'
  BY <1>t, <1>9 DEF EditMaximum, ExcessIsInFlight
<1>10. \A s : ScheduleChanges(s) => UNCHANGED <<snaps, deletes, run, max, edits, faults>>
  BY DEF ScheduleChanges
<1>11. UNCHANGED vars => UNCHANGED <<snaps, deletes, run, max, edits, faults>>
  BY DEF vars
<1>12. ASSUME NEW c \in Creators, Create(c) \/ Count(c) \/ Trim(c) PROVE ExcessIsInFlight'
  <2>1. run[c].server \in Servers
    BY <1>t DEF Runs
  <2> QED
    BY <1>12, <2>1, CreatedIsInFlight, CountedIsWithin, TrimmedIsWithin
<1> QED
  BY <1>2, <1>3, <1>4, <1>5, <1>6, <1>7, <1>8, <1>9, <1>10, <1>11, <1>12 DEF Next

LEMMA LimitStep == ASSUME TypeOK, LimitIsMaximum, [Next]_vars PROVE LimitIsMaximum'
<1>t. run \in [Creators -> Runs] /\ edits \in Nat
  BY DEF TypeOK
<1>1. ASSUME UNCHANGED <<max, edits>>, NEW c \in Creators,
             \A b \in Creators : b # c => run'[b] = run[b],
             \/ run'[c].pc # "trim"
             \/ /\ run'[c].server = run[c].server
                /\ max[run[c].server] \notin {Unset, 0} => run'[c].limit = max[run[c].server]
      PROVE  LimitIsMaximum'
  BY <1>1 DEF LimitIsMaximum
<1>2. CASE StartJob \/ NextServer
  <2>1. UNCHANGED <<max, edits>> /\ RecurringJob \in Creators
        /\ \A b \in Creators : b # RecurringJob => run'[b] = run[b]
    BY <1>t, <1>2 DEF StartJob, NextServer, Creators
  <2>2. run'[RecurringJob].pc # "trim"
    <3>1. run[RecurringJob] \in Runs
      BY <1>t, <2>1
    <3>2. CASE StartJob
      BY <1>t, <2>1, <3>1, <3>2 DEF StartJob, Runs
    <3>3. CASE run' = [run EXCEPT ![RecurringJob].pc = "idle"]
      BY <1>t, <2>1, <3>1, <3>3 DEF Runs
    <3>4. ASSUME NEW s \in run[RecurringJob].todo,
                 run' = [run EXCEPT ![RecurringJob].pc = "create",
                                    ![RecurringJob].server = s,
                                    ![RecurringJob].todo = @ \ {s}]
          PROVE  run'[RecurringJob].pc # "trim"
      BY <1>t, <2>1, <3>1, <3>4 DEF Runs
    <3> QED
      BY <1>2, <3>2, <3>3, <3>4 DEF NextServer
  <2> QED
    BY <1>1, <2>1, <2>2
<1>3. ASSUME NEW c \in Creators, NEW s \in Servers, StartRequest(c, s) PROVE LimitIsMaximum'
  <2>1. /\ UNCHANGED <<max, edits>> /\ run'[c].pc # "trim"
        /\ \A b \in Creators : b # c => run'[b] = run[b]
    BY <1>t, <1>3 DEF StartRequest, Runs
  <2> QED
    BY <1>1, <2>1
<1>4. ASSUME NEW c \in Creators, Turn(c), UNCHANGED <<max, edits>> PROVE LimitIsMaximum'
  <2>1. run'[c].pc # "trim" /\ \A b \in Creators : b # c => run'[b] = run[b]
    BY <1>4, TurnedIs
  <2> QED
    BY <1>1, <1>4, <2>1
<1>5. ASSUME NEW c \in Creators, Create(c) PROVE LimitIsMaximum'
  <2>1. CASE ~Turn(c)
    <3> DEFINE new == taken[run[c].server] + 1
    <3>1. run' = [run EXCEPT ![c].pc = "count", ![c].made = new]
      BY <1>5, <2>1 DEF Create
    <3> HIDE DEF new
    <3>2. /\ run'[c].pc # "trim" /\ UNCHANGED <<max, edits>>
          /\ \A b \in Creators : b # c => run'[b] = run[b]
      BY <1>t, <1>5, <3>1 DEF Create, Runs
    <3> QED
      BY <1>1, <3>2
  <2> QED
    BY <1>4, <1>5, <2>1 DEF Create
<1>6. ASSUME NEW c \in Creators, Count(c) PROVE LimitIsMaximum'
  <2> DEFINE s == run[c].server
             limit == IF c = RecurringJob THEN JobLimit(s) ELSE max[s]
  <2>1. CASE ~Turn(c)
    <3>1. run' = [run EXCEPT ![c].pc = "trim", ![c].limit = limit]
      BY <1>6, <2>1 DEF Count
    <3>2. max[s] # Unset => limit = max[s]
      BY DEF JobLimit
    <3> HIDE DEF limit
    <3>3. /\ run'[c].server = s /\ run'[c].limit = limit
          /\ \A b \in Creators : b # c => run'[b] = run[b]
      BY <1>t, <3>1 DEF Runs
    <3>4. UNCHANGED <<max, edits>>
      BY <1>6 DEF Count
    <3> QED
      BY <1>1, <3>2, <3>3, <3>4
  <2> QED
    BY <1>4, <1>6, <2>1 DEF Count
<1>7. ASSUME NEW c \in Creators, Trim(c) PROVE LimitIsMaximum'
  BY <1>4, <1>7 DEF Trim
<1>8. ASSUME NEW c \in Creators, CreatorDies(c) PROVE LimitIsMaximum'
  <2>1. /\ UNCHANGED <<max, edits>> /\ run'[c].pc # "trim"
        /\ \A b \in Creators : b # c => run'[b] = run[b]
    BY <1>t, <1>8 DEF CreatorDies, Runs
  <2> QED
    BY <1>1, <2>1
<1>9. ASSUME NEW s, NEW v, EditMaximum(s, v) PROVE LimitIsMaximum'
  BY <1>t, <1>9 DEF EditMaximum, LimitIsMaximum
<1>10. CASE UNCHANGED <<run, max, edits>>
  BY <1>10 DEF LimitIsMaximum
<1>11. \A d : DeleteOne(d) \/ DeleteFails(d) => UNCHANGED <<run, max, edits>>
  BY DEF DeleteOne, DeleteFails
<1>12. \A s : DeleteAll(s) \/ ScheduleChanges(s) => UNCHANGED <<run, max, edits>>
  BY DEF DeleteAll, ScheduleChanges
<1>13. UNCHANGED vars => UNCHANGED <<run, max, edits>>
  BY DEF vars
<1> QED
  BY <1>2, <1>3, <1>5, <1>6, <1>7, <1>8, <1>9, <1>10, <1>11, <1>12, <1>13 DEF Next

\* Beyond the maximum a server keeps one snapshot for each creator on its way to
\* trimming, for any number of them.
THEOREM ExcessBounded == Spec => []ExcessIsInFlight
<1>1. Init => EInv
  <2> SUFFICES ASSUME Init PROVE EInv
    OBVIOUS
  <2>1. IInv
    BY InitTyped DEF Init, IInv, Numbered, OldestGoFirst
  <2>2. LimitIsMaximum
    BY DEF Init, LimitIsMaximum
  <2>3. ASSUME NEW s \in Servers, MaySay(s) PROVE Bounded(s)
    <3>1. Kept(s) = {} /\ max[s] \in Nat
      BY <2>1, <2>3, LimitIsNat DEF Init, Kept, MaySay, IInv
    <3>2. Cardinality(Kept(s)) = 0
      BY <3>1, FS_EmptySet
    <3>3. Cardinality(InFlight(s)) \in Nat
      BY CreatorsFinite DEF InFlight
    <3> QED
      BY <3>1, <3>2, <3>3 DEF Bounded
  <2> QED
    BY <2>1, <2>2, <2>3 DEF EInv, ExcessIsInFlight, MaySay, Bounded
<1>2. EInv /\ [Next]_vars => EInv'
  BY StepTyped, OrderKept, ExcessStep, LimitStep DEF EInv, IInv
<1>3. EInv => ExcessIsInFlight
  BY DEF EInv
<1> QED
  BY <1>1, <1>2, <1>3, PTL DEF Spec
=============================================================================
