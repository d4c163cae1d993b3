-------------------------- MODULE HealthChecks_proofs --------------------------
(***************************************************************************)
(* Theorems about HealthChecks, for any resources, configurations and      *)
(* limits on the retries.                                                  *)
(***************************************************************************)
EXTENDS HealthChecks, FiniteSetTheorems, WellFoundedInduction, TLAPS

(* The limits, of which the type of the counters needs the largest *)

Largest == CHOOSE m \in RetryLimits : \A l \in RetryLimits : l <= m

LEMMA LargestIsLimit == Largest \in RetryLimits /\ \A l \in RetryLimits : l <= Largest
  BY RetryLimitsAreBounded DEF Largest

LEMMA ConfigIsSequence ==
    ASSUME NEW c \in Configs
    PROVE  \E n \in 0..MaxChecks : /\ n \in Nat /\ c \in [1..n -> RetryLimits]
                                   /\ c \in Seq(RetryLimits) /\ Len(c) = n
<1>1. PICK n \in 0..MaxChecks : c \in [1..n -> RetryLimits]
  BY DEF Configs
<1>2. n \in Nat
  BY MaxChecksIsNat
<1> QED
  BY <1>1, <1>2

(* The check under way *)

Checking == {"probe", "wait", "count"}

Current ==
    /\ pc \in {"check"} \cup Checking => \E r \in Resources : current = {r}
    /\ pc = "check" =>
         \A r \in current : index >= 1 /\ index <= Len(config[r]) + 1 /\ failing < index
    /\ pc \in Checking =>
         \A r \in current :
           /\ index >= 1 /\ index <= Len(config[r]) /\ failing < index
           /\ attempts <= config[r][index] + 1
           /\ pc = "count" \/ requested = attempts
           /\ requested <= config[r][index] + 1

Counts == index \in Nat /\ failing \in Nat /\ attempts \in Nat /\ requested \in Nat

Shape ==
    /\ config \in [Resources -> Configs]
    /\ todo \in SUBSET Resources /\ current \in SUBSET Resources
    /\ Counts

CInv == Shape /\ Current

LEMMA InitCInv == Init => CInv
  BY DEF Init, CInv, Shape, Current, Counts, Checking

LEMMA CheckAt ==
    ASSUME CInv, NEW r \in current, index >= 1, index <= Len(config[r])
    PROVE  config[r][index] \in RetryLimits /\ config[r][index] \in Nat
<1>1. config[r] \in Configs
  BY DEF CInv, Shape
<1>2. PICK n \in 0..MaxChecks : n \in Nat /\ config[r] \in [1..n -> RetryLimits] /\ Len(config[r]) = n
  BY <1>1, ConfigIsSequence
<1>3. index \in 1..n
  BY <1>2 DEF CInv, Shape, Counts
<1> QED
  BY <1>2, <1>3, RetryLimitsAreNats

LEMMA StepCInv == ASSUME CInv, [Next]_vars PROVE CInv'
<1> USE DEF CInv, Shape, Counts, Checking
<1>1. CASE UNCHANGED vars
  BY <1>1 DEF vars, Current
<1>2. CASE NextResource
  <2>1. CASE todo = {} /\ pc' = "alert" /\ UNCHANGED <<todo, current, index, failing>>
    BY <1>2, <2>1 DEF NextResource, Current
  <2>2. ASSUME NEW r \in todo, pc' = "error", todo' = todo \ {r},
               UNCHANGED <<current, index, failing>>
        PROVE  CInv'
    BY <1>2, <2>2 DEF NextResource, Current
  <2>3. ASSUME NEW r \in todo, todo' = todo \ {r},
               pc' = "check", current' = {r}, index' = 1, failing' = 0
        PROVE  CInv'
    <3>1. r \in Resources /\ config[r] \in Configs /\ UNCHANGED <<config, attempts, requested>>
      BY <1>2, <2>3 DEF NextResource
    <3>2. Len(config[r]) \in Nat
      BY <3>1, ConfigIsSequence
    <3>3. Current'
      BY <2>3, <3>1, <3>2 DEF Current
    <3> QED
      BY <2>3, <3>1, <3>3
  <2> QED
    BY <1>2, <2>1, <2>2, <2>3 DEF NextResource
<1>3. CASE NextCheck
  <2>1. PICK r \in Resources : current = {r}
    BY <1>3 DEF NextCheck, Current
  <2>2. index >= 1 /\ index <= Len(config[r]) + 1 /\ failing < index
    BY <1>3, <2>1 DEF NextCheck, Current
  <2>3. UNCHANGED <<config, todo, index, failing>>
    BY <1>3 DEF NextCheck
  <2>4. CASE index <= Len(config[r])
    <3>1. pc' = "probe" /\ attempts' = 0 /\ requested' = 0 /\ current' = current
      BY <1>3, <2>1, <2>4 DEF NextCheck
    <3>2. config[r][index] \in Nat
      BY <2>1, <2>2, <2>4, CheckAt
    <3>3. Current'
      BY <2>1, <2>2, <2>3, <2>4, <3>1, <3>2 DEF Current
    <3> QED
      BY <2>3, <3>1, <3>3
  <2>5. CASE ~(index <= Len(config[r]))
    <3>1. pc' = "resource" /\ current' = {} /\ UNCHANGED <<attempts, requested>>
      BY <1>3, <2>1, <2>5 DEF NextCheck
    <3> QED
      BY <2>3, <3>1 DEF Current
  <2> QED
    BY <2>4, <2>5
<1>4. CASE Probe
  <2>1. PICK r \in Resources : current = {r}
    BY <1>4 DEF Probe, Current
  <2>2. /\ index >= 1 /\ index <= Len(config[r]) /\ failing < index
        /\ attempts <= config[r][index] + 1 /\ requested = attempts
    BY <1>4, <2>1 DEF Probe, Current
  <2>3. UNCHANGED <<config, todo, current, index, failing>>
    BY <1>4 DEF Probe
  <2>4. config[r][index] \in Nat
    BY <2>1, <2>2, CheckAt
  <2> DEFINE limit == config[r][index]
  <2>5. CASE ~MayTry(limit)
    <3>1. pc' = "count" /\ UNCHANGED <<attempts, requested>>
      BY <1>4, <2>1, <2>5 DEF Probe
    <3>2. Current'
      BY <2>1, <2>2, <2>3, <3>1 DEF Current
    <3> QED
      BY <2>3, <3>1, <3>2
  <2>6. CASE MayTry(limit)
    <3>1. attempts <= limit
      BY <2>6 DEF MayTry
    <3>2. requested' = requested + 1
      BY <1>4, <2>1, <2>2, <2>4, <2>6, <3>1 DEF Probe
    <3>3. \/ pc' = "count" /\ attempts' = attempts
          \/ pc' = "wait" /\ attempts' = attempts + 1
      BY <1>4, <2>1, <2>6 DEF Probe, AttemptsAfterFailure
    <3>4. attempts' \in Nat /\ requested' \in Nat /\ requested' <= limit + 1 /\ attempts' <= limit + 1
          /\ (pc' = "count" \/ requested' = attempts')
      BY <2>2, <2>4, <3>1, <3>2, <3>3
    <3>5. Current'
      BY <2>1, <2>2, <2>3, <3>3, <3>4 DEF Current
    <3> QED
      BY <2>3, <3>4, <3>5
  <2> QED
    BY <2>5, <2>6
<1>5. CASE Wait
  BY <1>5 DEF Wait, Current
<1>6. CASE Count
  <2>1. PICK r \in Resources : current = {r}
    BY <1>6 DEF Count, Current
  <2>2. index >= 1 /\ index <= Len(config[r]) /\ failing < index
    BY <1>6, <2>1 DEF Count, Current
  <2>3. /\ UNCHANGED <<config, todo, current, attempts, requested>>
        /\ index' = index + 1 /\ pc' = "check"
    BY <1>6 DEF Count
  <2>4. failing' = failing \/ failing' = failing + 1
    BY <1>6, <2>1 DEF Count
  <2>5. Len(config[r]) \in Nat
    BY <2>1, ConfigIsSequence
  <2>6. index' >= 1 /\ index' <= Len(config[r]) + 1 /\ failing' < index' /\ failing' \in Nat
    BY <2>2, <2>3, <2>4, <2>5
  <2>7. Current'
    BY <2>1, <2>3, <2>6 DEF Current
  <2> QED
    BY <2>3, <2>6, <2>7
<1>7. CASE Alert
  BY <1>7 DEF Alert, Current
<1> QED
  BY <1>1, <1>2, <1>3, <1>4, <1>5, <1>6, <1>7 DEF Next

LEMMA Invariance == Init /\ [][Next]_vars => []CInv
  BY InitCInv, StepCInv, PTL

\* A check sends at most max_retries requests beyond the first, whatever the server
\* answers.
THEOREM RetriesBounded == Spec => []RetriesAreBounded
<1>1. CInv => RetriesAreBounded
  BY DEF CInv, Current, Checking, RetriesAreBounded
<1> QED
  BY <1>1, Invariance, PTL DEF Spec
-----------------------------------------------------------------------------
(* Types *)

IInv == CInv /\ TypeOK

LEMMA AttemptsTyped ==
    ASSUME NEW n \in Nat, NEW limit \in RetryLimits, n <= limit + 1
    PROVE  n \in Attempts
<1>1. Largest \in Nat /\ limit \in Nat /\ limit <= Largest
  BY LargestIsLimit, RetryLimitsAreNats
<1>2. Attempts = 0..(1 + Largest)
  BY DEF Attempts, Largest
<1> QED
  BY <1>1, <1>2

LEMMA ZeroTyped == 0 \in Attempts
<1>1. Largest \in RetryLimits /\ Largest \in Nat
  BY LargestIsLimit, RetryLimitsAreNats
<1>2. 0 \in Nat /\ 0 <= Largest + 1
  BY <1>1
<1> QED
  BY <1>1, <1>2, AttemptsTyped

LEMMA InitTyped == Init => TypeOK
<1> SUFFICES ASSUME Init PROVE TypeOK
  OBVIOUS
<1>1. 0 \in Attempts
  BY ZeroTyped
<1>2. Cardinality(current) <= 1
  BY FS_EmptySet DEF Init
<1> QED
  BY <1>1, <1>2, MaxChecksIsNat DEF Init, TypeOK

LEMMA StepTyped == ASSUME IInv, CInv', [Next]_vars PROVE TypeOK'
<1> USE MaxChecksIsNat DEF IInv, TypeOK
<1>0. CInv
  OBVIOUS
<1>a. ASSUME NEW r \in Resources
      PROVE  Cardinality({r}) <= 1 /\ Cardinality({}) <= 1 /\ Len(config[r]) \in 0..MaxChecks
  <2>1. Cardinality({r}) = 1 /\ Cardinality({}) = 0
    BY FS_Singleton, FS_EmptySet
  <2>2. config[r] \in Configs
    OBVIOUS
  <2> QED
    BY <2>1, <2>2, ConfigIsSequence
<1>b. Cardinality({}) <= 1
  BY FS_EmptySet
<1>c. 0 \in Attempts
  BY ZeroTyped
<1>1. CASE UNCHANGED vars
  BY <1>1 DEF vars
<1>2. CASE NextResource
  <2>1. UNCHANGED <<config, attempts, results, alerted, requested, down>>
    BY <1>2 DEF NextResource
  <2>2. CASE pc' = "alert" /\ UNCHANGED <<todo, current, index, failing>>
    BY <2>1, <2>2
  <2>3. ASSUME NEW r \in todo, todo' = todo \ {r},
               \/ pc' = "error" /\ UNCHANGED <<current, index, failing>>
               \/ pc' = "check" /\ current' = {r} /\ index' = 1 /\ failing' = 0
        PROVE  TypeOK'
    BY <1>a, <2>1, <2>3
  <2> QED
    BY <1>2, <2>2, <2>3 DEF NextResource
<1>3. CASE NextCheck
  <2>1. PICK r \in Resources : current = {r}
    BY <1>0, <1>3 DEF NextCheck, CInv, Current, Checking
  <2>2. UNCHANGED <<config, todo, index, failing, alerted, down>>
    BY <1>3 DEF NextCheck
  <2>3. \/ /\ pc' = "probe" /\ attempts' = 0 /\ requested' = 0 /\ UNCHANGED <<results, current>>
        \/ /\ pc' = "resource" /\ current' = {} /\ UNCHANGED <<attempts, requested>>
           /\ results' = results \cup {[resource_id |-> r, failing_health_checks |-> failing]}
    BY <1>3, <2>1 DEF NextCheck
  <2>4. results' \subseteq [resource_id : Resources, failing_health_checks : 0..MaxChecks]
    BY <2>1, <2>3
  <2>5. /\ attempts' \in Attempts /\ requested' \in Attempts
        /\ pc' \in {"probe", "resource"}
        /\ current' \in SUBSET Resources /\ Cardinality(current') <= 1
    BY <1>b, <1>c, <2>3
  <2> QED
    BY <2>2, <2>4, <2>5
<1>4. CASE Probe
  <2>1. PICK r \in Resources : current = {r}
    BY <1>0, <1>4 DEF Probe, CInv, Current, Checking
  <2>2. UNCHANGED <<config, todo, current, index, failing, results, alerted, down>>
        /\ pc' \in {"count", "wait"}
    BY <1>4, <2>1 DEF Probe
  <2>3. index >= 1 /\ index <= Len(config[r])
    BY <1>0, <1>4, <2>1 DEF Probe, CInv, Current, Checking
  <2>4. config[r][index] \in RetryLimits
    BY <1>0, <2>1, <2>3, CheckAt
  <2>5. attempts' \in Nat /\ requested' \in Nat
        /\ attempts' <= config[r][index] + 1 /\ requested' <= config[r][index] + 1
    <3>1. pc' \in Checking /\ current' = {r} /\ config'[r][index'] = config[r][index]
      BY <2>1, <2>2 DEF Checking
    <3> QED
      BY <3>1 DEF CInv, Shape, Counts, Current
  <2>6. attempts' \in Attempts /\ requested' \in Attempts
    BY <2>4, <2>5, AttemptsTyped
  <2> QED
    BY <2>2, <2>6
<1>5. CASE Wait
  BY <1>5 DEF Wait
<1>6. CASE Count
  <2>1. PICK r \in Resources : current = {r}
    BY <1>0, <1>6 DEF Count, CInv, Current, Checking
  <2>2. UNCHANGED <<config, todo, current, attempts, results, alerted, requested>>
        /\ index' = index + 1 /\ pc' = "check"
    BY <1>6 DEF Count
  <2>3. index >= 1 /\ index <= Len(config[r]) /\ failing < index
    BY <1>0, <1>6, <2>1 DEF Count, CInv, Current, Checking
  <2>4. Len(config[r]) \in 0..MaxChecks
    BY <1>a, <2>1
  <2>5. failing' \in {failing, failing + 1} /\ down' \in {down, down \cup {r}}
    BY <1>6, <2>1 DEF Count
  <2>6. failing' \in 0..MaxChecks /\ index' \in 0..(MaxChecks + 1)
    BY <2>2, <2>3, <2>4, <2>5
  <2> QED
    BY <2>1, <2>2, <2>5, <2>6
<1>7. CASE Alert
  <2>1. \A x \in results : x.resource_id \in Resources
    OBVIOUS
  <2>2. alerted' \in SUBSET Resources
    BY <1>7, <2>1 DEF Alert
  <2> QED
    BY <1>7, <2>2 DEF Alert
<1> QED
  BY <1>1, <1>2, <1>3, <1>4, <1>5, <1>6, <1>7 DEF Next

\* Every reachable state is well typed; in particular the report counts no more
\* failures than there are checks.
THEOREM TypeCorrect == Spec => []TypeOK
<1>1. Init => IInv
  BY InitCInv, InitTyped DEF IInv
<1>2. IInv /\ [Next]_vars => IInv'
  BY StepCInv, StepTyped DEF IInv
<1>3. IInv => TypeOK
  BY DEF IInv
<1> QED
  BY <1>1, <1>2, <1>3, PTL DEF Spec
-----------------------------------------------------------------------------
(* The report *)

Reported == {x.resource_id : x \in results}

Accounted ==
    /\ pc # "error" => Reported \cup todo \cup current = Resources
    /\ pc \in {"resource", "alert", "done", "error"} => current = {}
    /\ pc \in {"alert", "done"} => todo = {}

LEMMA StepAccounted == ASSUME CInv, Accounted, [Next]_vars PROVE Accounted'
<1> USE DEF Accounted
<1>1. CASE UNCHANGED vars
  BY <1>1 DEF vars, Reported
<1>2. CASE NextResource
  <2>1. Reported' = Reported /\ pc = "resource" /\ current = {}
    BY <1>2 DEF NextResource, Reported
  <2> QED
    BY <1>2, <2>1 DEF NextResource
<1>3. CASE NextCheck
  <2>1. PICK r \in Resources : current = {r}
    BY <1>3 DEF NextCheck, CInv, Current
  <2>2. pc = "check" /\ todo' = todo
    BY <1>3 DEF NextCheck
  <2>3. \/ pc' = "probe" /\ UNCHANGED <<results, current>>
        \/ /\ pc' = "resource" /\ current' = {}
           /\ results' = results \cup {[resource_id |-> r, failing_health_checks |-> failing]}
    BY <1>3, <2>1 DEF NextCheck
  <2>4. results' = results \cup {[resource_id |-> r, failing_health_checks |-> failing]}
          => Reported' = Reported \cup {r}
    <3> DEFINE d == [resource_id |-> r, failing_health_checks |-> failing]
    <3>1. d.resource_id = r
      OBVIOUS
    <3> HIDE DEF d
    <3> SUFFICES ASSUME results' = results \cup {d} PROVE Reported' = Reported \cup {r}
      BY DEF d
    <3> QED
      BY <3>1 DEF Reported
  <2>5. results' = results => Reported' = Reported
    BY DEF Reported
  <2> QED
    BY <2>1, <2>2, <2>3, <2>4, <2>5
<1>4. CASE Probe \/ Wait \/ Count \/ Alert
  <2>1. Reported' = Reported /\ UNCHANGED <<todo, current>>
    BY <1>4 DEF Probe, Wait, Count, Alert, Reported
  <2>2. \/ pc \in Checking /\ pc' \in {"check"} \cup Checking
        \/ pc = "alert" /\ pc' = "done"
    <3>1. CASE Probe
      <4>1. PICK r \in current : pc' \in {"count", "wait"}
        BY <3>1 DEF Probe
      <4> QED
        BY <3>1, <4>1 DEF Probe, Checking
    <3> QED
      BY <1>4, <3>1 DEF Wait, Count, Alert, Checking
  <2> QED
    BY <2>1, <2>2 DEF Checking
<1> QED
  BY <1>1, <1>2, <1>3, <1>4 DEF Next

\* When the condition gets to its end, each resource is in the report, once every
\* check of it was run.
THEOREM ReportCovers == Spec => []ReportIsComplete
<1>1. Init => Accounted
  BY DEF Init, Accounted, Reported
<1>2. CInv /\ Accounted /\ [Next]_vars => Accounted'
  BY StepAccounted
<1>3. Accounted => ReportIsComplete
  BY DEF Accounted, ReportIsComplete, Reported
<1> QED
  BY <1>1, <1>2, <1>3, Invariance, PTL DEF Spec
-----------------------------------------------------------------------------
(* What is alerted, and what is counted *)

\* The action reads a key that the condition never writes, so nobody is alerted
\* about anything: UnavailableIsAlerted fails wherever a check can fail.
THEOREM NobodyIsAlerted == Spec => [](alerted = {})
<1> DEFINE None == alerted = {}
<1>1. Init => None
  BY DEF Init
<1>2. ASSUME TypeOK, alerted = {}, [Next]_vars PROVE alerted' = {}
  <2>1. CASE UNCHANGED alerted
    BY <1>2, <2>1
  <2>2. CASE Alert
    <3>1. ASSUME NEW x \in results PROVE ~(Get(x, "failing_checks", 0) > 0)
      <4>1. x \in [resource_id : Resources, failing_health_checks : 0..MaxChecks]
        BY <1>2 DEF TypeOK
      <4>2. "failing_checks" \notin DOMAIN x
        BY <4>1
      <4> QED
        BY <4>2 DEF Get
    <3> QED
      BY <2>2, <3>1 DEF Alert
  <2> QED
    BY <1>2, <2>1, <2>2 DEF Next, NextResource, NextCheck, Probe, Wait, Count, vars
<1>3. TypeOK /\ None /\ [Next]_vars => None'
  BY <1>2
<1>4. None => alerted = {}
  OBVIOUS
<1> HIDE DEF None
<1> QED
  BY <1>1, <1>3, <1>4, TypeCorrect, PTL DEF Spec

\* A check that is over has used up its attempts, or its last request was answered
\* and that request is no attempt used up.
Outcome ==
    pc = "count" =>
      \A r \in current :
        \/ attempts = requested /\ attempts = config[r][index] + 1
        \/ requested = attempts + 1

LEMMA StepOutcome == ASSUME CInv, Outcome, [Next]_vars PROVE Outcome'
<1>1. CASE UNCHANGED vars
  BY <1>1 DEF vars, Outcome
<1>2. CASE pc' # "count"
  BY <1>2 DEF Outcome
<1>3. CASE Probe
  <2>1. PICK r \in Resources : current = {r}
    BY <1>3 DEF Probe, CInv, Current, Checking
  <2>2. /\ index >= 1 /\ index <= Len(config[r])
        /\ attempts <= config[r][index] + 1 /\ requested = attempts
        /\ attempts \in Nat /\ requested \in Nat
    BY <1>3, <2>1 DEF Probe, CInv, Shape, Counts, Current, Checking
  <2>3. UNCHANGED <<config, current, index>>
    BY <1>3 DEF Probe
  <2>4. config[r][index] \in Nat
    BY <2>1, <2>2, CheckAt
  <2>5. CASE ~MayTry(config[r][index])
    <3>1. attempts' = attempts /\ requested' = requested /\ attempts = config[r][index] + 1
      BY <1>3, <2>1, <2>2, <2>4, <2>5 DEF Probe, MayTry
    <3> QED
      BY <2>1, <2>2, <2>3, <3>1 DEF Outcome
  <2>6. CASE MayTry(config[r][index])
    <3>1. requested' = requested + 1
      BY <1>3, <2>1, <2>2, <2>4, <2>6 DEF Probe, MayTry
    <3>2. pc' = "count" => attempts' = attempts
      BY <1>3, <2>1, <2>6 DEF Probe
    <3> QED
      BY <2>1, <2>2, <2>3, <3>1, <3>2 DEF Outcome
  <2> QED
    BY <2>5, <2>6
<1>4. CASE NextResource \/ NextCheck \/ Wait \/ Count \/ Alert
  <2>1. pc' # "count"
    BY <1>4 DEF NextResource, NextCheck, Wait, Count, Alert, CInv, Current
  <2> QED
    BY <1>2, <2>1
<1> QED
  BY <1>1, <1>3, <1>4 DEF Next

\* A check that failed at every request is never counted as failing; what is counted
\* was answered at its last attempt.
THEOREM FailuresAreNotCounted ==
    Spec => [][/\ pc = "count" /\ attempts = requested => failing' = failing
               /\ failing' = failing + 1 => pc = "count" /\ requested = attempts + 1]_vars
<1> DEFINE Step == /\ pc = "count" /\ attempts = requested => failing' = failing
                   /\ failing' = failing + 1 => pc = "count" /\ requested = attempts + 1
<1>1. Init => Outcome
  BY DEF Init, Outcome
<1>2. ASSUME CInv, Outcome, Next PROVE Step
  <2>0. failing \in Nat /\ attempts \in Nat /\ requested \in Nat
    BY <1>2 DEF CInv, Shape, Counts
  <2>1. CASE Count
    <3>1. PICK r \in Resources : current = {r}
      BY <1>2, <2>1 DEF Count, CInv, Current, Checking
    <3>2. index >= 1 /\ index <= Len(config[r])
      BY <1>2, <2>1, <3>1 DEF Count, CInv, Current, Checking
    <3>3. config[r][index] \in Nat
      BY <1>2, <3>1, <3>2, CheckAt
    <3>4. /\ pc = "count"
          /\ failing' = IF attempts = config[r][index] THEN failing + 1 ELSE failing
      BY <2>1, <3>1 DEF Count, CountsAsFailing
    <3>5. \/ attempts = requested /\ attempts = config[r][index] + 1
          \/ requested = attempts + 1
      BY <1>2, <3>1, <3>4 DEF Outcome
    <3> QED
      BY <2>0, <3>3, <3>4, <3>5
  <2>2. CASE failing' = failing /\ pc # "count"
    BY <2>0, <2>2
  <2>3. CASE failing' = 0 /\ pc = "resource"
    BY <2>0, <2>3
  <2>4. CASE NextResource
    BY <2>2, <2>3, <2>4 DEF NextResource
  <2>5. CASE NextCheck \/ Probe \/ Wait \/ Alert
    BY <2>2, <2>5 DEF NextCheck, Probe, Wait, Alert
  <2> QED
    BY <1>2, <2>1, <2>4, <2>5 DEF Next
<1>3. CInv /\ Outcome /\ [Next]_vars => Outcome'
  BY StepOutcome
<1>4. CInv /\ Outcome /\ [Next]_vars => [Step]_vars
  BY <1>2
<1> QED
  BY <1>1, <1>3, <1>4, Invariance, PTL DEF Spec
-----------------------------------------------------------------------------
(* Why the rule ends: what is ahead of it *)

Checked == CHOOSE r \in Resources : current = {r}

\* Resources, and what the rule does when there are no more.
ResourcesAhead ==
    4 * Cardinality(todo) + (IF pc \in {"done", "error"} THEN 0
                             ELSE IF pc = "alert" THEN 1
                             ELSE IF pc = "resource" THEN 2 ELSE 3)

\* Checks of the resource.
ChecksAhead ==
    IF pc \in {"check"} \cup Checking THEN Len(config[Checked]) + 1 - index ELSE 0

\* Requests of the check, with the waits between them.
StepsAhead ==
    IF pc = "check" /\ index <= Len(config[Checked]) THEN 2 * (config[Checked][index] + 1) + 2
    ELSE IF pc = "probe" THEN 2 * (config[Checked][index] + 1 - attempts) + 1
    ELSE IF pc = "wait" THEN 2 * (config[Checked][index] + 1 - attempts) + 2
    ELSE 0

Ahead == <<ResourcesAhead, <<ChecksAhead, StepsAhead>>>>
AheadType == Nat \X (Nat \X Nat)

Less == OpToRel(<, Nat)
Fewer == LexPairOrdering(Less, LexPairOrdering(Less, Less, Nat, Nat), Nat, Nat \X Nat)

Closer ==
    \/ ResourcesAhead' < ResourcesAhead
    \/ ResourcesAhead' = ResourcesAhead /\ ChecksAhead' < ChecksAhead
    \/ /\ ResourcesAhead' = ResourcesAhead /\ ChecksAhead' = ChecksAhead
       /\ StepsAhead' < StepsAhead

Descends == <<Ahead', Ahead>> \in Fewer

\* Nothing is checked before there is a resource to check.
CanGoOn ==
    \/ pc \in {"resource", "wait", "alert", "done", "error"}
    \/ pc \in {"check", "probe", "count"} /\ \E r \in Resources : current = {r}

LEMMA CheckedIs ==
    ASSUME NEW r \in Resources, current = {r} PROVE Checked = r
  BY DEF Checked

LEMMA TodoIsFinite ==
    ASSUME CInv
    PROVE  /\ IsFiniteSet(todo) /\ Cardinality(todo) \in Nat
           /\ \A r \in todo : Cardinality(todo \ {r}) = Cardinality(todo) - 1
<1>1. IsFiniteSet(todo)
  BY ResourcesAreFinite, FS_Subset DEF CInv, Shape
<1> QED
  BY <1>1, FS_CardinalityType, FS_RemoveElement

\* What is ahead is counted in numbers.
LEMMA AheadTyped ==
    ASSUME CInv, TypeOK PROVE ResourcesAhead \in Nat /\ ChecksAhead \in Nat /\ StepsAhead \in Nat
<1>1. ResourcesAhead \in Nat
  BY TodoIsFinite DEF ResourcesAhead
<1>2. CASE pc \in {"check"} \cup Checking
  <2>1. PICK r \in Resources : current = {r}
    BY <1>2 DEF CInv, Current
  <2>2. Checked = r /\ index \in Nat /\ attempts \in Nat /\ Len(config[r]) \in Nat
    BY <2>1, CheckedIs, ConfigIsSequence DEF CInv, Shape, Counts
  <2>3. index >= 1 /\ index <= Len(config[r]) + 1
    BY <1>2, <2>1, <2>2 DEF CInv, Current, Checking
  <2>4. ChecksAhead \in Nat
    <3>1. \A n, i \in Nat : i <= n + 1 => n + 1 - i \in Nat
      OBVIOUS
    <3>2. Len(config[r]) + 1 - index \in Nat
      BY <2>2, <2>3, <3>1
    <3> QED
      BY <1>2, <2>2, <3>2 DEF ChecksAhead
  <2>5. index <= Len(config[r]) => config[r][index] \in Nat
    BY <2>1, <2>3, CheckAt
  <2>6. pc \in Checking => index <= Len(config[r]) /\ attempts <= config[r][index] + 1
    BY <2>1 DEF CInv, Current
  <2>7. StepsAhead \in Nat
    <3>1. CASE pc = "check" /\ index <= Len(config[r])
      <4>1. StepsAhead = 2 * (config[r][index] + 1) + 2 /\ config[r][index] \in Nat
        BY <2>2, <2>5, <3>1 DEF StepsAhead
      <4> QED
        BY <4>1
    <3>2. CASE pc \in {"probe", "wait"}
      <4>1. config[r][index] \in Nat /\ attempts \in Nat /\ attempts <= config[r][index] + 1
        BY <2>2, <2>5, <2>6, <3>2 DEF Checking
      <4>2. StepsAhead \in {2 * (config[r][index] + 1 - attempts) + 1,
                            2 * (config[r][index] + 1 - attempts) + 2}
        BY <2>2, <3>2 DEF StepsAhead
      <4> QED
        BY <4>1, <4>2
    <3>3. CASE pc \notin {"probe", "wait"} /\ ~(pc = "check" /\ index <= Len(config[r]))
      BY <2>2, <3>3 DEF StepsAhead
    <3> QED
      BY <3>1, <3>2, <3>3
  <2> QED
    BY <1>1, <2>4, <2>7
<1>3. CASE pc \notin {"check"} \cup Checking
  BY <1>1, <1>3 DEF ChecksAhead, StepsAhead, Checking
<1> QED
  BY <1>2, <1>3

LEMMA NextIsCloser == ASSUME CInv, Next PROVE Closer
<1>c. Cardinality(todo) \in Nat /\ \A r \in todo : Cardinality(todo \ {r}) = Cardinality(todo) - 1
  BY TodoIsFinite
<1>1. CASE NextResource
  <2>1. CASE todo' = todo /\ pc' = "alert"
    BY <1>c, <1>1, <2>1 DEF NextResource, Closer, ResourcesAhead
  <2>2. ASSUME NEW r \in todo, todo' = todo \ {r}, pc' \in {"check", "error"}
        PROVE  Closer
    <3>1. Cardinality(todo') = Cardinality(todo) - 1
      BY <1>c, <2>2
    <3> QED
      BY <1>c, <1>1, <2>2, <3>1 DEF NextResource, Closer, ResourcesAhead
  <2> QED
    BY <1>1, <2>1, <2>2 DEF NextResource
<1>2. CASE Alert
  BY <1>c, <1>2 DEF Alert, Closer, ResourcesAhead
<1>3. CASE NextCheck \/ Probe \/ Wait \/ Count
  <2>1. pc \in {"check"} \cup Checking /\ todo' = todo /\ config' = config
    BY <1>3 DEF NextCheck, Probe, Wait, Count, Checking
  <2>2. PICK r \in Resources : current = {r}
    BY <2>1 DEF CInv, Current
  <2>3. Checked = r /\ index \in Nat /\ attempts \in Nat /\ Len(config[r]) \in Nat
    BY <2>2, CheckedIs, ConfigIsSequence DEF CInv, Shape, Counts
  <2>4. /\ index >= 1 /\ index <= Len(config[r]) + 1
        /\ pc \in Checking => index <= Len(config[r]) /\ attempts <= config[r][index] + 1
    BY <2>1, <2>2, <2>3 DEF CInv, Current, Checking
  <2>5. index <= Len(config[r]) => config[r][index] \in Nat
    BY <2>2, <2>4, CheckAt
  <2>6. CASE pc' = "resource"
    BY <1>c, <2>1, <2>6 DEF Closer, ResourcesAhead, Checking
  <2>7. CASE current' = current /\ pc' \in {"check"} \cup Checking
    <3>1. ResourcesAhead' = ResourcesAhead
      BY <2>1, <2>7 DEF ResourcesAhead, Checking
    <3>2. Checked' = r
      BY <2>2, <2>3, <2>7 DEF Checked
    <3>3. CASE index' = index + 1
      <4>1. ChecksAhead' = Len(config[r]) + 1 - (index + 1)
        BY <2>1, <2>7, <3>2, <3>3 DEF ChecksAhead
      <4>2. ChecksAhead = Len(config[r]) + 1 - index
        BY <2>1, <2>3 DEF ChecksAhead
      <4>3. ChecksAhead' < ChecksAhead
        <5>1. \A n, i \in Nat : n + 1 - (i + 1) < n + 1 - i
          OBVIOUS
        <5>2. Len(config[r]) \in Nat /\ index \in Nat
          BY <2>3
        <5>3. Len(config[r]) + 1 - (index + 1) < Len(config[r]) + 1 - index
          BY <5>1, <5>2
        <5> QED
          BY <4>1, <4>2, <5>3, Zenon
      <4> QED
        BY <3>1, <4>3 DEF Closer
    <3>4. CASE index' = index /\ ~Count
      <4>1. ChecksAhead' = ChecksAhead
        BY <2>1, <2>3, <2>7, <3>2, <3>4 DEF ChecksAhead
      <4>2. config'[r][index'] = config[r][index]
        BY <2>1, <3>4
      <4>3. CASE NextCheck
        <5>1. pc = "check" /\ pc' = "probe" /\ attempts' = 0 /\ index <= Len(config[r])
          BY <2>2, <2>7, <4>3 DEF NextCheck, Checking
        <5>2. StepsAhead' = 2 * (config[r][index] + 1 - 0) + 1
          BY <3>2, <4>2, <5>1 DEF StepsAhead
        <5>3. StepsAhead = 2 * (config[r][index] + 1) + 2
          BY <2>3, <5>1 DEF StepsAhead
        <5> QED
          BY <2>5, <3>1, <4>1, <5>1, <5>2, <5>3 DEF Closer
      <4>4. CASE Probe
        <5>1. pc = "probe" /\ StepsAhead = 2 * (config[r][index] + 1 - attempts) + 1
          BY <2>3, <4>4 DEF Probe, StepsAhead
        <5>2. \/ pc' = "count"
              \/ pc' = "wait" /\ attempts' = attempts + 1
          BY <2>2, <4>4 DEF Probe, AttemptsAfterFailure
        <5>3. config[r][index] \in Nat /\ attempts <= config[r][index] + 1
          BY <2>4, <2>5, <5>1 DEF Checking
        <5>4. CASE pc' = "count"
          <6>1. StepsAhead' = 0
            BY <5>4 DEF StepsAhead
          <6> QED
            BY <2>3, <3>1, <4>1, <5>1, <5>3, <6>1 DEF Closer
        <5>5. CASE pc' = "wait" /\ attempts' = attempts + 1
          <6>1. StepsAhead' = 2 * (config[r][index] + 1 - (attempts + 1)) + 2
            BY <3>2, <4>2, <5>5 DEF StepsAhead
          <6>2. \A l, a \in Nat : 2 * (l + 1 - (a + 1)) + 2 < 2 * (l + 1 - a) + 1
            OBVIOUS
          <6>3. attempts \in Nat
            BY <2>3
          <6>4. StepsAhead' < StepsAhead
            BY <5>1, <5>3, <6>1, <6>2, <6>3
          <6> QED
            BY <3>1, <4>1, <6>4 DEF Closer
        <5> QED
          BY <5>2, <5>4, <5>5
      <4>5. CASE Wait
        <5>1. pc = "wait" /\ pc' = "probe" /\ attempts' = attempts
          BY <4>5 DEF Wait
        <5>2. /\ StepsAhead = 2 * (config[r][index] + 1 - attempts) + 2
              /\ StepsAhead' = 2 * (config[r][index] + 1 - attempts) + 1
          BY <2>3, <3>2, <4>2, <5>1 DEF StepsAhead
        <5>3. config[r][index] \in Nat
          BY <2>4, <2>5, <5>1 DEF Checking
        <5> QED
          BY <2>3, <3>1, <4>1, <5>2, <5>3 DEF Closer
      <4> QED
        BY <1>3, <3>4, <4>3, <4>4, <4>5
    <3> QED
      BY <1>3, <3>3, <3>4 DEF NextCheck, Probe, Wait, Count
  <2> QED
    BY <1>3, <2>2, <2>6, <2>7 DEF NextCheck, Probe, Wait, Count, Checking
<1> QED
  BY <1>1, <1>2, <1>3 DEF Next

LEMMA FewerIsWellFounded == IsWellFoundedOn(Fewer, AheadType)
<1>1. IsWellFoundedOn(Less, Nat)
  BY NatLessThanWellFounded DEF Less
<1>2. IsWellFoundedOn(LexPairOrdering(Less, Less, Nat, Nat), Nat \X Nat)
  BY <1>1, WFLexPairOrdering
<1> QED
  BY <1>1, <1>2, WFLexPairOrdering DEF Fewer, AheadType

\* The comparison of what is ahead is the order that has no end of descent.
LEMMA CloserIsFewer ==
    ASSUME ResourcesAhead \in Nat, ChecksAhead \in Nat, StepsAhead \in Nat,
           ResourcesAhead' \in Nat, ChecksAhead' \in Nat, StepsAhead' \in Nat, Closer
    PROVE  Descends
<1> USE DEF Descends
<1>1. \A m, n \in Nat : m < n => <<m, n>> \in Less
  BY DEF Less, OpToRel
<1>2. \A a, b, c, d \in Nat :
        a < c \/ (a = c /\ b < d) => <<<<a, b>>, <<c, d>>>> \in LexPairOrdering(Less, Less, Nat, Nat)
  BY <1>1 DEF LexPairOrdering
<1>3. \A a, c \in Nat, x, y \in Nat \X Nat :
        \/ a < c
        \/ a = c /\ <<x, y>> \in LexPairOrdering(Less, Less, Nat, Nat)
        => <<<<a, x>>, <<c, y>>>> \in Fewer
  <2> DEFINE R == LexPairOrdering(Less, Less, Nat, Nat)
  <2> HIDE DEF R
  <2>1. Fewer = LexPairOrdering(Less, R, Nat, Nat \X Nat)
    BY DEF Fewer, R
  <2> QED
    BY <1>1, <2>1 DEF LexPairOrdering, R
<1>4. CASE ResourcesAhead' < ResourcesAhead
  BY <1>3, <1>4 DEF Ahead
<1>5. CASE /\ ResourcesAhead' = ResourcesAhead
           /\ \/ ChecksAhead' < ChecksAhead
              \/ ChecksAhead' = ChecksAhead /\ StepsAhead' < StepsAhead
  <2>1. <<<<ChecksAhead', StepsAhead'>>, <<ChecksAhead, StepsAhead>>>>
          \in LexPairOrdering(Less, Less, Nat, Nat)
    BY <1>2, <1>5
  <2> QED
    BY <1>3, <1>5, <2>1 DEF Ahead
<1> QED
  BY <1>4, <1>5 DEF Closer

\* The rule cannot go on forever: each step, whatever the servers answer, makes less
\* what is ahead in an order without endless descent, and until the end there is a
\* step to take.
THEOREM StepsRunOut ==
    /\ IsWellFoundedOn(Fewer, AheadType)
    /\ Spec => [](Ahead \in AheadType /\ CanGoOn)
    /\ Spec => [][Descends]_vars
<1> DEFINE Counted == Ahead \in AheadType /\ CanGoOn
<1>1. CInv /\ TypeOK => Counted
  <2>1. CInv /\ TypeOK => CanGoOn
    BY DEF CInv, Current, Checking, TypeOK, CanGoOn
  <2> QED
    BY <2>1, AheadTyped DEF Ahead, AheadType
<1>2. CInv /\ Counted /\ Counted' /\ [Next]_vars => [Descends]_vars
  <2> SUFFICES ASSUME CInv, Counted, Counted', Next PROVE Descends
    OBVIOUS
  <2>1. /\ ResourcesAhead \in Nat /\ ChecksAhead \in Nat /\ StepsAhead \in Nat
        /\ ResourcesAhead' \in Nat /\ ChecksAhead' \in Nat /\ StepsAhead' \in Nat
    BY DEF Ahead, AheadType
  <2>2. Closer
    BY NextIsCloser
  <2> QED
    BY <2>1, <2>2, CloserIsFewer
<1> HIDE DEF Counted
<1>3. Spec => []Counted
  BY <1>1, Invariance, TypeCorrect, PTL DEF Spec
<1>4. Spec => [][Descends]_vars
  BY <1>2, <1>3, Invariance, PTL DEF Spec
<1> QED
  BY <1>3, <1>4, FewerIsWellFounded DEF Counted
=============================================================================
