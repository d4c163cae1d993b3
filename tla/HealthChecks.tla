---------------------------- MODULE HealthChecks ----------------------------
(***************************************************************************)
(* The rule of rules/health_checks: its condition probes the URLs that the *)
(* health_check_config of each active resource names, its action alerts    *)
(* about the resources whose checks failed.                                *)
(***************************************************************************)
EXTENDS Naturals, Sequences, FiniteSets

CONSTANTS
    Resources,      \* active resources that have a health_check_config
    RetryLimits,    \* values of max_retries
    MaxChecks       \* bound: checks in one configuration

ASSUME RetryLimitsAreNats == RetryLimits \subseteq Nat
ASSUME RetryLimitsAreBounded == \E m \in RetryLimits : \A l \in RetryLimits : l <= m
ASSUME MaxChecksIsNat == MaxChecks \in Nat
ASSUME ResourcesAreFinite == IsFiniteSet(Resources)

VARIABLES
    config,     \* config[r]: the max_retries of each check of r; <<>> if the
                \* value does not parse or lacks a required parameter
    pc,         \* where the rule stands
    todo,       \* resources not looked at yet
    current,    \* the resource being checked, in a singleton, or nothing
    index,      \* the check being run
    attempts,   \* retry_attempts of that check
    failing,    \* failing_health_checks of the resource
    results,    \* the condition's report
    alerted,    \* resources the action alerts about
    requested,  \* history: HTTP requests made for the current check (it stops
                \* at two more than max_retries: one more than are allowed)
    down        \* history: resources with a check that failed at every request

vars == <<config, pc, todo, current, index, attempts, failing, results, alerted,
          requested, down>>

Configs == UNION {[1..n -> RetryLimits] : n \in 0..MaxChecks}
Attempts == 0..(1 + CHOOSE m \in RetryLimits : \A l \in RetryLimits : l <= m)

TypeOK ==
    /\ config \in [Resources -> Configs]
    /\ pc \in {"resource", "check", "probe", "wait", "count", "alert", "done", "error"}
    /\ todo \in SUBSET Resources
    /\ current \in SUBSET Resources /\ Cardinality(current) <= 1
    /\ index \in 0..(MaxChecks + 1)
    /\ attempts \in Attempts
    /\ failing \in 0..MaxChecks
    /\ results \subseteq [resource_id : Resources, failing_health_checks : 0..MaxChecks]
    /\ alerted \in SUBSET Resources
    /\ requested \in Attempts
    /\ down \in SUBSET Resources
-----------------------------------------------------------------------------
(* resource_health_checks.check *)

\* An invalid configuration is logged and passed over.
SkipInvalid ==
    /\ pc = "resource"
    /\ \/ /\ todo = {}
          /\ pc' = "alert"
          /\ UNCHANGED <<todo, current, index, failing>>
       \/ \E r \in todo :
            /\ todo' = todo \ {r}
            /\ IF config[r] = <<>>
               THEN UNCHANGED <<pc, current, index, failing>>
               ELSE pc' = "check" /\ current' = {r} /\ index' = 1 /\ failing' = 0
    /\ UNCHANGED <<config, attempts, results, alerted, requested, down>>

\* The next resource; one whose configuration is not valid raises, and the
\* condition ends without a report.
NextResource ==
    /\ pc = "resource"
    /\ \/ /\ todo = {}
          /\ pc' = "alert"
          /\ UNCHANGED <<todo, current, index, failing>>
       \/ \E r \in todo :
            /\ todo' = todo \ {r}
            /\ IF config[r] = <<>>
               THEN pc' = "error" /\ UNCHANGED <<current, index, failing>>
               ELSE pc' = "check" /\ current' = {r} /\ index' = 1 /\ failing' = 0
    /\ UNCHANGED <<config, attempts, results, alerted, requested, down>>

\* The next check of the resource, or the summary of it.
NextCheck ==
    /\ pc = "check"
    /\ \E r \in current :
         IF index <= Len(config[r])
         THEN /\ pc' = "probe" /\ attempts' = 0 /\ requested' = 0
              /\ UNCHANGED <<results, current>>
         ELSE /\ pc' = "resource"
              /\ results' = results \cup
                   {[resource_id |-> r, failing_health_checks |-> failing]}
              /\ current' = {}
              /\ UNCHANGED <<attempts, requested>>
    /\ UNCHANGED <<config, todo, index, failing, alerted, down>>

\* The condition of the while loop, and one that lets a request more through.
MayTryOnceMore(limit) == attempts <= limit + 1

MayTry(limit) == attempts <= limit

\* The exception handler that forgets to count.
SameAttempts == attempts

AttemptsAfterFailure == attempts + 1

\* One request: a status that is accepted ends the loop, anything else (an
\* exception too) is an attempt used up.
Probe ==
    /\ pc = "probe"
    /\ \E r \in current :
         IF ~MayTry(config[r][index])
         THEN pc' = "count" /\ UNCHANGED <<attempts, requested>>
         ELSE /\ requested' = IF requested > config[r][index] + 1 THEN requested ELSE requested + 1
              /\ \/ pc' = "count" /\ UNCHANGED attempts
                 \/ pc' = "wait" /\ attempts' = AttemptsAfterFailure
    /\ UNCHANGED <<config, todo, current, index, failing, results, alerted, down>>

\* time.sleep(retry_interval_seconds), and the next turn of the loop.
Wait ==
    /\ pc = "wait" /\ pc' = "probe"
    /\ UNCHANGED <<config, todo, current, index, attempts, failing, results,
                   alerted, requested, down>>

\* The check that is held against the resource.
CountsAsFailing(limit) == attempts = limit

Count ==
    /\ pc = "count"
    /\ \E r \in current :
         /\ failing' = IF CountsAsFailing(config[r][index]) THEN failing + 1 ELSE failing
         /\ down' = IF attempts = requested THEN down \cup {r} ELSE down
    /\ index' = index + 1
    /\ pc' = "check"
    /\ UNCHANGED <<config, todo, current, attempts, results, alerted, requested>>

(* health_alerts.ResourceHealthAlert *)

\* result_dict.get(key, default)
Get(dict, key, default) == IF key \in DOMAIN dict THEN dict[key] ELSE default

Alert ==
    /\ pc = "alert"
    /\ alerted' = {d.resource_id :
                     d \in {x \in results : Get(x, "failing_checks", 0) > 0}}
    /\ pc' = "done"
    /\ UNCHANGED <<config, todo, current, index, attempts, failing, results,
                   requested, down>>
-----------------------------------------------------------------------------
Init ==
    /\ config \in [Resources -> Configs]
    /\ pc = "resource"
    /\ todo = Resources
    /\ current = {} /\ index = 0 /\ attempts = 0 /\ failing = 0
    /\ results = {} /\ alerted = {}
    /\ requested = 0 /\ down = {}

Next == NextResource \/ NextCheck \/ Probe \/ Wait \/ Count \/ Alert

\* The job thread keeps running: every loop of the rule is bounded by the code,
\* and a request that hangs is cut by its timeout.
Spec == Init /\ [][Next]_vars /\ WF_vars(Next)
-----------------------------------------------------------------------------
(* Properties *)

\* A check sends at most max_retries requests beyond the first (the README's
\* "number of retry attempts allowed").
RetriesAreBounded ==
    pc \in {"probe", "wait", "count"} =>
      \A r \in current : requested <= config[r][index] + 1

\* A report that reaches the action covers every resource.
ReportIsComplete ==
    pc = "done" => {x.resource_id : x \in results} = Resources

\* The rule ends, whatever the servers answer.
Terminates == <>(pc \in {"done", "error"})

\* "the action will send alerts when health checks fail" (README.md:6): once the
\* action has run, each resource with a check that failed at every request is
\* alerted about.
UnavailableIsAlerted == pc = "done" => down \subseteq alerted
=============================================================================
