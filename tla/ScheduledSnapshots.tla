------------------------- MODULE ScheduledSnapshots -------------------------
(***************************************************************************)
(* Snapshots of servers: the recurring job of                              *)
(* ui_extensions/scheduled_snapshots, its tab for snapshots by hand, the   *)
(* delete_snapshot plug-in, and the asynchronous jobs that all of them     *)
(* leave the deleting to.                                                  *)
(*                                                                         *)
(* The snapshots of a server are numbered by date: of two, the greater     *)
(* number is the newer one.                                                *)
(***************************************************************************)
EXTENDS Naturals, FiniteSets

CONSTANTS
    Servers,       \* servers whose handler can manage snapshots
    Requests,      \* web workers that take a snapshot by hand
    RecurringJob,  \* the hourly job, which never overlaps itself
    MaxValues,     \* numbers the "Maximum # of Snapshots" form may store
    Unset,         \* no maximum is stored for the server
    Empty,         \* the form's empty text field
    Default,       \* the snapshot_maximum input of the recurring job
    MaxTaken,      \* bound: snapshots taken of a server
    MaxEdits,      \* bound: edits of a maximum
    MaxFaults,     \* bound: creators that die and delete jobs that fail
    MaxBulk        \* bound: runs of the delete_snapshot plug-in

ASSUME MaxValuesAreNats == MaxValues \subseteq Nat
ASSUME UnsetIsNoNat == Unset \notin Nat /\ Empty \notin Nat
ASSUME BoundsAreNats ==
    {Default, MaxTaken, MaxEdits, MaxFaults, MaxBulk} \subseteq Nat
ASSUME RequestsAreFinite == IsFiniteSet(Requests) /\ RecurringJob \notin Requests

Creators == Requests \cup {RecurringJob}

VARIABLES
    due,         \* ACTIVE servers whose schedule asks for a snapshot this hour
    max,         \* max[s]: the scheduled_snapshot_maximum of s
    saidRemoved, \* servers whose form last answered "removed ... Will default"
    taken,       \* taken[s]: snapshots taken of s so far
    snaps,       \* snaps[s]: the snapshots CloudBolt knows of s
    deletes,     \* delete jobs not finished: their server and snapshots
    run,         \* run[c]: what creator c is doing
    lowest,      \* history: lowest[s] is the least maximum s was trimmed to
    edits, faults, bulk   \* counters for the bounds

vars == <<due, max, saidRemoved, taken, snaps, deletes, run, lowest,
          edits, faults, bulk>>

Snapshots == 1..MaxTaken
DeleteJobs == [server : Servers, snaps : SUBSET Snapshots]
Runs ==
    [pc : {"idle", "next", "create", "count", "trim"}, server : Servers,
     todo : SUBSET Servers, limit : Nat, made : 0..MaxTaken]

TypeOK ==
    /\ due \in SUBSET Servers
    /\ max \in [Servers -> MaxValues \cup {Unset}]
    /\ saidRemoved \in SUBSET Servers
    /\ taken \in [Servers -> 0..MaxTaken]
    /\ snaps \in [Servers -> SUBSET Snapshots]
    /\ deletes \in SUBSET DeleteJobs
    /\ run \in [Creators -> Runs]
    /\ lowest \in [Servers -> Nat]
    /\ edits \in 0..MaxEdits /\ faults \in 0..MaxFaults /\ bulk \in 0..MaxBulk
-----------------------------------------------------------------------------
Newer(s, n) == {m \in snaps[s] : m > n}

Older(s, n) == {m \in snaps[s] : m < n}

\* The list in ascending order, or cut one place early.
SlicedFromOldest(s, limit) == {n \in snaps[s] : Cardinality(Older(s, n)) >= limit}
SlicedOneEarly(s, limit) == {n \in snaps[s] : Cardinality(Newer(s, n)) + 1 >= limit}

\* list(... order_by("-date_created"))[limit:]
Excess(s, limit) == {n \in snaps[s] : Cardinality(Newer(s, n)) >= limit}

\* One snapshot too many is let pass.
ExceedsByTwo(s, limit) == Cardinality(snaps[s]) > limit + 1

Exceeds(s, limit) == Cardinality(snaps[s]) > limit

\* Chosen to be deleted by a job that has not done so.
Doomed(s) == UNION {j.snaps : j \in {d \in deletes : d.server = s}}
Kept(s) == snaps[s] \ Doomed(s)

Lesser(a, b) == IF a < b THEN a ELSE b

\* The recurring job falls back to its input when a server has no maximum.
JobLimit(s) == IF max[s] = Unset THEN Default ELSE max[s]

\* A creator turns to its next server (the job) or is done (a request).
Turn(c) ==
    run' = [run EXCEPT ![c].pc = IF c = RecurringJob THEN "next" ELSE "idle",
                       ![c].made = 0, ![c].limit = 0]
-----------------------------------------------------------------------------
(* take_scheduled_snapshots.run *)

\* The servers to serve are listed once, at the start.
StartJob ==
    /\ run[RecurringJob].pc = "idle"
    /\ run' = [run EXCEPT ![RecurringJob].pc = "next",
                          ![RecurringJob].todo = due]
    /\ UNCHANGED <<due, max, saidRemoved, taken, snaps, deletes, lowest,
                   edits, faults, bulk>>

NextServer ==
    /\ run[RecurringJob].pc = "next"
    /\ \/ /\ run[RecurringJob].todo = {}
          /\ run' = [run EXCEPT ![RecurringJob].pc = "idle"]
       \/ \E s \in run[RecurringJob].todo :
            run' = [run EXCEPT ![RecurringJob].pc = "create",
                               ![RecurringJob].server = s,
                               ![RecurringJob].todo = @ \ {s}]
    /\ UNCHANGED <<due, max, saidRemoved, taken, snaps, deletes, lowest,
                   edits, faults, bulk>>

\* server_create_snapshot_respect_max, posted.
StartRequest(c, s) ==
    /\ c # RecurringJob
    /\ run[c].pc = "idle"
    /\ run' = [run EXCEPT ![c].pc = "create", ![c].server = s]
    /\ UNCHANGED <<due, max, saidRemoved, taken, snaps, deletes, lowest,
                   edits, faults, bulk>>

\* A failed create_snapshot is logged and the trimming goes on.
CreateUnchecked(c) ==
    LET s == run[c].server IN
    /\ run[c].pc = "create"
    /\ \/ run' = [run EXCEPT ![c].pc = "count"] /\ UNCHANGED <<taken, snaps>>
       \/ /\ taken[s] < MaxTaken
          /\ taken' = [taken EXCEPT ![s] = @ + 1]
          /\ snaps' = [snaps EXCEPT ![s] = @ \cup {taken[s] + 1}]
          /\ run' = [run EXCEPT ![c].pc = "count", ![c].made = taken[s] + 1]
    /\ UNCHANGED <<due, max, saidRemoved, deletes, lowest, edits, faults, bulk>>

\* The handler's create_snapshot, which the job and the form share: a failure
\* leaves the older snapshots alone.
Create(c) ==
    LET s == run[c].server IN
    /\ run[c].pc = "create"
    /\ \/ Turn(c) /\ UNCHANGED <<taken, snaps>>
       \/ /\ taken[s] < MaxTaken
          /\ taken' = [taken EXCEPT ![s] = @ + 1]
          /\ snaps' = [snaps EXCEPT ![s] = @ \cup {taken[s] + 1}]
          /\ run' = [run EXCEPT ![c].pc = "count", ![c].made = taken[s] + 1]
    /\ UNCHANGED <<due, max, saidRemoved, deletes, lowest, edits, faults,
                   bulk>>

\* Count against the maximum.  By hand, a maximum of 0 is no maximum; in the
\* job it is a maximum of no snapshot at all.
Count(c) ==
    LET s == run[c].server
        limit == IF c = RecurringJob THEN JobLimit(s) ELSE max[s] IN
    /\ run[c].pc = "count"
    /\ IF c # RecurringJob /\ limit \in {Unset, 0} THEN Turn(c)
       ELSE IF Exceeds(s, limit)
       THEN run' = [run EXCEPT ![c].pc = "trim", ![c].limit = limit]
       ELSE Turn(c)
    /\ UNCHANGED <<due, max, saidRemoved, taken, snaps, deletes, lowest,
                   edits, faults, bulk>>

\* List the snapshots again and leave the excess to a job.
Trim(c) ==
    LET s == run[c].server IN
    /\ run[c].pc = "trim"
    /\ deletes' = deletes \cup {[server |-> s, snaps |-> Excess(s, run[c].limit)]}
    /\ lowest' = [lowest EXCEPT ![s] = Lesser(@, run[c].limit)]
    /\ Turn(c)
    /\ UNCHANGED <<due, max, saidRemoved, taken, snaps, edits, faults, bulk>>

(* Jobs of type delete_snapshots *)

\* Snapshots are deleted one by one, in no order to rely on.
DeleteOne(d) ==
    /\ d \in deletes
    /\ IF d.snaps = {}
       THEN deletes' = deletes \ {d} /\ UNCHANGED snaps
       ELSE \E n \in d.snaps :
              /\ snaps' = [snaps EXCEPT ![d.server] = @ \ {n}]
              /\ deletes' = (deletes \ {d}) \cup {[d EXCEPT !.snaps = @ \ {n}]}
    /\ UNCHANGED <<due, max, saidRemoved, taken, run, lowest, edits, faults,
                   bulk>>

\* The job ends without having deleted what is left in it.
DeleteFails(d) ==
    /\ d \in deletes /\ faults < MaxFaults
    /\ deletes' = deletes \ {d}
    /\ faults' = faults + 1
    /\ UNCHANGED <<due, max, saidRemoved, taken, snaps, run, lowest, edits,
                   bulk>>

\* delete_cb_snapshot.run: one child job for all the snapshots of a server.
DeleteAll(s) ==
    /\ bulk < MaxBulk
    /\ snaps[s] # {}
    /\ deletes' = deletes \cup {[server |-> s, snaps |-> snaps[s]]}
    /\ bulk' = bulk + 1
    /\ UNCHANGED <<due, max, saidRemoved, taken, snaps, run, lowest, edits,
                   faults>>

(* The forms of the tab, and the rest of CloudBolt *)

StoredAsSent(v) == v

Stored(v) == IF v = Empty THEN Unset ELSE v

\* EditServerMaxSnapshotsParameterForm.save: 0 is stored, and reported removed.
EditMaximum(s, v) ==
    /\ edits < MaxEdits
    /\ max' = [max EXCEPT ![s] = Stored(v)]
    /\ saidRemoved' = IF v \in {Empty, 0} THEN saidRemoved \cup {s}
                                          ELSE saidRemoved \ {s}
    /\ edits' = edits + 1
    /\ UNCHANGED <<due, taken, snaps, deletes, run, lowest, faults, bulk>>

\* EditServerSnapshotScheduleParameterForm.save, the clock, and the status of
\* the server decide what is due.
ScheduleChanges(s) ==
    /\ due' = IF s \in due THEN due \ {s} ELSE due \cup {s}
    /\ UNCHANGED <<max, saidRemoved, taken, snaps, deletes, run, lowest, edits,
                   faults, bulk>>

\* A creator dies with its process; a snapshot it has made stays.
CreatorDies(c) ==
    /\ run[c].pc \notin {"idle", "next"} /\ faults < MaxFaults
    /\ run' = [run EXCEPT ![c].pc = "idle", ![c].made = 0, ![c].limit = 0,
                          ![c].todo = {}]
    /\ faults' = faults + 1
    /\ UNCHANGED <<due, max, saidRemoved, taken, snaps, deletes, lowest,
                   edits, bulk>>
-----------------------------------------------------------------------------
Init ==
    /\ due = Servers
    /\ max \in [Servers -> MaxValues \cup {Unset}]
    /\ saidRemoved = {}
    /\ taken = [s \in Servers |-> 0]
    /\ snaps = [s \in Servers |-> {}]
    /\ deletes = {}
    /\ \E s \in Servers :
         run = [c \in Creators |-> [pc |-> "idle", server |-> s, todo |-> {},
                                    limit |-> 0, made |-> 0]]
    /\ lowest = [s \in Servers |-> MaxTaken]
    /\ edits = 0 /\ faults = 0 /\ bulk = 0

Next ==
    \/ StartJob \/ NextServer
    \/ \E c \in Creators, s \in Servers : StartRequest(c, s)
    \/ \E c \in Creators : Create(c) \/ Count(c) \/ Trim(c) \/ CreatorDies(c)
    \/ \E d \in deletes : DeleteOne(d) \/ DeleteFails(d)
    \/ \E s \in Servers : DeleteAll(s) \/ ScheduleChanges(s)
    \/ \E s \in Servers, v \in MaxValues : EditMaximum(s, v)
    \/ \E s \in Servers : EditMaximum(s, Empty)

Spec == Init /\ [][Next]_vars
-----------------------------------------------------------------------------
(* Properties *)

\* A delete job never skips an older snapshot for a newer one: whatever runs at
\* the same time, all that is older than a snapshot it holds is in it or gone
\* (the lists are sorted by date when they are cut).
OldestGoFirst ==
    \A d \in deletes : \A n \in d.snaps : Older(d.server, n) \subseteq d.snaps

\* Trimming never digs below the maximum: as long as nobody asked for all
\* snapshots to be deleted, a server keeps as many as the least maximum it was
\* trimmed to, or all it has, though jobs that overlap choose some twice.
RetainsMaximum ==
    bulk = 0 => \A s \in Servers :
                  Cardinality(Kept(s)) >= Lesser(lowest[s], taken[s])

\* Nor does excess pile up: beyond the maximum a server keeps one snapshot for
\* each creator that has not come to trimming, unless somebody lowered the
\* maximum or a process failed.
InFlight(s) ==
    {c \in Creators : run[c].server = s /\ run[c].pc \in {"count", "trim"}}

ExcessIsInFlight ==
    edits = 0 /\ faults = 0 =>
      \A s \in Servers :
        max[s] \notin {Unset, 0} =>
          Cardinality(Kept(s)) <= max[s] + Cardinality(InFlight(s))

\* "The new snapshot is created before deleting the old ones because we want to
\* ensure that the new one is successfully created" (forms.py:132): whoever
\* chooses snapshots to delete has made one since it started.
TrimAfterCreate ==
    [][\A c \in Creators :
         run[c].pc = "trim" /\ run'[c].pc # "trim" /\ deletes' # deletes
         => run[c].made > 0]_vars

\* "Maximum # of Snapshots was removed for this Server. Will default to
\* Recurring Job value" (forms.py:42).
RemovedMeansDefault == \A s \in saidRemoved : JobLimit(s) = Default
=============================================================================
