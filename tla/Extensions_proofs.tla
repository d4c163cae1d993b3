------------------------- MODULE Extensions_proofs -------------------------
(***************************************************************************)
(* Theorems about the components that Extensions puts side by side, for    *)
(* any users, files, contents, jobs and requests: the user synchronisation,*)
(* the upgrade tools, the management actions, and the five together.       *)
(***************************************************************************)
EXTENDS Extensions, GitConfigs_proofs

(* Sequences *)

LEMMA SequenceParts ==
  ASSUME NEW S, NEW s \in Seq(S), s # <<>>
  PROVE  /\ Head(s) \in S /\ Head(s) = s[1] /\ Tail(s) \in Seq(S)
         /\ Len(s) \in Nat \ {0} /\ Len(Tail(s)) = Len(s) - 1
         /\ \A i \in 1..(Len(s) - 1) : Tail(s)[i] = s[i + 1]
         /\ Tail(s) = <<>> <=> Len(s) = 1
<1>1. Head(s) \in S /\ Head(s) = s[1] /\ Tail(s) \in Seq(S) /\ Len(Tail(s)) = Len(s) - 1
  BY HeadTailProperties
<1>2. \A i \in 1..(Len(s) - 1) : Tail(s)[i] = s[i + 1]
  BY HeadTailProperties
<1>3. Len(s) \in Nat \ {0}
  BY EmptySeq, LenProperties
<1>4. Tail(s) = <<>> <=> Len(Tail(s)) = 0
  BY <1>1, EmptySeq
<1> QED
  BY <1>1, <1>2, <1>3, <1>4

(* The user synchronisation: types *)

KnownRecords == {Sync!Unknown} \cup UNION {Records[u] : u \in Accounts}
SyncSteps == {"idle", "fetch", "path", "revoke", "grant"}
SyncJobs == [pc : SyncSteps, todo : Seq(Accounts), data : KnownRecords, path : Seq(Groups),
             parent : Groups \cup {Sync!Top}, group : Groups \cup {Sync!Absent},
             rest : SUBSET UNION {r.memberOf : r \in KnownRecords}]

UsersTyped ==
    /\ hook \in Hooks
    /\ directory \in [Accounts -> KnownRecords] /\ \A u \in Accounts : directory[u] \in Records[u]
    /\ synced \in [Accounts -> KnownRecords]
    /\ \A u \in Accounts : synced[u] \in Records[u] \cup {Sync!Unknown}
    /\ tree \in [Groups -> Groups \cup {Sync!Top, Sync!Absent}]
    /\ roles \in [Accounts -> SUBSET (Groups \X Sync!Roles)]
    /\ admins \subseteq Accounts
    /\ sync \in SyncJobs

\* What the steps of the job say of the rest of it.
JobInStep ==
    /\ sync.pc # "idle" => sync.todo # <<>>
    /\ sync.pc \in {"path", "revoke", "grant"} =>
         /\ hook # "default"
         /\ sync.data \in Records[Sync!User] \ {Sync!Unknown}
         /\ synced[Sync!User] = Sync!Unknown
    /\ sync.pc = "path" => hook = "ou"
    /\ sync.pc \in {"revoke", "grant"} /\ hook = "ou" => sync.group \in Groups
    /\ sync.pc = "grant" => sync.rest \subseteq Sync!Members(sync.data)
    /\ hook = "default" => \A u \in Accounts : synced[u] = Sync!Unknown

LEMMA UnknownShape == Sync!Unknown.ou = <<>> /\ Sync!Unknown \in KnownRecords
  BY DEF Sync!Unknown, KnownRecords

LEMMA RecordShape == ASSUME NEW r \in KnownRecords PROVE r.ou \in Seq(Groups)
<1>1. CASE r = Sync!Unknown
  BY <1>1, UnknownShape
<1>2. CASE \E u \in Accounts : r \in Records[u]
  BY <1>2, RecordsOfUsers
<1> QED
  BY <1>1, <1>2 DEF KnownRecords

LEMMA NoJobTyped == Sync!NoJob \in SyncJobs /\ Sync!NoJob.pc = "idle"
<1>1. <<>> \in Seq(Accounts) /\ <<>> \in Seq(Groups)
  OBVIOUS
<1>2. {} \in SUBSET UNION {r.memberOf : r \in KnownRecords}
  OBVIOUS
<1> QED
  BY <1>1, <1>2, UnknownShape DEF Sync!NoJob, SyncJobs, SyncSteps

\* A job that begins, with its users or with those that are left.
Begin(todo, g) == [Sync!NoJob EXCEPT !.pc = "fetch", !.todo = todo, !.group = g]

LEMMA BeginTyped ==
  ASSUME NEW todo \in Seq(Accounts), NEW g \in Groups \cup {Sync!Absent}
  PROVE  Begin(todo, g) \in SyncJobs /\ Begin(todo, g).pc = "fetch" /\ Begin(todo, g).todo = todo
  BY NoJobTyped DEF SyncJobs, SyncSteps, Begin

LEMMA HeadIsUser ==
  ASSUME UsersTyped, sync.todo # <<>>
  PROVE  Sync!User \in Accounts
  BY DEF UsersTyped, SyncJobs, Sync!User

LEMMA NextUserTyped ==
  ASSUME UsersTyped, sync.todo # <<>>, NEW g \in Groups \cup {Sync!Absent}
  PROVE  LET next == Sync!NextUser(g) IN
         /\ next \in SyncJobs /\ next.pc \in {"idle", "fetch"}
         /\ next.pc # "idle" => next.todo # <<>>
<1>1. CASE Len(sync.todo) = 1
  BY <1>1, NoJobTyped DEF Sync!NextUser
<1>2. CASE Len(sync.todo) # 1
  <2>1. sync.todo \in Seq(Accounts)
    BY DEF UsersTyped, SyncJobs
  <2>2. Tail(sync.todo) \in Seq(Accounts) /\ Tail(sync.todo) # <<>>
    BY <1>2, <2>1, SequenceParts
  <2>3. Sync!NextUser(g) = Begin(Tail(sync.todo), g)
    BY <1>2 DEF Sync!NextUser, Begin
  <2>4. LET next == Begin(Tail(sync.todo), g) IN
        next \in SyncJobs /\ next.pc = "fetch" /\ next.todo = Tail(sync.todo)
    BY <2>2, BeginTyped, Zenon
  <2> QED
    BY <2>2, <2>3, <2>4
<1> QED
  BY <1>1, <1>2

\* What a directory group gives, by the hook.
LEMMA GrantsShape ==
  ASSUME NEW d, NEW group
  PROVE  /\ hook = "ou" => Sync!Grants(d, group) \subseteq {group} \X Sync!Special
         /\ hook = "metal" => Sync!Grants(d, group) \subseteq Sync!Metals \X Sync!Roles
         /\ hook = "static" /\ d \in DOMAIN Mapping =>
              /\ Sync!Grants(d, group) \subseteq {Mapping[d].cb_group} \X Sync!Roles
              /\ Sync!Grants(d, group) # {}
              /\ {gr[1] : gr \in Sync!Grants(d, group)} = {Mapping[d].cb_group}
         /\ hook = "static" /\ d \notin DOMAIN Mapping => Sync!Grants(d, group) = {}
         /\ hook \notin {"ou", "metal", "static"} => Sync!Grants(d, group) = {}
<1>1. hook = "ou" => Sync!Grants(d, group) \subseteq {group} \X Sync!Special
  BY DEF Sync!Grants
<1>2. hook = "metal" => Sync!Grants(d, group) \subseteq Sync!Metals \X Sync!Roles
  BY DEF Sync!Grants, Sync!MetalRoles
<1>3. hook = "static" /\ d \notin DOMAIN Mapping => Sync!Grants(d, group) = {}
  BY DEF Sync!Grants
<1>4. hook \notin {"ou", "metal", "static"} => Sync!Grants(d, group) = {}
  BY DEF Sync!Grants
<1>5. ASSUME hook = "static", d \in DOMAIN Mapping
      PROVE  /\ Sync!Grants(d, group) \subseteq {Mapping[d].cb_group} \X Sync!Roles
             /\ Sync!Grants(d, group) # {}
             /\ {gr[1] : gr \in Sync!Grants(d, group)} = {Mapping[d].cb_group}
  <2> DEFINE g == Mapping[d].cb_group
             r == Mapping[d].roles \cup {"viewers"}
  <2>1. Sync!Grants(d, group) = {g} \X r
    BY <1>5 DEF Sync!Grants
  <2>2. r \subseteq Sync!Roles /\ "viewers" \in r
    BY <1>5, MappingToGroups DEF Sync!Roles
  <2>3. <<g, "viewers">> \in {g} \X r
    BY <2>2
  <2> HIDE DEF g, r
  <2>4. {gr[1] : gr \in {g} \X r} = {g}
    BY <2>3
  <2> QED
    BY <2>1, <2>2, <2>3, <2>4 DEF g
<1> QED
  BY <1>1, <1>2, <1>3, <1>4, <1>5

LEMMA GrantsTyped ==
  ASSUME UsersTyped, JobInStep, sync.pc = "grant", NEW d
  PROVE  Sync!Grants(d, sync.group) \subseteq Groups \X Sync!Roles
<1>1. Sync!Special \subseteq Sync!Roles /\ Sync!Metals \subseteq Groups
  BY NamesOfGroups DEF Sync!Roles
<1>2. hook = "ou" => sync.group \in Groups
  BY DEF JobInStep
<1>3. d \in DOMAIN Mapping => Mapping[d].cb_group \in Groups
  BY MappingToGroups
<1>4. CASE hook = "ou"
  BY <1>1, <1>2, <1>4, GrantsShape
<1>5. CASE hook = "metal"
  BY <1>1, <1>5, GrantsShape
<1>6. CASE hook = "static"
  BY <1>1, <1>3, <1>6, GrantsShape
<1>7. CASE hook \notin {"ou", "metal", "static"}
  BY <1>7, GrantsShape
<1> QED
  BY <1>4, <1>5, <1>6, <1>7

\* Groups are added, and none is moved.
LEMMA TopsTyped ==
  ASSUME UsersTyped, NEW groups
  PROVE  Sync!AtTop(groups) \in [Groups -> Groups \cup {Sync!Top, Sync!Absent}]
  BY DEF UsersTyped, Sync!AtTop

UsersInStep == UsersTyped /\ JobInStep

\* Between two users the steps ask for nothing.
LEMMA BetweenUsers ==
  ASSUME hook' = hook, sync'.pc \in {"idle", "fetch"}, sync'.pc # "idle" => sync'.todo # <<>>,
         hook = "default" => \A u \in Accounts : synced'[u] = Sync!Unknown
  PROVE  JobInStep'
  BY DEF JobInStep

LEMMA SyncedTyped ==
  ASSUME UsersInStep, NEW u \in Accounts, NEW r \in Records[u] \cup {Sync!Unknown},
         synced' = [synced EXCEPT ![u] = r]
  PROVE  /\ synced' \in [Accounts -> KnownRecords]
         /\ \A v \in Accounts : synced'[v] \in Records[v] \cup {Sync!Unknown}
         /\ synced'[u] = r /\ \A v \in Accounts \ {u} : synced'[v] = synced[v]
<1>1. r \in KnownRecords
  BY DEF KnownRecords
<1> QED
  BY <1>1 DEF UsersInStep, UsersTyped

LEMMA FailInStep ==
  ASSUME UsersInStep, Sync!Fail, UNCHANGED <<hook, directory, tree, roles, admins, synced>>
  PROVE  UsersInStep'
<1>1. UsersTyped'
  BY NoJobTyped DEF UsersInStep, UsersTyped, Sync!Fail
<1>2. JobInStep'
  BY NoJobTyped, BetweenUsers DEF UsersInStep, JobInStep, Sync!Fail
<1> QED
  BY <1>1, <1>2 DEF UsersInStep

LEMMA StartInStep ==
  ASSUME UsersInStep, NEW users \in Sync!Lists, Sync!Start(users)
  PROVE  UsersInStep'
<1>1. PICK n \in 1..MaxUsers : users \in [1..n -> Accounts]
  BY DEF Sync!Lists, Sync!Injection
<1>2. users \in Seq(Accounts) /\ users # <<>>
  BY <1>1, RecordsOfUsers
<1>3. Sync!Absent \in Groups \cup {Sync!Absent} /\ Sync!NoJob.group = Sync!Absent
  BY DEF Sync!NoJob
<1>4. sync' = Begin(users, Sync!Absent)
  BY <1>3 DEF Sync!Start, Begin, Sync!NoJob
<1>5. sync' \in SyncJobs /\ sync'.pc = "fetch" /\ sync'.todo = users
  BY <1>2, <1>4, BeginTyped
<1>6. UsersTyped'
  BY <1>5 DEF UsersInStep, UsersTyped, Sync!Start
<1>7. JobInStep'
  BY <1>2, <1>5, BetweenUsers DEF UsersInStep, JobInStep, Sync!Start
<1> QED
  BY <1>6, <1>7 DEF UsersInStep

LEMMA FetchInStep ==
  ASSUME UsersInStep, Sync!Fetch
  PROVE  UsersInStep'
<1>1. sync.todo # <<>> /\ sync \in SyncJobs /\ Sync!User \in Accounts
  BY HeadIsUser DEF UsersInStep, UsersTyped, JobInStep, Sync!Fetch
<1>2. /\ synced' \in [Accounts -> KnownRecords]
      /\ \A u \in Accounts : synced'[u] \in Records[u] \cup {Sync!Unknown}
      /\ synced'[Sync!User] = Sync!Unknown
  BY <1>1, SyncedTyped DEF Sync!Fetch
<1>3. CASE directory[Sync!User] = Sync!Unknown
  <2>1. UsersTyped'
    BY <1>2, <1>3, NoJobTyped DEF UsersInStep, UsersTyped, Sync!Fail, Sync!Fetch
  <2>2. JobInStep'
    BY <1>3, NoJobTyped, BetweenUsers DEF Sync!Fail, Sync!Fetch
  <2> QED
    BY <2>1, <2>2 DEF UsersInStep
<1>4. CASE directory[Sync!User] # Sync!Unknown
  <2> DEFINE record == directory[Sync!User]
             step == IF hook = "ou" THEN "path" ELSE "revoke"
  <2>1. record \in Records[Sync!User] /\ record \in KnownRecords /\ record.ou \in Seq(Groups)
    BY <1>1, RecordShape DEF UsersInStep, UsersTyped
  <2>2. sync' = [sync EXCEPT !.pc = step, !.data = record, !.path = record.ou, !.parent = Sync!Top]
    BY <1>4 DEF Sync!Fetch
  <2> HIDE DEF record
  <2>3. step \in {"path", "revoke"} /\ (step = "path" <=> hook = "ou")
    OBVIOUS
  <2> HIDE DEF step
  <2>4. sync' \in SyncJobs
    BY <1>1, <2>1, <2>2, <2>3 DEF SyncJobs, SyncSteps
  <2>5. sync'.pc = step /\ sync'.data = record /\ sync'.todo = sync.todo /\ sync'.group = sync.group
    BY <1>1, <2>2 DEF SyncJobs
  <2>6. tree' \in [Groups -> Groups \cup {Sync!Top, Sync!Absent}]
    BY <1>4, TopsTyped DEF UsersInStep, Sync!Fetch
  <2>7. UsersTyped'
    BY <1>2, <2>4, <2>6 DEF UsersInStep, UsersTyped, Sync!Fetch
  <2>8. Sync!User' = Sync!User
    BY <2>5 DEF Sync!User
  <2>9. record # Sync!Unknown
    BY <1>4 DEF record
  <2>10. JobInStep'
    BY <1>1, <1>2, <2>1, <2>3, <2>5, <2>8, <2>9 DEF JobInStep, Sync!Fetch
  <2> QED
    BY <2>7, <2>10 DEF UsersInStep
<1> QED
  BY <1>3, <1>4

LEMMA ClimbInStep ==
  ASSUME UsersInStep, Sync!Climb
  PROVE  UsersInStep'
<1> DEFINE g == Head(sync.path)
<1>1. sync.todo # <<>> /\ sync \in SyncJobs /\ Sync!User \in Accounts
  BY HeadIsUser DEF UsersInStep, UsersTyped, JobInStep, Sync!Climb
<1>2. g \in Groups /\ Tail(sync.path) \in Seq(Groups)
  BY <1>1, SequenceParts DEF SyncJobs, Sync!Climb
<1>3. CASE tree[g] \in {Sync!Absent, sync.parent}
  <2>1. sync' = [sync EXCEPT !.group = g, !.parent = g, !.path = Tail(@)]
    BY <1>3 DEF Sync!Climb
  <2>2. tree' = [tree EXCEPT ![g] = sync.parent]
    BY <1>3 DEF Sync!Climb
  <2> HIDE DEF g
  <2>3. sync' \in SyncJobs
    BY <1>1, <1>2, <2>1 DEF SyncJobs
  <2>4. /\ sync'.pc = sync.pc /\ sync'.data = sync.data /\ sync'.todo = sync.todo
        /\ sync'.group = g /\ sync'.rest = sync.rest
    BY <1>1, <2>1 DEF SyncJobs
  <2>5. sync.parent \in Groups \cup {Sync!Top}
    BY <1>1 DEF SyncJobs
  <2>6. UsersTyped'
    BY <2>2, <2>3, <2>5 DEF UsersInStep, UsersTyped, Sync!Climb
  <2>7. Sync!User' = Sync!User
    BY <2>4 DEF Sync!User
  <2>8. JobInStep'
    BY <1>2, <2>4, <2>7 DEF UsersInStep, JobInStep, Sync!Climb
  <2> QED
    BY <2>6, <2>8 DEF UsersInStep
<1>4. CASE tree[g] \notin {Sync!Absent, sync.parent}
  <2>1. sync' = Sync!NextUser(g) /\ UNCHANGED <<hook, directory, tree, roles, admins, synced>>
    BY <1>4 DEF Sync!Climb
  <2> HIDE DEF g
  <2>2. /\ sync' \in SyncJobs /\ sync'.pc \in {"idle", "fetch"}
        /\ sync'.pc # "idle" => sync'.todo # <<>>
    BY <1>1, <1>2, <2>1, NextUserTyped DEF UsersInStep
  <2>3. UsersTyped'
    BY <2>1, <2>2 DEF UsersInStep, UsersTyped
  <2>4. JobInStep'
    BY <2>1, <2>2, BetweenUsers DEF UsersInStep, JobInStep
  <2> QED
    BY <2>3, <2>4 DEF UsersInStep
<1> QED
  BY <1>3, <1>4

LEMMA ArriveInStep ==
  ASSUME UsersInStep, Sync!Arrive
  PROVE  UsersInStep'
<1>1. sync.todo # <<>> /\ sync \in SyncJobs
  BY DEF UsersInStep, UsersTyped, JobInStep, Sync!Arrive
<1>2. CASE sync.group = Sync!Absent
  BY <1>2, FailInStep DEF Sync!Arrive
<1>3. CASE sync.group # Sync!Absent
  <2>1. sync' = [sync EXCEPT !.pc = "revoke"]
    BY <1>3 DEF Sync!Arrive
  <2>2. /\ sync' \in SyncJobs /\ sync'.pc = "revoke" /\ sync'.data = sync.data
        /\ sync'.todo = sync.todo /\ sync'.group = sync.group
    BY <1>1, <2>1 DEF SyncJobs, SyncSteps
  <2>3. sync.group \in Groups
    BY <1>1, <1>3 DEF SyncJobs
  <2>4. UsersTyped'
    BY <2>2 DEF UsersInStep, UsersTyped, Sync!Arrive
  <2>5. Sync!User' = Sync!User
    BY <2>2 DEF Sync!User
  <2>6. JobInStep'
    BY <1>1, <2>2, <2>3, <2>5 DEF UsersInStep, JobInStep, Sync!Arrive
  <2> QED
    BY <2>4, <2>6 DEF UsersInStep
<1> QED
  BY <1>2, <1>3

\* Roles are taken from one user, or given to one.
LEMMA RolesTyped ==
  ASSUME UsersInStep, NEW u \in Accounts, NEW new \in SUBSET (Groups \X Sync!Roles),
         roles' = [roles EXCEPT ![u] = new]
  PROVE  /\ roles' \in [Accounts -> SUBSET (Groups \X Sync!Roles)]
         /\ roles'[u] = new /\ \A v \in Accounts \ {u} : roles'[v] = roles[v]
  BY DEF UsersInStep, UsersTyped

LEMMA WithoutTyped ==
  ASSUME UsersInStep, NEW u \in Accounts, NEW groups
  PROVE  Sync!Without(u, groups) \in SUBSET (Groups \X Sync!Roles)
  BY DEF UsersInStep, UsersTyped, Sync!Without

\* What Revoke makes of the user's roles.
Revoked ==
    CASE hook = "ou" -> Sync!Without(Sync!User, {sync.group}) \cup {<<sync.group, "viewers">>}
      [] hook = "metal" -> Sync!Without(Sync!User, Sync!Metals)
      [] OTHER -> roles[Sync!User]

LEMMA RevokeRoles ==
  ASSUME UsersInStep, Sync!Revoke
  PROVE  /\ Sync!User \in Accounts /\ sync.todo # <<>>
         /\ sync.data \in Records[Sync!User] /\ sync.data \in KnownRecords
         /\ roles' \in [Accounts -> SUBSET (Groups \X Sync!Roles)]
         /\ roles'[Sync!User] = Revoked
         /\ \A v \in Accounts \ {Sync!User} : roles'[v] = roles[v]
<1>1. sync.pc = "revoke" /\ roles' = [roles EXCEPT ![Sync!User] = Revoked]
  BY DEF Sync!Revoke, Revoked
<1>2. /\ Sync!User \in Accounts /\ sync.todo # <<>>
      /\ sync.data \in Records[Sync!User] /\ sync.data \in KnownRecords
  BY <1>1, HeadIsUser DEF UsersInStep, UsersTyped, JobInStep, SyncJobs
<1>3. Revoked \in SUBSET (Groups \X Sync!Roles)
  <2>1. CASE hook = "ou"
    <3>1. <<sync.group, "viewers">> \in Groups \X Sync!Roles
      BY <1>1, <2>1 DEF UsersInStep, JobInStep, Sync!Roles
    <3>2. Revoked = Sync!Without(Sync!User, {sync.group}) \cup {<<sync.group, "viewers">>}
      BY <2>1 DEF Revoked
    <3> QED
      BY <1>2, <3>1, <3>2, WithoutTyped
  <2>2. CASE hook = "metal"
    BY <1>2, <2>2, WithoutTyped DEF Revoked
  <2>3. CASE hook \notin {"ou", "metal"}
    BY <1>2, <2>3 DEF Revoked, UsersInStep, UsersTyped
  <2> QED
    BY <2>1, <2>2, <2>3
<1> QED
  BY <1>1, <1>2, <1>3, RolesTyped

LEMMA RevokeInStep ==
  ASSUME UsersInStep, Sync!Revoke
  PROVE  UsersInStep'
<1>1. sync \in SyncJobs /\ sync.pc = "revoke"
  BY DEF UsersInStep, UsersTyped, Sync!Revoke
<1>2. CASE hook = "metal" /\ sync.data.memberOf = Sync!NoAttribute
  <2>1. /\ sync' = Sync!NextUser(sync.group)
        /\ synced' = [synced EXCEPT ![Sync!User] = sync.data]
    BY <1>2 DEF Sync!Revoke
  <2>2. sync.group \in Groups \cup {Sync!Absent}
    BY <1>1 DEF SyncJobs
  <2>3. /\ sync' \in SyncJobs /\ sync'.pc \in {"idle", "fetch"}
        /\ sync'.pc # "idle" => sync'.todo # <<>>
    BY <2>1, <2>2, NextUserTyped, RevokeRoles DEF UsersInStep
  <2>4. /\ synced' \in [Accounts -> KnownRecords]
        /\ \A v \in Accounts : synced'[v] \in Records[v] \cup {Sync!Unknown}
    BY <2>1, SyncedTyped, RevokeRoles
  <2>5. UsersTyped'
    BY <2>3, <2>4, RevokeRoles DEF UsersInStep, UsersTyped, Sync!Revoke
  <2>6. JobInStep'
    BY <1>2, <2>3, BetweenUsers DEF Sync!Revoke
  <2> QED
    BY <2>5, <2>6 DEF UsersInStep
<1>3. CASE ~(hook = "metal" /\ sync.data.memberOf = Sync!NoAttribute)
  <2>1. /\ sync' = [sync EXCEPT !.pc = "grant", !.rest = Sync!Members(sync.data)]
        /\ UNCHANGED <<hook, directory, tree, admins, synced>>
    BY <1>3 DEF Sync!Revoke
  <2>2. Sync!Members(sync.data) \in SUBSET UNION {r.memberOf : r \in KnownRecords}
    BY RevokeRoles DEF Sync!Members
  <2>3. /\ sync' \in SyncJobs /\ sync'.pc = "grant" /\ sync'.data = sync.data
        /\ sync'.todo = sync.todo /\ sync'.group = sync.group
        /\ sync'.rest = Sync!Members(sync.data)
    BY <1>1, <2>1, <2>2 DEF SyncJobs, SyncSteps
  <2>4. UsersTyped'
    BY <2>1, <2>3, RevokeRoles DEF UsersInStep, UsersTyped
  <2>5. Sync!User' = Sync!User /\ Sync!Members(sync.data)' = Sync!Members(sync.data)
    BY <2>3 DEF Sync!User, Sync!Members
  <2>6. JobInStep'
    BY <1>1, <2>1, <2>3, <2>5 DEF UsersInStep, JobInStep
  <2> QED
    BY <2>4, <2>6 DEF UsersInStep
<1> QED
  BY <1>2, <1>3

\* What Grant makes of them, unless the job fails at a group of another case.
GroupsReset(d) == IF hook = "static" THEN {gr[1] : gr \in Sync!Grants(d, sync.group)} ELSE {}
Granted(d) == Sync!Without(Sync!User, GroupsReset(d)) \cup Sync!Grants(d, sync.group)

LEMMA GrantFails ==
  ASSUME NEW d, Sync!Grant(d), hook = "static", d \in OtherCase
  PROVE  Sync!Fail /\ UNCHANGED <<hook, directory, tree, roles, admins, synced>>
  BY DEF Sync!Grant

LEMMA GrantRoles ==
  ASSUME UsersInStep, NEW d, Sync!Grant(d), ~(hook = "static" /\ d \in OtherCase)
  PROVE  /\ Sync!User \in Accounts /\ sync.todo # <<>> /\ sync.pc = "grant" /\ d \in sync.rest
         /\ roles' \in [Accounts -> SUBSET (Groups \X Sync!Roles)]
         /\ roles'[Sync!User] = Granted(d)
         /\ \A v \in Accounts \ {Sync!User} : roles'[v] = roles[v]
         /\ tree' = Sync!AtTop(GroupsReset(d))
         /\ admins' = IF hook = "metal" /\ d = "CB-Admins" THEN admins \cup {Sync!User} ELSE admins
         /\ sync' = [sync EXCEPT !.rest = @ \ {d}]
         /\ UNCHANGED <<hook, directory, synced>>
<1>1. /\ sync.pc = "grant" /\ d \in sync.rest
      /\ roles' = [roles EXCEPT ![Sync!User] = Granted(d)]
      /\ tree' = Sync!AtTop(GroupsReset(d))
      /\ admins' = IF hook = "metal" /\ d = "CB-Admins" THEN admins \cup {Sync!User} ELSE admins
      /\ sync' = [sync EXCEPT !.rest = @ \ {d}]
      /\ UNCHANGED <<hook, directory, synced>>
  BY DEF Sync!Grant, Granted, GroupsReset
<1>2. Sync!User \in Accounts /\ sync.todo # <<>>
  BY <1>1, HeadIsUser DEF UsersInStep, JobInStep
<1>3. Sync!Grants(d, sync.group) \subseteq Groups \X Sync!Roles
  BY <1>1, GrantsTyped DEF UsersInStep
<1>4. Granted(d) \in SUBSET (Groups \X Sync!Roles)
  BY <1>2, <1>3, WithoutTyped DEF Granted
<1> QED
  BY <1>1, <1>2, <1>4, RolesTyped

LEMMA GrantInStep ==
  ASSUME UsersInStep, NEW d, Sync!Grant(d)
  PROVE  UsersInStep'
<1>1. CASE hook = "static" /\ d \in OtherCase
  BY <1>1, GrantFails, FailInStep
<1>2. CASE ~(hook = "static" /\ d \in OtherCase)
  <2>1. sync \in SyncJobs /\ sync' = [sync EXCEPT !.rest = @ \ {d}] /\ sync.pc = "grant"
    BY <1>2, GrantRoles DEF UsersInStep, UsersTyped
  <2>2. /\ sync' \in SyncJobs /\ sync'.pc = sync.pc /\ sync'.data = sync.data
        /\ sync'.todo = sync.todo /\ sync'.group = sync.group /\ sync'.rest = sync.rest \ {d}
    BY <2>1 DEF SyncJobs
  <2>3. tree' \in [Groups -> Groups \cup {Sync!Top, Sync!Absent}]
    BY <1>2, GrantRoles, TopsTyped DEF UsersInStep
  <2>4. admins' \subseteq Accounts
    BY <1>2, GrantRoles DEF UsersInStep, UsersTyped
  <2>5. UsersTyped'
    BY <1>2, <2>2, <2>3, <2>4, GrantRoles DEF UsersInStep, UsersTyped
  <2>6. Sync!User' = Sync!User /\ Sync!Members(sync.data)' = Sync!Members(sync.data)
    BY <2>2 DEF Sync!User, Sync!Members
  <2>7. hook' = hook /\ synced' = synced
    BY <1>2, GrantRoles
  <2>8. JobInStep'
    BY <2>1, <2>2, <2>6, <2>7 DEF UsersInStep, JobInStep
  <2> QED
    BY <2>5, <2>8 DEF UsersInStep
<1> QED
  BY <1>1, <1>2

LEMMA EndUserFacts ==
  ASSUME UsersInStep, Sync!EndUser
  PROVE  /\ Sync!User \in Accounts /\ sync.todo # <<>> /\ sync.pc = "grant" /\ sync.rest = {}
         /\ sync.data \in Records[Sync!User] /\ sync.data # Sync!Unknown
         /\ synced' \in [Accounts -> KnownRecords]
         /\ \A u \in Accounts : synced'[u] \in Records[u] \cup {Sync!Unknown}
         /\ synced'[Sync!User] = sync.data
         /\ \A v \in Accounts \ {Sync!User} : synced'[v] = synced[v]
         /\ sync' \in SyncJobs /\ sync'.pc \in {"idle", "fetch"}
         /\ sync'.pc # "idle" => sync'.todo # <<>>
<1>1. /\ sync.pc = "grant" /\ sync.rest = {} /\ sync' = Sync!NextUser(sync.group)
      /\ synced' = [synced EXCEPT ![Sync!User] = sync.data]
  BY DEF Sync!EndUser
<1>2. /\ Sync!User \in Accounts /\ sync.todo # <<>>
      /\ sync.data \in Records[Sync!User] /\ sync.data # Sync!Unknown
  BY <1>1, HeadIsUser DEF UsersInStep, JobInStep
<1>3. sync.group \in Groups \cup {Sync!Absent}
  BY DEF UsersInStep, UsersTyped, SyncJobs
<1>4. /\ sync' \in SyncJobs /\ sync'.pc \in {"idle", "fetch"}
      /\ sync'.pc # "idle" => sync'.todo # <<>>
  BY <1>1, <1>2, <1>3, NextUserTyped DEF UsersInStep
<1> QED
  BY <1>1, <1>2, <1>4, SyncedTyped

LEMMA EndUserInStep ==
  ASSUME UsersInStep, Sync!EndUser
  PROVE  UsersInStep'
<1>1. UsersTyped'
  BY EndUserFacts DEF UsersInStep, UsersTyped, Sync!EndUser
<1>2. hook # "default" /\ hook' = hook
  BY EndUserFacts DEF UsersInStep, JobInStep, Sync!EndUser
<1>3. JobInStep'
  BY <1>2, EndUserFacts, BetweenUsers
<1> QED
  BY <1>1, <1>3 DEF UsersInStep

LEMMA JoinInStep ==
  ASSUME UsersInStep, Sync!JoinDefaultGroup
  PROVE  UsersInStep'
<1>1. sync.todo # <<>> /\ Sync!User \in Accounts /\ sync.group \in Groups \cup {Sync!Absent}
  BY HeadIsUser DEF UsersInStep, UsersTyped, SyncJobs, JobInStep, Sync!JoinDefaultGroup
<1>2. CASE tree[Sync!DefaultGroup] = Sync!Absent
  BY <1>2, FailInStep DEF Sync!JoinDefaultGroup
<1>3. CASE tree[Sync!DefaultGroup] # Sync!Absent
  <2> DEFINE old == roles[Sync!User]
             new == IF <<Sync!DefaultGroup, "resource_admins">> \in old THEN old
                    ELSE (old \cup {Sync!DefaultGroup} \X {"requestors", "approvers"})
                           \ {<<Sync!DefaultGroup, "viewers">>}
  <2>1. roles' = [roles EXCEPT ![Sync!User] = new] /\ sync' = Sync!NextUser(sync.group)
    BY <1>3 DEF Sync!JoinDefaultGroup
  <2>2. old \in SUBSET (Groups \X Sync!Roles)
    BY <1>1 DEF UsersInStep, UsersTyped
  <2>3. {Sync!DefaultGroup} \X {"requestors", "approvers"} \subseteq Groups \X Sync!Roles
    BY NamesOfGroups DEF Sync!Roles, Sync!Special
  <2>4. new \in SUBSET (Groups \X Sync!Roles)
    BY <2>2, <2>3
  <2>5. roles' \in [Accounts -> SUBSET (Groups \X Sync!Roles)]
    BY <1>1, <2>1, <2>4, RolesTyped
  <2>6. /\ sync' \in SyncJobs /\ sync'.pc \in {"idle", "fetch"}
        /\ sync'.pc # "idle" => sync'.todo # <<>>
    BY <1>1, <2>1, NextUserTyped DEF UsersInStep
  <2>7. UsersTyped'
    BY <2>5, <2>6 DEF UsersInStep, UsersTyped, Sync!JoinDefaultGroup
  <2>8. JobInStep'
    BY <2>6, BetweenUsers DEF UsersInStep, JobInStep, Sync!JoinDefaultGroup
  <2> QED
    BY <2>7, <2>8 DEF UsersInStep
<1> QED
  BY <1>2, <1>3

LEMMA ChangeInStep ==
  ASSUME UsersInStep, NEW u \in Accounts, Sync!ChangeRecord(u)
  PROVE  UsersInStep'
<1>1. PICK r \in Records[u] : directory' = [directory EXCEPT ![u] = r]
  BY DEF Sync!ChangeRecord
<1>2. UsersTyped'
  BY <1>1 DEF UsersInStep, UsersTyped, Sync!ChangeRecord, KnownRecords
<1>3. JobInStep'
  BY DEF UsersInStep, JobInStep, Sync!ChangeRecord, Sync!User, Sync!Members
<1> QED
  BY <1>2, <1>3 DEF UsersInStep

LEMMA UsersNextInStep ==
  ASSUME UsersInStep, [Sync!Next]_usersVars
  PROVE  UsersInStep'
<1>1. ASSUME NEW users \in Sync!Lists, Sync!Start(users) PROVE UsersInStep'
  BY <1>1, StartInStep
<1>2. ASSUME NEW d, Sync!Grant(d) PROVE UsersInStep'
  BY <1>2, GrantInStep
<1>3. ASSUME NEW u \in Accounts, Sync!ChangeRecord(u) PROVE UsersInStep'
  BY <1>3, ChangeInStep
<1>4. ASSUME Sync!Die PROVE UsersInStep'
  BY <1>4, FailInStep DEF Sync!Die
<1>5. CASE UNCHANGED usersVars
  BY <1>5 DEF usersVars, UsersInStep, UsersTyped, JobInStep, Sync!User, Sync!Members
<1> QED
  BY <1>1, <1>2, <1>3, <1>4, <1>5, FetchInStep, ClimbInStep, ArriveInStep, RevokeInStep,
     EndUserInStep, JoinInStep DEF Sync!Next

LEMMA UsersInitInStep ==
  ASSUME Sync!Init
  PROVE  UsersInStep
<1>1. UsersTyped
  BY NoJobTyped, UnknownShape, RecordsOfUsers DEF Sync!Init, UsersTyped, KnownRecords
<1>2. JobInStep
  BY NoJobTyped DEF Sync!Init, JobInStep
<1> QED
  BY <1>1, <1>2 DEF UsersInStep

(* The user synchronisation: roles follow the record that was read *)

Within(grs, groups) == {gr \in grs : gr[1] \in groups /\ gr[2] \in Sync!Special}
SpecialOf(grs) == {gr \in grs : gr[2] \in Sync!Special}

\* The directory groups of the user that the job has been through, the groups it has
\* settled by them, and what they give.
Done == Sync!Members(sync.data) \ sync.rest
Settles(done, group) ==
    CASE hook = "ou" -> {group}
      [] hook = "metal" -> Sync!Metals
      [] OTHER -> {Mapping[d].cb_group : d \in done \cap DOMAIN Mapping}
Gives(done, group) == UNION {Sync!Grants(d, group) : d \in done}

\* Half-way through a user's groups the roles are right for those behind.
RolesSoFar ==
    sync.pc = "grant" /\ Sync!Plain(sync.data) =>
      Within(roles[Sync!User], Settles(Done, sync.group)) = SpecialOf(Gives(Done, sync.group))
AdminSoFar ==
    sync.pc = "grant" /\ hook = "metal" /\ "CB-Admins" \in Done => Sync!User \in admins

\* The first n groups of the path hang below each other.
Hang(ou, n) == \A i \in 1..n : tree[ou[i]] = IF i = 1 THEN Sync!Top ELSE ou[i - 1]
Climbed == Len(sync.data.ou) - Len(sync.path)

OnPath ==
    sync.pc = "path" => LET ou == sync.data.ou IN
      /\ Climbed \in Nat
      /\ \A i \in 1..Len(sync.path) : sync.path[i] = ou[Climbed + i]
      /\ sync.parent = IF Climbed = 0 THEN Sync!Top ELSE ou[Climbed]
      /\ Climbed > 0 => sync.group = ou[Climbed]
      /\ Hang(ou, Climbed)
AtHome ==
    sync.pc \in {"revoke", "grant"} /\ hook = "ou" /\ sync.data.ou # <<>> =>
      sync.group = Sync!Last(sync.data.ou) /\ Hang(sync.data.ou, Len(sync.data.ou))

UsersInv ==
    /\ UsersInStep /\ Sync!RolesFollowDirectory
    /\ RolesSoFar /\ AdminSoFar /\ OnPath /\ AtHome

\* A group that hangs somewhere stays there.
LEMMA GroupsStay ==
  ASSUME UsersInStep, [Sync!Next]_usersVars, NEW g \in Groups, tree[g] # Sync!Absent
  PROVE  tree'[g] = tree[g]
<1>1. ASSUME NEW groups, tree' = Sync!AtTop(groups) PROVE tree'[g] = tree[g]
  BY <1>1 DEF Sync!AtTop
<1>2. CASE Sync!Fetch
  BY <1>1, <1>2 DEF Sync!Fetch
<1>3. CASE Sync!Climb
  BY <1>3 DEF Sync!Climb, UsersInStep, UsersTyped
<1>4. ASSUME NEW d, Sync!Grant(d) PROVE tree'[g] = tree[g]
  <2>1. CASE hook = "static" /\ d \in OtherCase
    BY <1>4, <2>1, GrantFails
  <2>2. CASE ~(hook = "static" /\ d \in OtherCase)
    BY <1>1, <1>4, <2>2, GrantRoles
  <2> QED
    BY <2>1, <2>2
<1>5. CASE UNCHANGED usersVars
  BY <1>5 DEF usersVars
<1>6. ASSUME NEW users, Sync!Start(users) PROVE tree'[g] = tree[g]
  BY <1>6 DEF Sync!Start
<1>7. ASSUME NEW u, Sync!ChangeRecord(u) PROVE tree'[g] = tree[g]
  BY <1>7 DEF Sync!ChangeRecord
<1>8. CASE Sync!Arrive \/ Sync!Revoke \/ Sync!EndUser \/ Sync!JoinDefaultGroup \/ Sync!Die
  BY <1>8 DEF Sync!Arrive, Sync!Revoke, Sync!EndUser, Sync!JoinDefaultGroup, Sync!Die
<1> QED
  BY <1>2, <1>3, <1>4, <1>5, <1>6, <1>7, <1>8 DEF Sync!Next

LEMMA HangStays ==
  ASSUME UsersInStep, [Sync!Next]_usersVars, NEW ou \in Seq(Groups), NEW n \in 0..Len(ou), Hang(ou, n)
  PROVE  \A i \in 1..n : tree'[ou[i]] = IF i = 1 THEN Sync!Top ELSE ou[i - 1]
<1> SUFFICES ASSUME NEW i \in 1..n PROVE tree'[ou[i]] = IF i = 1 THEN Sync!Top ELSE ou[i - 1]
  OBVIOUS
<1>1. ou[i] \in Groups /\ (i # 1 => ou[i - 1] \in Groups)
  OBVIOUS
<1>2. tree[ou[i]] = IF i = 1 THEN Sync!Top ELSE ou[i - 1]
  BY DEF Hang
<1>3. Sync!Top # Sync!Absent
  BY DEF Sync!Top, Sync!Absent
<1>4. tree[ou[i]] # Sync!Absent
  BY <1>1, <1>2, <1>3, NamesOfGroups
<1> QED
  BY <1>1, <1>2, <1>4, GroupsStay

\* A step that leaves the job where it is leaves the path as it is.
LEMMA DataShape ==
  ASSUME UsersInStep
  PROVE  sync.data \in KnownRecords /\ sync.data.ou \in Seq(Groups) /\ sync.path \in Seq(Groups)
  BY RecordShape DEF UsersInStep, UsersTyped, SyncJobs

LEMMA PathStays ==
  ASSUME UsersInv, [Sync!Next]_usersVars, sync'.pc = sync.pc, sync'.data = sync.data,
         sync'.path = sync.path, sync'.parent = sync.parent, sync'.group = sync.group, hook' = hook
  PROVE  OnPath' /\ AtHome'
<1>1. sync.data.ou \in Seq(Groups) /\ sync.path \in Seq(Groups)
  BY DataShape DEF UsersInv
<1>2. Climbed' = Climbed
  BY DEF Climbed
<1>3. ASSUME sync.pc = "path" PROVE OnPath'
  <2>1. Climbed \in 0..Len(sync.data.ou) /\ Hang(sync.data.ou, Climbed)
    <3>1. Climbed \in Nat /\ Hang(sync.data.ou, Climbed)
      BY <1>3 DEF UsersInv, OnPath
    <3>2. PICK n \in Nat, m \in Nat : Len(sync.data.ou) = n /\ Len(sync.path) = m
      BY <1>1, LenProperties
    <3>3. Climbed = n - m
      BY <3>2, Zenon DEF Climbed
    <3>4. n - m \in 0..n
      BY <3>1, <3>3
    <3> QED
      BY <3>1, <3>2, <3>3, <3>4, Zenon
  <2>2. \A i \in 1..Climbed : tree'[sync.data.ou[i]] = IF i = 1 THEN Sync!Top ELSE sync.data.ou[i - 1]
    BY <1>1, <2>1, HangStays DEF UsersInv
  <2> QED
    BY <1>2, <1>3, <2>2 DEF UsersInv, OnPath, Hang
<1>4. ASSUME sync.pc \in {"revoke", "grant"}, hook = "ou", sync.data.ou # <<>> PROVE AtHome'
  <2>1. Len(sync.data.ou) \in 0..Len(sync.data.ou) /\ Hang(sync.data.ou, Len(sync.data.ou))
    BY <1>1, <1>4 DEF UsersInv, AtHome
  <2>2. \A i \in 1..Len(sync.data.ou) :
          tree'[sync.data.ou[i]] = IF i = 1 THEN Sync!Top ELSE sync.data.ou[i - 1]
    BY <1>1, <2>1, HangStays DEF UsersInv
  <2> QED
    BY <1>4, <2>2 DEF UsersInv, AtHome, Hang, Sync!Last
<1> QED
  BY <1>3, <1>4 DEF OnPath, AtHome

\* RolesFollowDirectory, user by user.
Follows(u) ==
    synced[u] # Sync!Unknown /\ Sync!Plain(synced[u]) =>
      /\ Within(roles[u], Sync!Managed(synced[u])) = Sync!Entitled(synced[u])
      /\ hook = "metal" => (u \in admins <=> "CB-Admins" \in synced[u].memberOf)

LEMMA FollowsEach == Sync!RolesFollowDirectory <=> \A u \in Accounts : Follows(u)
  BY DEF Sync!RolesFollowDirectory, Follows, Within

LEMMA FollowsEachNext == Sync!RolesFollowDirectory' <=> \A u \in Accounts : Follows(u)'
  BY DEF Sync!RolesFollowDirectory, Follows, Within

LEMMA FollowsStays ==
  ASSUME NEW u \in Accounts, Follows(u), hook' = hook, roles'[u] = roles[u], synced'[u] = synced[u],
         u \in admins' <=> u \in admins
  PROVE  Follows(u)'
<1>1. ASSUME NEW d, NEW group PROVE Sync!Grants(d, group)' = Sync!Grants(d, group)
  BY DEF Sync!Grants, Sync!MetalRoles
<1>2. /\ Sync!Plain(synced[u])' = Sync!Plain(synced[u])
      /\ Sync!Managed(synced[u])' = Sync!Managed(synced[u])
  BY DEF Sync!Plain, Sync!Managed, Sync!Members
<1>3. Sync!Entitled(synced[u])' = Sync!Entitled(synced[u])
  BY <1>1 DEF Sync!Entitled, Sync!Members
<1> QED
  BY <1>2, <1>3 DEF Follows, Within

LEMMA UnknownFollows ==
  ASSUME NEW u, synced'[u] = Sync!Unknown
  PROVE  Follows(u)'
  BY DEF Follows

\* Away from the roles: no user but one whose synchronisation begins is concerned.
LEMMA QuietUsers ==
  ASSUME UsersInv, UsersInStep', hook' = hook, roles' = roles, admins' = admins,
         \A u \in Accounts : synced'[u] \in {synced[u], Sync!Unknown}, sync'.pc # "grant"
  PROVE  Sync!RolesFollowDirectory' /\ RolesSoFar' /\ AdminSoFar'
<1>1. ASSUME NEW u \in Accounts PROVE Follows(u)'
  <2>1. CASE synced'[u] = Sync!Unknown
    BY <2>1, UnknownFollows
  <2>2. CASE synced'[u] = synced[u]
    BY <2>2, FollowsEach, FollowsStays DEF UsersInv
  <2> QED
    BY <2>1, <2>2
<1>2. Sync!RolesFollowDirectory'
  BY <1>1, FollowsEachNext
<1>3. RolesSoFar' /\ AdminSoFar'
  BY DEF RolesSoFar, AdminSoFar
<1> QED
  BY <1>2, <1>3

LEMMA BetweenPaths ==
  ASSUME sync'.pc \in {"idle", "fetch"}
  PROVE  OnPath' /\ AtHome'
  BY DEF OnPath, AtHome

LEMMA FailFollows ==
  ASSUME UsersInv, Sync!Fail, UNCHANGED <<hook, directory, tree, roles, admins, synced>>
  PROVE  UsersInv'
<1>1. sync'.pc = "idle"
  BY NoJobTyped DEF Sync!Fail
<1>2. UsersInStep'
  BY FailInStep DEF UsersInv
<1>3. Sync!RolesFollowDirectory' /\ RolesSoFar' /\ AdminSoFar'
  BY <1>1, <1>2, QuietUsers
<1> QED
  BY <1>1, <1>2, <1>3, BetweenPaths DEF UsersInv

LEMMA FetchFollows ==
  ASSUME UsersInv, Sync!Fetch
  PROVE  UsersInv'
<1>1. UsersInStep'
  BY FetchInStep DEF UsersInv
<1>2. sync \in SyncJobs /\ sync.todo # <<>> /\ Sync!User \in Accounts
  BY HeadIsUser DEF UsersInv, UsersInStep, UsersTyped, JobInStep, Sync!Fetch
<1>3. \A u \in Accounts : synced'[u] \in {synced[u], Sync!Unknown}
  BY <1>2 DEF Sync!Fetch, UsersInv, UsersInStep, UsersTyped
<1>4. /\ sync'.pc \in {"idle", "path", "revoke"}
      /\ sync'.pc = "path" => /\ hook = "ou" /\ sync'.path = sync'.data.ou
                              /\ sync'.parent = Sync!Top
      /\ sync'.pc = "revoke" => hook # "ou"
  <2>1. CASE directory[Sync!User] = Sync!Unknown
    BY <2>1, NoJobTyped DEF Sync!Fetch, Sync!Fail
  <2>2. CASE directory[Sync!User] # Sync!Unknown
    <3>1. sync' = [sync EXCEPT !.pc = IF hook = "ou" THEN "path" ELSE "revoke",
                     !.data = directory[Sync!User], !.path = directory[Sync!User].ou,
                     !.parent = Sync!Top]
      BY <2>2 DEF Sync!Fetch
    <3> QED
      BY <1>2, <3>1 DEF SyncJobs
  <2> QED
    BY <2>1, <2>2
<1>5. Sync!RolesFollowDirectory' /\ RolesSoFar' /\ AdminSoFar'
  BY <1>1, <1>3, <1>4, QuietUsers DEF Sync!Fetch
<1>6. sync'.path \in Seq(Groups)
  BY <1>1 DEF UsersInStep, UsersTyped, SyncJobs
<1>7. OnPath'
  <2> SUFFICES ASSUME sync'.pc = "path" PROVE OnPath'
    BY DEF OnPath
  <2>1. sync'.path = sync'.data.ou /\ sync'.parent = Sync!Top
    BY <1>4
  <2>2. PICK n \in Nat : Len(sync'.path) = n
    BY <1>6, LenProperties
  <2>3. Climbed' = n - n
    BY <2>1, <2>2, Zenon DEF Climbed
  <2>4. Climbed' = 0
    BY <2>3
  <2>5. \A i \in 1..Len(sync'.path) : sync'.path[i] = sync'.data.ou[0 + i]
    BY <2>1, <2>2
  <2>6. Hang(sync.data.ou, Climbed)'
    BY <2>4 DEF Hang
  <2> QED
    BY <2>1, <2>4, <2>5, <2>6 DEF OnPath
<1>8. AtHome'
  BY <1>4 DEF AtHome, Sync!Fetch
<1> QED
  BY <1>1, <1>5, <1>7, <1>8 DEF UsersInv

LEMMA ClimbFollows ==
  ASSUME UsersInv, Sync!Climb
  PROVE  UsersInv'
<1> DEFINE g == Head(sync.path)
<1>1. UsersInStep'
  BY ClimbInStep DEF UsersInv
<1>2. /\ sync.pc = "path" /\ sync.path # <<>> /\ sync \in SyncJobs /\ sync.path \in Seq(Groups)
      /\ UNCHANGED <<hook, roles, admins, synced>>
  BY DEF UsersInv, UsersInStep, UsersTyped, SyncJobs, Sync!Climb
<1>3. CASE tree[g] \in {Sync!Absent, sync.parent}
  <2>1. sync' = [sync EXCEPT !.group = g, !.parent = g, !.path = Tail(@)]
    BY <1>3 DEF Sync!Climb
  <2>2. tree' = [tree EXCEPT ![g] = sync.parent]
    BY <1>3 DEF Sync!Climb
  <2>3. /\ sync'.pc = "path" /\ sync'.data = sync.data /\ sync'.group = g /\ sync'.parent = g
        /\ sync'.path = Tail(sync.path)
    BY <1>2, <2>1 DEF SyncJobs
  <2>4. Sync!RolesFollowDirectory' /\ RolesSoFar' /\ AdminSoFar'
    BY <1>1, <1>2, <2>3, QuietUsers
  <2>5. PICK ou \in Seq(Groups) : ou = sync.data.ou
    BY DataShape DEF UsersInv
  <2>6. PICK path \in Seq(Groups) : path = sync.path /\ path # <<>>
    BY <1>2
  <2>7. /\ Head(path) = path[1] /\ Head(path) \in Groups /\ Len(path) \in Nat \ {0}
        /\ Len(Tail(path)) = Len(path) - 1
        /\ \A i \in 1..(Len(path) - 1) : Tail(path)[i] = path[i + 1]
    BY <2>6, SequenceParts
  <2>8. PICK k \in Nat : k = Climbed /\ k = Len(ou) - Len(path)
    BY <1>2, <2>5, <2>6 DEF UsersInv, OnPath, Climbed
  <2>9. /\ \A i \in 1..Len(path) : path[i] = ou[k + i]
        /\ sync.parent = IF k = 0 THEN Sync!Top ELSE ou[k]
        /\ Hang(ou, k)
    BY <1>2, <2>5, <2>6, <2>8 DEF UsersInv, OnPath
  <2>10. g = ou[k + 1] /\ g \in Groups
    BY <2>6, <2>7, <2>9
  <2>11. Len(ou) \in Nat
    BY <2>5, LenProperties
  <2>12. Climbed' = k + 1
    <3>1. Climbed' = Len(ou) - Len(Tail(path))
      BY <2>3, <2>5, <2>6, Zenon DEF Climbed
    <3> QED
      BY <2>7, <2>8, <2>11, <3>1
  <2>13. \A i \in 1..Len(Tail(path)) : Tail(path)[i] = ou[(k + 1) + i]
    <3> SUFFICES ASSUME NEW i \in 1..Len(Tail(path)) PROVE Tail(path)[i] = ou[(k + 1) + i]
      OBVIOUS
    <3>1. Tail(path)[i] = path[i + 1] /\ i + 1 \in 1..Len(path)
      BY <2>7
    <3>2. path[i + 1] = ou[k + (i + 1)]
      BY <2>9, <3>1
    <3> QED
      BY <3>1, <3>2
  <2>14. \A i \in 1..(k + 1) : tree'[ou[i]] = IF i = 1 THEN Sync!Top ELSE ou[i - 1]
    <3> SUFFICES ASSUME NEW i \in 1..(k + 1)
                 PROVE  tree'[ou[i]] = IF i = 1 THEN Sync!Top ELSE ou[i - 1]
      OBVIOUS
    <3>1. CASE i = k + 1
      <4>1. tree'[g] = sync.parent
        BY <2>2, <2>10 DEF UsersInv, UsersInStep, UsersTyped
      <4> QED
        BY <2>9, <2>10, <3>1, <4>1
    <3>2. CASE i \in 1..k
      <4>1. k \in 0..Len(ou)
        BY <2>7, <2>8, <2>11
      <4>2. [Sync!Next]_usersVars
        BY DEF Sync!Next
      <4>3. \A m \in 1..k : tree'[ou[m]] = IF m = 1 THEN Sync!Top ELSE ou[m - 1]
        BY <2>9, <4>1, <4>2, HangStays DEF UsersInv
      <4> QED
        BY <3>2, <4>3
    <3> QED
      BY <3>1, <3>2
  <2>15. OnPath'
    <3>1. /\ Climbed' \in Nat /\ Climbed' > 0 /\ Climbed' # 0
          /\ sync'.data.ou = ou /\ sync'.path = Tail(path)
          /\ sync'.parent = ou[k + 1] /\ sync'.group = ou[k + 1]
      BY <2>3, <2>5, <2>6, <2>10, <2>12
    <3>2. Hang(ou, k + 1)'
      BY <2>14 DEF Hang
    <3> QED
      BY <2>12, <2>13, <3>1, <3>2 DEF OnPath
  <2>16. AtHome'
    BY <2>3 DEF AtHome
  <2> QED
    BY <1>1, <2>4, <2>15, <2>16 DEF UsersInv
<1>4. CASE tree[g] \notin {Sync!Absent, sync.parent}
  <2>1. sync' = Sync!NextUser(g)
    BY <1>4 DEF Sync!Climb
  <2>2. g \in Groups /\ sync.todo # <<>>
    BY <1>2, SequenceParts DEF UsersInv, UsersInStep, JobInStep
  <2> HIDE DEF g
  <2>3. sync'.pc \in {"idle", "fetch"}
    BY <2>1, <2>2, NextUserTyped DEF UsersInv, UsersInStep
  <2>4. Sync!RolesFollowDirectory' /\ RolesSoFar' /\ AdminSoFar'
    BY <1>1, <1>2, <2>3, QuietUsers
  <2> QED
    BY <1>1, <2>3, <2>4, BetweenPaths DEF UsersInv
<1> QED
  BY <1>3, <1>4

LEMMA ArriveFollows ==
  ASSUME UsersInv, Sync!Arrive
  PROVE  UsersInv'
<1>1. UsersInStep'
  BY ArriveInStep DEF UsersInv
<1>2. CASE sync.group = Sync!Absent
  BY <1>2, FailFollows DEF Sync!Arrive
<1>3. CASE sync.group # Sync!Absent
  <2>1. /\ sync' = [sync EXCEPT !.pc = "revoke"] /\ sync.pc = "path" /\ sync.path = <<>>
        /\ UNCHANGED <<hook, directory, tree, roles, admins, synced>>
    BY <1>3 DEF Sync!Arrive
  <2>2. sync'.pc = "revoke" /\ sync'.data = sync.data /\ sync'.group = sync.group
    BY <2>1 DEF UsersInv, UsersInStep, UsersTyped, SyncJobs
  <2>3. Sync!RolesFollowDirectory' /\ RolesSoFar' /\ AdminSoFar'
    BY <1>1, <2>1, <2>2, QuietUsers
  <2>4. PICK ou \in Seq(Groups) : ou = sync.data.ou
    BY DataShape DEF UsersInv
  <2>5. Climbed = Len(ou)
    BY <2>1, <2>4 DEF Climbed
  <2>6. ASSUME ou # <<>> PROVE sync.group = Sync!Last(ou) /\ Hang(ou, Len(ou))
    <3>1. Len(ou) > 0
      BY <2>6, EmptySeq
    <3> QED
      BY <2>1, <2>4, <2>5, <3>1 DEF UsersInv, OnPath, Sync!Last
  <2>7. AtHome'
    BY <2>1, <2>2, <2>4, <2>6 DEF AtHome, Hang
  <2> QED
    BY <1>1, <2>2, <2>3, <2>7 DEF UsersInv, OnPath
<1> QED
  BY <1>2, <1>3

\* A directory group is settled: its groups are reset, and it gives roles in them or
\* in groups settled before.
Kept(grs, reset) == {gr \in grs : gr[1] \notin reset \/ gr[2] \notin Sync!Special}

LEMMA SettleOne ==
  ASSUME NEW old, NEW settled, NEW reset, NEW given, reset \cap settled = {},
         \A gr \in given : gr[1] \in settled \cup reset
  PROVE  Within(Kept(old, reset) \cup given, settled \cup reset)
           = Within(old, settled) \cup SpecialOf(given)
  BY DEF Kept, Within, SpecialOf

LEMMA NothingSettled ==
  ASSUME UsersInStep
  PROVE  Within(Revoked, Settles({}, sync.group)) = SpecialOf(Gives({}, sync.group))
<1>1. SpecialOf(Gives({}, sync.group)) = {}
  BY DEF SpecialOf, Gives
<1>2. CASE hook = "ou"
  <2>1. /\ Revoked = Sync!Without(Sync!User, {sync.group}) \cup {<<sync.group, "viewers">>}
        /\ Settles({}, sync.group) = {sync.group}
    BY <1>2 DEF Revoked, Settles
  <2>2. "viewers" \notin Sync!Special
    BY DEF Sync!Special
  <2> QED
    BY <1>1, <2>1, <2>2 DEF Within, Sync!Without
<1>3. CASE hook = "metal"
  <2>1. Revoked = Sync!Without(Sync!User, Sync!Metals) /\ Settles({}, sync.group) = Sync!Metals
    BY <1>3 DEF Revoked, Settles
  <2> QED
    BY <1>1, <2>1 DEF Within, Sync!Without
<1>4. CASE hook \notin {"ou", "metal"}
  <2>1. Settles({}, sync.group) = {}
    BY <1>4 DEF Settles
  <2> QED
    BY <1>1, <2>1 DEF Within
<1> QED
  BY <1>2, <1>3, <1>4

\* What was said of the other users still holds.
LEMMA OthersFollow ==
  ASSUME UsersInv, hook' = hook, NEW u \in Accounts,
         \A v \in Accounts \ {u} : roles'[v] = roles[v] /\ synced'[v] = synced[v],
         \A v \in Accounts \ {u} : v \in admins' <=> v \in admins,
         Follows(u)'
  PROVE  Sync!RolesFollowDirectory'
<1>1. ASSUME NEW v \in Accounts \ {u} PROVE Follows(v)'
  BY <1>1, FollowsEach, FollowsStays DEF UsersInv
<1> QED
  BY <1>1, FollowsEachNext

LEMMA RevokeFollows ==
  ASSUME UsersInv, Sync!Revoke
  PROVE  UsersInv'
<1>1. UsersInStep'
  BY RevokeInStep DEF UsersInv
<1>2. /\ UsersInStep /\ sync \in SyncJobs /\ sync.pc = "revoke"
      /\ hook' = hook /\ admins' = admins /\ tree' = tree
  BY DEF UsersInv, UsersInStep, UsersTyped, Sync!Revoke
<1>3. PICK u \in Accounts : u = Sync!User
  BY RevokeRoles DEF UsersInv
<1>4. PICK r \in KnownRecords : r = sync.data /\ r \in Records[u]
  BY <1>3, RevokeRoles DEF UsersInv
<1>5. /\ synced[u] = Sync!Unknown /\ roles'[u] = Revoked
      /\ \A v \in Accounts \ {u} : roles'[v] = roles[v]
  BY <1>2, <1>3, RevokeRoles DEF UsersInStep, JobInStep
<1>6. CASE hook = "metal" /\ sync.data.memberOf = Sync!NoAttribute
  <2>1. synced' = [synced EXCEPT ![u] = r] /\ sync' = Sync!NextUser(sync.group)
    BY <1>3, <1>4, <1>6 DEF Sync!Revoke
  <2>2. synced'[u] = r /\ \A v \in Accounts \ {u} : synced'[v] = synced[v]
    BY <1>2, <1>4, <2>1, SyncedTyped
  <2>3. ~Sync!Plain(r)'
    BY <1>2, <1>4, <1>6 DEF Sync!Plain
  <2>4. Follows(u)'
    BY <2>2, <2>3 DEF Follows
  <2>5. sync.group \in Groups \cup {Sync!Absent} /\ sync.todo # <<>>
    BY <1>2 DEF SyncJobs, UsersInStep, JobInStep
  <2>6. sync'.pc \in {"idle", "fetch"}
    BY <1>2, <2>1, <2>5, NextUserTyped DEF UsersInStep
  <2>7. Sync!RolesFollowDirectory'
    BY <1>2, <1>5, <2>2, <2>4, OthersFollow
  <2> QED
    BY <1>1, <2>6, <2>7, BetweenPaths DEF UsersInv, RolesSoFar, AdminSoFar
<1>7. CASE ~(hook = "metal" /\ sync.data.memberOf = Sync!NoAttribute)
  <2>1. /\ sync' = [sync EXCEPT !.pc = "grant", !.rest = Sync!Members(sync.data)]
        /\ synced' = synced
    BY <1>7 DEF Sync!Revoke
  <2>2. /\ sync'.pc = "grant" /\ sync'.data = sync.data /\ sync'.todo = sync.todo
        /\ sync'.group = sync.group /\ sync'.rest = Sync!Members(sync.data)
    BY <1>2, <2>1 DEF SyncJobs
  <2>3. Follows(u)'
    BY <1>5, <2>1, UnknownFollows
  <2>4. Sync!RolesFollowDirectory'
    BY <1>2, <1>5, <2>1, <2>3, OthersFollow
  <2>5. Sync!Members(sync.data)' = Sync!Members(sync.data) /\ Sync!User' = u
    BY <1>3, <2>2 DEF Sync!Members, Sync!User
  <2>6. Done' = {}
    BY <2>2, <2>5 DEF Done
  <2>7. PICK g : g = sync.group
    OBVIOUS
  <2>8. Settles({}, g)' = Settles({}, g) /\ Gives({}, g)' = Gives({}, g)
    BY <1>2 DEF Settles, Gives
  <2>9. Within(roles'[u], Settles({}, g)') = SpecialOf(Gives({}, g)')
    BY <1>2, <1>5, <2>7, <2>8, NothingSettled
  <2>10. RolesSoFar'
    <3>1. Settles(Done, sync.group)' = Settles({}, g)' /\ Gives(Done, sync.group)' = Gives({}, g)'
      BY <2>2, <2>6, <2>7
    <3> QED
      BY <2>5, <2>9, <3>1 DEF RolesSoFar, Within, SpecialOf
  <2>11. AdminSoFar'
    BY <2>6 DEF AdminSoFar
  <2>12. AtHome'
    BY <1>2, <2>2 DEF UsersInv, AtHome, Hang
  <2> QED
    BY <1>1, <2>2, <2>4, <2>10, <2>11, <2>12 DEF UsersInv, OnPath
<1> QED
  BY <1>6, <1>7

\* Which groups a directory group resets, and that they were not settled before.
LEMMA ResetsAreNew ==
  ASSUME hook \in {"ou", "metal", "static"}, NEW r, NEW d \in Sync!Members(r), Sync!Plain(r),
         NEW done \in SUBSET Sync!Members(r), d \notin done
  PROVE  /\ GroupsReset(d) \cap Settles(done, sync.group) = {}
         /\ Settles(done \cup {d}, sync.group) = Settles(done, sync.group) \cup GroupsReset(d)
         /\ \A gr \in Sync!Grants(d, sync.group) :
              gr[1] \in Settles(done, sync.group) \cup GroupsReset(d)
<1>1. CASE hook = "ou"
  <2>1. GroupsReset(d) = {} /\ \A D : Settles(D, sync.group) = {sync.group}
    BY <1>1 DEF GroupsReset, Settles
  <2>2. Sync!Grants(d, sync.group) \subseteq {sync.group} \X Sync!Special
    BY <1>1, GrantsShape
  <2> QED
    BY <2>1, <2>2
<1>2. CASE hook = "metal"
  <2>1. GroupsReset(d) = {} /\ \A D : Settles(D, sync.group) = Sync!Metals
    BY <1>2 DEF GroupsReset, Settles
  <2>2. Sync!Grants(d, sync.group) \subseteq Sync!Metals \X Sync!Roles
    BY <1>2, GrantsShape
  <2> QED
    BY <2>1, <2>2
<1>3. CASE hook = "static"
  <2>1. \A D : Settles(D, sync.group) = {Mapping[e].cb_group : e \in D \cap DOMAIN Mapping}
    BY <1>3 DEF Settles
  <2>2. CASE d \in DOMAIN Mapping
    <3>1. /\ GroupsReset(d) = {Mapping[d].cb_group}
          /\ Sync!Grants(d, sync.group) \subseteq {Mapping[d].cb_group} \X Sync!Roles
      BY <1>3, <2>2, GrantsShape DEF GroupsReset
    <3>2. ASSUME NEW e \in done \cap DOMAIN Mapping PROVE Mapping[e].cb_group # Mapping[d].cb_group
      BY <1>3, <2>2, <3>2 DEF Sync!Plain
    <3> QED
      BY <2>1, <2>2, <3>1, <3>2
  <2>3. CASE d \notin DOMAIN Mapping
    <3>1. Sync!Grants(d, sync.group) = {}
      BY <1>3, <2>3, GrantsShape
    <3>2. GroupsReset(d) = {}
      BY <3>1 DEF GroupsReset
    <3>3. (done \cup {d}) \cap DOMAIN Mapping = done \cap DOMAIN Mapping
      BY <2>3
    <3>4. Settles(done \cup {d}, sync.group) = Settles(done, sync.group)
      BY <2>1, <3>3
    <3> QED
      BY <3>1, <3>2, <3>4
  <2> QED
    BY <2>2, <2>3
<1> QED
  BY <1>1, <1>2, <1>3

LEMMA GrantFollows ==
  ASSUME UsersInv, NEW d, Sync!Grant(d)
  PROVE  UsersInv'
<1>1. CASE hook = "static" /\ d \in OtherCase
  BY <1>1, GrantFails, FailFollows
<1>2. CASE ~(hook = "static" /\ d \in OtherCase)
  <2>1. UsersInStep'
    BY GrantInStep DEF UsersInv
  <2>2. /\ UsersInStep /\ sync \in SyncJobs /\ sync.pc = "grant" /\ d \in sync.rest
        /\ UNCHANGED <<hook, directory, synced>> /\ sync' = [sync EXCEPT !.rest = @ \ {d}]
    BY <1>2, GrantRoles DEF UsersInv, UsersInStep, UsersTyped
  <2>3. PICK u \in Accounts : u = Sync!User
    BY <1>2, GrantRoles DEF UsersInv
  <2>4. PICK r : r = sync.data
    OBVIOUS
  <2>5. PICK g : g = sync.group
    OBVIOUS
  <2>6. PICK done \in SUBSET Sync!Members(r) : done = Done
    BY <2>4 DEF Done
  <2>7. /\ sync'.pc = "grant" /\ sync'.data = r /\ sync'.todo = sync.todo /\ sync'.group = g
        /\ sync'.rest = sync.rest \ {d} /\ sync'.path = sync.path /\ sync'.parent = sync.parent
    BY <2>2, <2>4, <2>5 DEF SyncJobs
  <2>8. d \in Sync!Members(r) /\ d \notin done /\ synced[u] = Sync!Unknown
    BY <2>2, <2>3, <2>4, <2>6 DEF UsersInStep, JobInStep, Done
  <2>9. Sync!User' = u /\ Sync!Members(r)' = Sync!Members(r)
    BY <2>3, <2>7 DEF Sync!User, Sync!Members
  <2>10. Done' = done \cup {d}
    BY <2>4, <2>6, <2>7, <2>8, <2>9 DEF Done, Sync!Members
  <2>11. /\ roles'[u] = Granted(d) /\ \A v \in Accounts \ {u} : roles'[v] = roles[v]
         /\ admins' = IF hook = "metal" /\ d = "CB-Admins" THEN admins \cup {u} ELSE admins
    BY <1>2, <2>3, GrantRoles DEF UsersInv
  <2>12. Sync!RolesFollowDirectory'
    <3>1. Follows(u)'
      BY <2>2, <2>8, UnknownFollows
    <3> QED
      BY <2>2, <2>11, <3>1, OthersFollow
  <2>13. RolesSoFar'
    <3> SUFFICES ASSUME Sync!Plain(r)
                 PROVE  Within(roles'[u], Settles(done \cup {d}, g))
                          = SpecialOf(Gives(done \cup {d}, g))
      <4>1. /\ Settles(done \cup {d}, g)' = Settles(done \cup {d}, g)
            /\ Sync!Plain(r)' = Sync!Plain(r)
        BY <2>2 DEF Settles, Sync!Plain, Sync!Members
      <4>2. ASSUME NEW e PROVE Sync!Grants(e, g)' = Sync!Grants(e, g)
        BY <2>2 DEF Sync!Grants, Sync!MetalRoles
      <4>3. Gives(done \cup {d}, g)' = Gives(done \cup {d}, g)
        BY <4>2 DEF Gives
      <4> QED
        BY <2>7, <2>9, <2>10, <4>1, <4>3 DEF RolesSoFar, Within, SpecialOf
    <3>1. Within(roles[u], Settles(done, g)) = SpecialOf(Gives(done, g))
      BY <2>2, <2>3, <2>4, <2>5, <2>6 DEF UsersInv, RolesSoFar
    <3>2. /\ GroupsReset(d) \cap Settles(done, g) = {}
          /\ Settles(done \cup {d}, g) = Settles(done, g) \cup GroupsReset(d)
          /\ \A gr \in Sync!Grants(d, g) : gr[1] \in Settles(done, g) \cup GroupsReset(d)
      <4>1. hook \in {"ou", "metal", "static"}
        BY <2>2, KnownHooks DEF UsersInStep, UsersTyped, JobInStep
      <4> QED
        BY <2>5, <2>6, <2>8, <4>1, ResetsAreNew
    <3>3. roles'[u] = Kept(roles[u], GroupsReset(d)) \cup Sync!Grants(d, g)
      BY <2>3, <2>5, <2>11 DEF Granted, Sync!Without, Kept
    <3>4. Within(Kept(roles[u], GroupsReset(d)) \cup Sync!Grants(d, g),
                 Settles(done, g) \cup GroupsReset(d))
            = Within(roles[u], Settles(done, g)) \cup SpecialOf(Sync!Grants(d, g))
      BY <3>2, SettleOne
    <3>5. SpecialOf(Gives(done \cup {d}, g)) = SpecialOf(Gives(done, g)) \cup SpecialOf(Sync!Grants(d, g))
      BY DEF SpecialOf, Gives
    <3> QED
      BY <3>1, <3>2, <3>3, <3>4, <3>5, Zenon
  <2>14. AdminSoFar'
    BY <2>2, <2>3, <2>6, <2>9, <2>10, <2>11 DEF UsersInv, AdminSoFar
  <2>15. OnPath' /\ AtHome'
    <3>1. [Sync!Next]_usersVars
      BY <2>2 DEF Sync!Next
    <3> QED
      BY <2>2, <2>4, <2>5, <2>7, <3>1, PathStays
  <2> QED
    BY <2>1, <2>12, <2>13, <2>14, <2>15 DEF UsersInv
<1> QED
  BY <1>1, <1>2

\* All of the user's groups are settled.
LEMMA SettledIsManaged ==
  ASSUME UsersInStep, NEW r \in KnownRecords, Sync!Plain(r), NEW g,
         hook = "ou" => g = Sync!Last(r.ou)
  PROVE  /\ Settles(Sync!Members(r), g) = Sync!Managed(r)
         /\ SpecialOf(Gives(Sync!Members(r), g)) = Sync!Entitled(r)
<1> DEFINE h == Sync!Last(<<Sync!Top>> \o r.ou)
<1>1. CASE hook = "ou"
  <2>1. r.ou # <<>> /\ r.ou \in Seq(Groups)
    BY <1>1, RecordShape DEF Sync!Plain
  <2>2. PICK n \in Nat \ {0} : Len(r.ou) = n
    BY <2>1, EmptySeq
  <2>3. /\ Len(<<Sync!Top>> \o r.ou) = n + 1
        /\ (<<Sync!Top>> \o r.ou)[n + 1] = r.ou[n]
    BY <2>1, <2>2
  <2>4. h = g
    BY <1>1, <2>2, <2>3 DEF Sync!Last
  <2> QED
    BY <1>1, <2>4 DEF Settles, Sync!Managed, SpecialOf, Gives, Sync!Entitled
<1>2. CASE hook # "ou"
  <2>1. ASSUME NEW d PROVE Sync!Grants(d, g) = Sync!Grants(d, h)
    BY <1>2 DEF Sync!Grants
  <2>2. SpecialOf(Gives(Sync!Members(r), g)) = Sync!Entitled(r)
    BY <2>1 DEF SpecialOf, Gives, Sync!Entitled
  <2>3. Settles(Sync!Members(r), g) = Sync!Managed(r)
    BY <1>2 DEF Settles, Sync!Managed
  <2> QED
    BY <2>2, <2>3
<1> QED
  BY <1>1, <1>2

LEMMA EndUserFollows ==
  ASSUME UsersInv, Sync!EndUser
  PROVE  UsersInv'
<1>1. UsersInStep'
  BY EndUserInStep DEF UsersInv
<1>2. UsersInStep /\ sync.pc = "grant" /\ sync.rest = {} /\ UNCHANGED <<hook, roles>>
  BY DEF UsersInv, Sync!EndUser
<1>3. PICK u \in Accounts : u = Sync!User
  BY <1>2, EndUserFacts
<1>4. PICK r \in KnownRecords : r = sync.data
  BY <1>2, DataShape
<1>5. /\ synced'[u] = r /\ \A v \in Accounts \ {u} : synced'[v] = synced[v]
      /\ sync'.pc \in {"idle", "fetch"}
  BY <1>2, <1>3, <1>4, EndUserFacts
<1>6. admins' = IF hook = "metal" /\ "CB-Admins" \notin r.memberOf THEN admins \ {u} ELSE admins
  BY <1>3, <1>4 DEF Sync!EndUser
<1>7. Done = Sync!Members(r)
  BY <1>2, <1>4 DEF Done
<1>8. Follows(u)'
  <2> SUFFICES ASSUME Sync!Plain(r)
               PROVE  /\ Within(roles[u], Sync!Managed(r)) = Sync!Entitled(r)
                      /\ hook = "metal" => (u \in admins' <=> "CB-Admins" \in r.memberOf)
    <3>1. ASSUME NEW d, NEW g PROVE Sync!Grants(d, g)' = Sync!Grants(d, g)
      BY <1>2 DEF Sync!Grants, Sync!MetalRoles
    <3>2. Sync!Plain(r)' = Sync!Plain(r) /\ Sync!Managed(r)' = Sync!Managed(r)
      BY <1>2 DEF Sync!Plain, Sync!Managed, Sync!Members
    <3>3. Sync!Entitled(r)' = Sync!Entitled(r)
      BY <3>1 DEF Sync!Entitled, Sync!Members
    <3> QED
      BY <1>2, <1>5, <3>2, <3>3 DEF Follows, Within
  <2>1. ASSUME hook = "ou" PROVE sync.group = Sync!Last(r.ou)
    BY <1>2, <1>4, <2>1 DEF UsersInv, AtHome, Sync!Plain
  <2>2. Within(roles[u], Settles(Sync!Members(r), sync.group))
          = SpecialOf(Gives(Sync!Members(r), sync.group))
    BY <1>2, <1>3, <1>4, <1>7 DEF UsersInv, RolesSoFar
  <2>3. Within(roles[u], Sync!Managed(r)) = Sync!Entitled(r)
    BY <1>2, <2>1, <2>2, SettledIsManaged
  <2>4. ASSUME hook = "metal", "CB-Admins" \in r.memberOf PROVE u \in admins
    <3>1. "CB-Admins" \in Sync!Members(r)
      BY <2>4 DEF Sync!Members, Sync!NoAttribute
    <3> QED
      BY <1>2, <1>3, <1>7, <2>4, <3>1 DEF UsersInv, AdminSoFar
  <2> QED
    BY <1>6, <2>3, <2>4
<1>9. Sync!RolesFollowDirectory'
  BY <1>2, <1>5, <1>6, <1>8, OthersFollow
<1> QED
  BY <1>1, <1>5, <1>9, BetweenPaths DEF UsersInv, RolesSoFar, AdminSoFar

LEMMA JoinFollows ==
  ASSUME UsersInv, Sync!JoinDefaultGroup
  PROVE  UsersInv'
<1>1. UsersInStep'
  BY JoinInStep DEF UsersInv
<1>2. /\ UsersInStep /\ hook = "default" /\ sync.pc = "fetch"
      /\ UNCHANGED <<hook, admins, synced>>
  BY DEF UsersInv, Sync!JoinDefaultGroup
<1>3. \A u \in Accounts : synced'[u] = Sync!Unknown
  BY <1>2 DEF UsersInStep, JobInStep
<1>4. Sync!RolesFollowDirectory'
  BY <1>3, UnknownFollows, FollowsEachNext
<1>5. sync'.pc \in {"idle", "fetch"}
  <2>1. sync.todo # <<>> /\ sync.group \in Groups \cup {Sync!Absent}
    BY <1>2 DEF UsersInStep, UsersTyped, JobInStep, SyncJobs
  <2> QED
    BY <1>2, <2>1, NextUserTyped, NoJobTyped DEF Sync!JoinDefaultGroup, Sync!Fail, UsersInStep
<1> QED
  BY <1>1, <1>4, <1>5, BetweenPaths DEF UsersInv, RolesSoFar, AdminSoFar

\* The directory may change at any time.
LEMMA OnlyTheDirectory ==
  ASSUME UsersInv, UsersInStep', [Sync!Next]_usersVars,
         UNCHANGED <<hook, tree, roles, admins, sync, synced>>
  PROVE  UsersInv'
<1>1. OnPath' /\ AtHome'
  BY PathStays
<1>2. Sync!RolesFollowDirectory'
  BY FollowsEach, FollowsEachNext, FollowsStays DEF UsersInv
<1>3. ASSUME NEW d, NEW g PROVE Sync!Grants(d, g)' = Sync!Grants(d, g)
  BY DEF Sync!Grants, Sync!MetalRoles
<1>4. PICK done, g, r : done = Done /\ g = sync.group /\ r = sync.data
  OBVIOUS
<1>5. Done' = done /\ Sync!User' = Sync!User
  BY <1>4 DEF Done, Sync!Members, Sync!User
<1>6. Gives(done, g)' = Gives(done, g) /\ Settles(done, g)' = Settles(done, g)
  BY <1>3 DEF Gives, Settles
<1>7. Sync!Plain(r)' = Sync!Plain(r)
  BY DEF Sync!Plain, Sync!Members
<1>8. RolesSoFar'
  BY <1>4, <1>5, <1>6, <1>7 DEF UsersInv, RolesSoFar, Within, SpecialOf
<1>9. AdminSoFar'
  BY <1>4, <1>5 DEF UsersInv, AdminSoFar
<1> QED
  BY <1>1, <1>2, <1>8, <1>9 DEF UsersInv

LEMMA UsersInvStep ==
  ASSUME UsersInv, [Sync!Next]_usersVars
  PROVE  UsersInv'
<1>1. UsersInStep'
  BY UsersNextInStep DEF UsersInv
<1>2. ASSUME NEW users \in Sync!Lists, Sync!Start(users) PROVE UsersInv'
  <2>1. sync'.pc = "fetch"
    BY <1>2, NoJobTyped DEF Sync!Start, SyncJobs
  <2>2. Sync!RolesFollowDirectory' /\ RolesSoFar' /\ AdminSoFar'
    BY <1>1, <1>2, <2>1, QuietUsers DEF Sync!Start
  <2> QED
    BY <1>1, <2>1, <2>2, BetweenPaths DEF UsersInv
<1>3. ASSUME NEW u \in Accounts, Sync!ChangeRecord(u) PROVE UsersInv'
  BY <1>1, <1>3, OnlyTheDirectory DEF Sync!ChangeRecord
<1>4. ASSUME UNCHANGED usersVars PROVE UsersInv'
  BY <1>1, <1>4, OnlyTheDirectory DEF usersVars
<1>5. ASSUME NEW d, Sync!Grant(d) PROVE UsersInv'
  BY <1>5, GrantFollows
<1>6. ASSUME Sync!Die PROVE UsersInv'
  BY <1>6, FailFollows DEF Sync!Die
<1> QED
  BY <1>2, <1>3, <1>4, <1>5, <1>6, FetchFollows, ClimbFollows, ArriveFollows, RevokeFollows,
     EndUserFollows, JoinFollows DEF Sync!Next

LEMMA UsersInvInit ==
  ASSUME Sync!Init
  PROVE  UsersInv
<1>1. sync.pc = "idle"
  BY NoJobTyped DEF Sync!Init
<1>2. Sync!RolesFollowDirectory
  BY DEF Sync!Init, Sync!RolesFollowDirectory
<1> QED
  BY <1>1, <1>2, UsersInitInStep DEF UsersInv, RolesSoFar, AdminSoFar, OnPath, AtHome

LEMMA UsersInvHolds == Sync!Spec => []UsersInv
<1>1. Sync!Init => UsersInv
  BY UsersInvInit
<1>2. UsersInv /\ [Sync!Next]_usersVars => UsersInv'
  BY UsersInvStep
<1> QED
  BY <1>1, <1>2, PTL DEF Sync!Spec, Sync!vars, usersVars

\* A user who was synchronised holds, in the groups the hook manages, the roles of the
\* record that was read and no others, whoever died before: for any users, groups,
\* records and mapping.
THEOREM RolesAreOfTheRecord == Sync!Spec => []RolesFollowDirectory
<1>1. UsersInv => RolesFollowDirectory
  BY DEF UsersInv, RolesFollowDirectory
<1> QED
  BY <1>1, UsersInvHolds, PTL

\* Roles are given in the group of the user's own OU, and it hangs where the OUs of
\* the record say.
LEMMA GivesInOwnOU ==
  ASSUME UsersInv, [Sync!Next]_usersVars, hook = "ou", sync.data.ou # <<>>,
         NEW u \in Accounts, NEW gr \in roles'[u] \ roles[u]
  PROVE  /\ gr[1] = Sync!Last(sync.data.ou)
         /\ \A i \in DOMAIN sync.data.ou :
              tree[sync.data.ou[i]] = IF i = 1 THEN Sync!Top ELSE sync.data.ou[i - 1]
<1>1. sync.data.ou \in Seq(Groups)
  BY DataShape DEF UsersInv
<1>2. ASSUME sync.pc \in {"revoke", "grant"}, gr[1] = sync.group
      PROVE  /\ gr[1] = Sync!Last(sync.data.ou)
             /\ \A i \in DOMAIN sync.data.ou :
                  tree[sync.data.ou[i]] = IF i = 1 THEN Sync!Top ELSE sync.data.ou[i - 1]
  <2>1. sync.group = Sync!Last(sync.data.ou) /\ Hang(sync.data.ou, Len(sync.data.ou))
    BY <1>2 DEF UsersInv, AtHome
  <2>2. DOMAIN sync.data.ou = 1..Len(sync.data.ou)
    BY <1>1, LenProperties
  <2> QED
    BY <1>2, <2>1, <2>2 DEF Hang
<1>3. CASE Sync!Revoke
  <2>1. u = Sync!User /\ gr \in Revoked /\ sync.pc = "revoke"
    BY <1>3, RevokeRoles DEF UsersInv, Sync!Revoke
  <2>2. gr = <<sync.group, "viewers">>
    BY <2>1 DEF Revoked, Sync!Without
  <2> QED
    BY <1>2, <2>1, <2>2
<1>4. ASSUME NEW d, Sync!Grant(d) PROVE sync.pc = "grant" /\ gr[1] = sync.group
  <2>1. ~(hook = "static" /\ d \in OtherCase)
    OBVIOUS
  <2>2. u = Sync!User /\ gr \in Granted(d) /\ sync.pc = "grant"
    BY <1>4, <2>1, GrantRoles DEF UsersInv
  <2>3. gr \in Sync!Grants(d, sync.group)
    BY <2>2 DEF Granted, Sync!Without
  <2>4. Sync!Grants(d, sync.group) \subseteq {sync.group} \X Sync!Special
    BY GrantsShape
  <2> QED
    BY <2>2, <2>3, <2>4
<1>5. roles' # roles
  OBVIOUS
<1>6. Sync!Revoke \/ \E d \in sync.rest : Sync!Grant(d)
  BY <1>5 DEF Sync!Next, usersVars, Sync!Start, Sync!Fetch, Sync!Climb, Sync!Arrive, Sync!EndUser,
     Sync!JoinDefaultGroup, Sync!Die, Sync!ChangeRecord
<1> QED
  BY <1>2, <1>3, <1>4, <1>6

\* Roles are given in a group that hangs in the tree where the OUs of the record
\* say, whatever other groups carry its name.
THEOREM RolesAreGivenInOwnOU == Sync!Spec => GivenInOwnOU
<1>1. UsersInv /\ [Sync!Next]_usersVars =>
        [hook = "ou" /\ sync.data.ou # <<>> => \A u \in Accounts : \A gr \in roles'[u] \ roles[u] :
           LET ou == sync.data.ou IN
             /\ gr[1] = Sync!Last(ou)
             /\ \A i \in DOMAIN ou : tree[ou[i]] = IF i = 1 THEN Sync!Top ELSE ou[i - 1]]_usersVars
  BY GivesInOwnOU
<1> QED
  BY <1>1, UsersInvHolds, PTL DEF Sync!Spec, Sync!vars, usersVars, GivenInOwnOU, Sync!GivenInOwnOU
-----------------------------------------------------------------------------
(* The upgrade tools *)

FileContents == SUBSET Tools!Constructs

ToolsTyped ==
    /\ disk \in [Files -> FileContents]
    /\ \A b \in backups : b.at \in Seconds /\ b.at <= clock /\ b.content \in FileContents
    /\ clock \in Seconds
    /\ tool \in Tools!ToolType
    /\ report \subseteq Files /\ verdict \in {0, 1, Tools!NoVerdict}
    /\ claims \subseteq Files /\ seen \subseteq Files /\ saved \subseteq Files
    /\ \A w \in rewritten : w[1] \in Files

\* What is fixed needs no fix, and has nothing critical that was not there.
LEMMA FixedContents ==
  ASSUME NEW content \in FileContents
  PROVE  /\ Tools!Fixed(content) \in FileContents
         /\ Tools!Fixed(Tools!Fixed(content)) = Tools!Fixed(content)
         /\ content \cap Tools!Critical = {} => Tools!Fixed(content) \cap Tools!Critical = {}
<1>1. ASSUME NEW c \in Tools!Constructs
      PROVE  /\ Tools!Replacement[c] \in Tools!Constructs
             /\ Tools!Replacement[Tools!Replacement[c]] = Tools!Replacement[c]
             /\ Tools!Replacement[c] \in Tools!Critical => c \in Tools!Critical
  BY FixesAreFinal
<1> QED
  BY <1>1 DEF FileContents, Tools!Fixed

LEMMA EmptyContent == {} \in FileContents /\ Tools!Fixed({}) = {}
  BY DEF FileContents, Tools!Fixed

\* The job goes on, ends or begins.
LEMMA GotoTyped ==
  ASSUME tool \in Tools!ToolType, NEW pc \in {"idle", "scan", "pick", "backup", "write"}
  PROVE  Tools!Goto(pc) \in Tools!ToolType /\ Tools!Goto(pc).pc = pc
  BY DEF Tools!ToolType, Tools!Goto

LEMMA FinishTyped ==
  ASSUME tool \in Tools!ToolType
  PROVE  Tools!Finish \in Tools!ToolType /\ Tools!Finish.pc = "idle"
<1>1. Tools!Goto("idle") \in Tools!ToolType /\ Tools!Goto("idle").pc = "idle"
  BY GotoTyped
<1> QED
  BY <1>1 DEF Tools!ToolType, Tools!Finish

LEMMA BeginTool ==
  ASSUME tool \in Tools!ToolType, Tools!MayStart, NEW pc \in {"scan", "pick"}, NEW files \in SUBSET Files
  PROVE  Tools!Start(pc, files) \in Tools!ToolType /\ Tools!Start(pc, files).pc = pc
<1>1. tool.runs + 1 \in 0..MaxRuns
  BY PluginsOfCustomers DEF Tools!MayStart, Tools!ToolType
<1> QED
  BY <1>1 DEF Tools!ToolType, Tools!Start

LEMMA OverwriteTyped ==
  ASSUME ToolsTyped, NEW content \in FileContents, Tools!Overwrite(content)
  PROVE  /\ disk' \in [Files -> FileContents]
         /\ disk'[tool.at] = content /\ \A f \in Files \ {tool.at} : disk'[f] = disk[f]
         /\ saved' = saved \ {tool.at} /\ saved' \subseteq Files
         /\ \A w \in rewritten' : w[1] \in Files
<1>1. tool.at \in Files
  BY DEF ToolsTyped, Tools!ToolType
<1> QED
  BY <1>1 DEF ToolsTyped, Tools!Overwrite

LEMMA ToolsStepTyped ==
  ASSUME ToolsTyped, [Tools!Next]_toolsVars
  PROVE  ToolsTyped'
<1>1. tool \in Tools!ToolType /\ clock \in Nat
  BY PluginsOfCustomers DEF ToolsTyped
<1>2. tool.at \in Files /\ tool.read \in FileContents /\ tool.todo \subseteq Files
  BY <1>1 DEF Tools!ToolType, FileContents
<1>3. CASE Tools!StartScan
  <2>1. Tools!Start("scan", Files) \in Tools!ToolType
    BY <1>1, <1>3, BeginTool DEF Tools!StartScan
  <2>2. tool' \in Tools!ToolType
    BY <1>3, <2>1 DEF Tools!StartScan, Tools!ToolType
  <2> QED
    BY <1>3, <2>2 DEF ToolsTyped, Tools!StartScan, Tools!NoVerdict
<1>4. ASSUME NEW f \in Files, Tools!ScanFile(f) PROVE ToolsTyped'
  <2>1. PICK critical \in BOOLEAN :
          tool' = [tool EXCEPT !.todo = @ \ {f}, !.critical = critical]
    <3>1. CASE tool' = [tool EXCEPT !.todo = @ \ {f}]
      <4>1. tool' = [tool EXCEPT !.todo = @ \ {f}, !.critical = tool.critical] /\ tool.critical \in BOOLEAN
        BY <1>1, <3>1 DEF Tools!ToolType
      <4> QED
        BY <4>1
    <3>2. CASE tool' = [tool EXCEPT !.todo = @ \ {f},
                                    !.critical = @ \/ disk[f] \cap Tools!Critical # {}]
      <4>1. (tool.critical \/ disk[f] \cap Tools!Critical # {}) \in BOOLEAN
        OBVIOUS
      <4> QED
        BY <1>1, <3>2, <4>1 DEF Tools!ToolType
    <3> QED
      BY <1>4, <3>1, <3>2 DEF Tools!ScanFile
  <2>2. tool' \in Tools!ToolType
    BY <1>1, <1>2, <2>1 DEF Tools!ToolType
  <2> QED
    BY <1>4, <2>2 DEF ToolsTyped, Tools!ScanFile
<1>5. CASE Tools!EndScan
  BY <1>1, <1>5, FinishTyped DEF ToolsTyped, Tools!EndScan
<1>6. CASE Tools!StartFix
  <2>1. PICK files \in {Files, report}, keep \in BOOLEAN :
          tool' = [Tools!Start("pick", files) EXCEPT !.keep = keep]
    BY <1>6 DEF Tools!StartFix
  <2>2. Tools!Start("pick", files) \in Tools!ToolType
    BY <1>1, <1>6, BeginTool DEF Tools!StartFix, ToolsTyped
  <2>3. tool' \in Tools!ToolType
    BY <2>1, <2>2 DEF Tools!ToolType
  <2> QED
    BY <1>6, <2>3 DEF ToolsTyped, Tools!StartFix
<1>7. ASSUME NEW f \in Files, Tools!PickFile(f) PROVE ToolsTyped'
  <2>1. PICK todo \in {tool.todo, tool.todo \ {f}}, pc \in {"backup", "pick"} :
          tool' = [tool EXCEPT !.todo = todo, !.at = f, !.read = disk[f], !.pc = pc]
    BY <1>7 DEF Tools!PickFile
  <2>2. todo \subseteq Files /\ disk[f] \subseteq Tools!Constructs
    BY <1>2 DEF ToolsTyped, FileContents
  <2>3. tool' \in Tools!ToolType
    BY <1>1, <2>1, <2>2 DEF Tools!ToolType
  <2> QED
    BY <1>7, <2>3 DEF ToolsTyped, Tools!PickFile
<1>8. CASE Tools!CreateBackup
  <2>1. Tools!Goto("write") \in Tools!ToolType
    BY <1>1, GotoTyped
  <2>2. tool' \in Tools!ToolType
    BY <1>8, <2>1 DEF Tools!CreateBackup, Tools!ToolType
  <2>3. ASSUME NEW b \in backups'
        PROVE  b.at \in Seconds /\ b.at <= clock /\ b.content \in FileContents
    <3>1. b \in backups \/ b = [name |-> FlatName[tool.at], at |-> clock, content |-> disk[tool.at]]
      BY <1>8, <2>3 DEF Tools!CreateBackup, Tools!CopyTo
    <3> QED
      BY <1>1, <1>2, <3>1 DEF ToolsTyped
  <2> QED
    BY <1>8, <2>2, <2>3 DEF ToolsTyped, Tools!CreateBackup
<1>9. CASE Tools!Write
  <2>1. Tools!Goto("pick") \in Tools!ToolType
    BY <1>1, GotoTyped
  <2>2. tool' \in Tools!ToolType
    BY <1>9, <2>1 DEF Tools!Write, Tools!ToolType
  <2>3. Tools!Fixed(tool.read) \in FileContents /\ {} \in FileContents
    BY <1>2, FixedContents, EmptyContent
  <2>4. disk' \in [Files -> FileContents] /\ saved' \subseteq Files /\ \A w \in rewritten' : w[1] \in Files
    BY <1>9, <2>3, OverwriteTyped DEF Tools!Write, ToolsTyped
  <2> QED
    BY <1>2, <1>9, <2>2, <2>4 DEF ToolsTyped, Tools!Write
<1>10. CASE Tools!EndFix
  BY <1>1, <1>10, FinishTyped DEF ToolsTyped, Tools!EndFix
<1>11. CASE Tools!Stop
  <2>1. tool' \in Tools!ToolType
    BY <1>1, <1>11, FinishTyped DEF Tools!Stop
  <2>2. disk' \in [Files -> FileContents] /\ saved' \subseteq Files /\ \A w \in rewritten' : w[1] \in Files
    BY <1>11, EmptyContent, OverwriteTyped DEF Tools!Stop, ToolsTyped
  <2> QED
    BY <1>11, <2>1, <2>2 DEF ToolsTyped, Tools!Stop
<1>12. ASSUME NEW f \in Files, Tools!Save(f) PROVE ToolsTyped'
  <2>1. PICK c \in Edits[f] : disk' = [disk EXCEPT ![f] = c]
    BY <1>12 DEF Tools!Save
  <2>2. c \in FileContents
    BY PluginsOfCustomers DEF FileContents
  <2> QED
    BY <1>12, <2>1, <2>2 DEF ToolsTyped, Tools!Save
<1>13. CASE Tools!Tick
  <2>1. clock' \in Seconds /\ clock' = clock + 1
    BY <1>13 DEF Tools!Tick
  <2>2. ASSUME NEW b \in backups PROVE b.at <= clock + 1
    <3>1. PICK t \in Nat : t = b.at
      BY PluginsOfCustomers DEF ToolsTyped
    <3>2. PICK n \in Nat : n = clock
      BY <1>1
    <3>3. t <= n
      BY <3>1, <3>2 DEF ToolsTyped
    <3>4. t <= n + 1
      BY <3>3
    <3> QED
      BY <3>1, <3>2, <3>4
  <2> QED
    BY <1>13, <2>1, <2>2 DEF ToolsTyped, Tools!Tick
<1>14. CASE UNCHANGED toolsVars
  BY <1>14 DEF ToolsTyped, toolsVars
<1> QED
  BY <1>3, <1>4, <1>5, <1>6, <1>7, <1>8, <1>9, <1>10, <1>11, <1>12, <1>13, <1>14 DEF Tools!Next

LEMMA ToolsInitTyped ==
  ASSUME Tools!Init
  PROVE  ToolsTyped
<1>1. (CHOOSE f \in Files : TRUE) \in Files
  BY PluginsOfCustomers
<1>2. tool \in Tools!ToolType
  BY <1>1, PluginsOfCustomers DEF Tools!Init, Tools!ToolType
<1> QED
  BY <1>2, PluginsOfCustomers DEF Tools!Init, ToolsTyped, FileContents

(* The original is kept.  A copy of this second either is what the file still    *)
(* holds, or the file needs no fix any more, so that it is not copied again:     *)
(* nothing that was rewritten is lost when a copy of the same name is replaced.  *)

CopiesOf(f) == {b \in backups : b.name = FlatName[f]}

FileKept(f) ==
    /\ \A b \in CopiesOf(f) :
         b.at = clock => b.content = disk[f] \/ Tools!Fixed(disk[f]) = disk[f]
    /\ tool.pc = "backup" /\ tool.at = f =>
         \A b \in CopiesOf(f) : b.at = clock => b.content = disk[f]
    /\ tool.pc = "write" /\ tool.at = f /\ tool.copied /\ f \notin saved =>
         \E b \in CopiesOf(f) : b.content = disk[f]
    /\ \A w \in rewritten : w[1] = f => \E b \in CopiesOf(f) : b.content = w[2]

KeptInv == ToolsTyped /\ \A f \in Files : Tools!AloneInBackups(f) => FileKept(f)

\* A copy of another file has another name.
LEMMA CopiesAfter ==
  ASSUME NEW f \in Files, Tools!AloneInBackups(f), ToolsTyped,
         backups' = Tools!CopyTo(FlatName[tool.at])
  PROVE  LET new == [name |-> FlatName[tool.at], at |-> clock, content |-> disk[tool.at]] IN
         /\ tool.at = f => CopiesOf(f)' = {b \in CopiesOf(f) : b.at # clock} \cup {new}
         /\ tool.at # f => CopiesOf(f)' = CopiesOf(f)
<1>1. tool.at \in Files
  BY DEF ToolsTyped, Tools!ToolType
<1>2. tool.at # f => FlatName[tool.at] # FlatName[f]
  BY <1>1 DEF Tools!AloneInBackups
<1> DEFINE new == [name |-> FlatName[tool.at], at |-> clock, content |-> disk[tool.at]]
<1>3. \A b : b \in backups' <=>
        (b \in backups /\ (b.name # FlatName[tool.at] \/ b.at # clock)) \/ b = new
  BY DEF Tools!CopyTo
<1>4. new.name = FlatName[tool.at]
  OBVIOUS
<1>5. \A b : b \in CopiesOf(f)' <=> b \in backups' /\ b.name = FlatName[f]
  BY DEF CopiesOf
<1>6. \A b : b \in CopiesOf(f) <=> b \in backups /\ b.name = FlatName[f]
  BY DEF CopiesOf
<1> HIDE DEF new
<1>7. tool.at = f => CopiesOf(f)' = {b \in CopiesOf(f) : b.at # clock} \cup {new}
  BY <1>3, <1>4, <1>5, <1>6
<1>8. tool.at # f => CopiesOf(f)' = CopiesOf(f)
  BY <1>2, <1>3, <1>4, <1>5, <1>6
<1> QED
  BY <1>7, <1>8 DEF new

\* A file that is overwritten by a fixed content needs no fix, and what it held
\* has a copy if it was copied.
LEMMA OverwriteKeeps ==
  ASSUME NEW f \in Files, FileKept(f), ToolsTyped, tool.pc = "write", tool'.pc \in {"pick", "idle"},
         NEW content \in FileContents, Tools!Fixed(content) = content, Tools!Overwrite(content),
         UNCHANGED <<backups, clock>>
  PROVE  FileKept(f)'
<1>1. disk'[tool.at] = content /\ \A g \in Files \ {tool.at} : disk'[g] = disk[g]
  BY OverwriteTyped
<1>2. CopiesOf(f)' = CopiesOf(f)
  BY DEF CopiesOf
<1>3. \A b \in CopiesOf(f) :
        b.at = clock => b.content = disk'[f] \/ Tools!Fixed(disk'[f]) = disk'[f]
  <2>1. CASE tool.at = f
    BY <1>1, <2>1
  <2>2. CASE tool.at # f
    <3>1. PICK kept : kept = disk[f]
      OBVIOUS
    <3>2. disk'[f] = kept
      BY <1>1, <2>2, <3>1
    <3>3. \A b \in CopiesOf(f) : b.at = clock => b.content = kept \/ Tools!Fixed(kept) = kept
      BY <3>1 DEF FileKept
    <3> QED
      BY <3>2, <3>3
  <2> QED
    BY <2>1, <2>2
<1>4. \A w \in rewritten' : w[1] = f => \E b \in CopiesOf(f) : b.content = w[2]
  <2>1. ASSUME NEW w \in rewritten', w[1] = f, w \notin rewritten
        PROVE  \E b \in CopiesOf(f) : b.content = w[2]
    <3>1. w = <<tool.at, disk[tool.at]>> /\ tool.copied /\ tool.at \notin saved
      BY <2>1 DEF Tools!Overwrite, Tools!Replaced
    <3>2. tool.at = f /\ w[2] = disk[f]
      BY <2>1, <3>1
    <3> QED
      BY <3>1, <3>2 DEF FileKept
  <2> QED
    BY <2>1 DEF FileKept
<1> QED
  BY <1>2, <1>3, <1>4 DEF FileKept

LEMMA FileKeptStep ==
  ASSUME NEW f \in Files, Tools!AloneInBackups(f), FileKept(f), ToolsTyped, [Tools!Next]_toolsVars
  PROVE  FileKept(f)'
<1>1. tool \in Tools!ToolType /\ clock \in Nat
  BY PluginsOfCustomers DEF ToolsTyped
<1>2. tool.at \in Files /\ tool.read \in FileContents
  BY <1>1 DEF Tools!ToolType, FileContents
<1>3. ASSUME UNCHANGED <<disk, backups, clock, saved, rewritten>>, tool'.pc \notin {"backup", "write"}
      PROVE  FileKept(f)'
  BY <1>3 DEF FileKept, CopiesOf
<1>4. CASE Tools!StartScan
  <2>1. tool'.pc = "scan"
    BY <1>1, <1>4, BeginTool DEF Tools!StartScan, Tools!ToolType
  <2> QED
    BY <1>3, <1>4, <2>1 DEF Tools!StartScan
<1>5. ASSUME NEW g \in Files, Tools!ScanFile(g) PROVE FileKept(f)'
  <2>1. tool'.pc = "scan"
    BY <1>1, <1>5 DEF Tools!ScanFile, Tools!ToolType
  <2> QED
    BY <1>3, <1>5, <2>1 DEF Tools!ScanFile
<1>6. CASE Tools!EndScan \/ Tools!EndFix
  <2>1. tool'.pc = "idle"
    BY <1>1, <1>6, FinishTyped DEF Tools!EndScan, Tools!EndFix
  <2> QED
    BY <1>3, <1>6, <2>1 DEF Tools!EndScan, Tools!EndFix
<1>7. CASE Tools!StartFix
  <2>1. PICK files \in {Files, report}, keep \in BOOLEAN :
          tool' = [Tools!Start("pick", files) EXCEPT !.keep = keep]
    BY <1>7 DEF Tools!StartFix
  <2>2. Tools!Start("pick", files) \in Tools!ToolType /\ Tools!Start("pick", files).pc = "pick"
    BY <1>1, <1>7, BeginTool DEF Tools!StartFix, ToolsTyped
  <2>3. tool'.pc = "pick"
    BY <2>1, <2>2 DEF Tools!ToolType
  <2> QED
    BY <1>3, <1>7, <2>3 DEF Tools!StartFix
<1>8. ASSUME NEW g \in Files, Tools!PickFile(g) PROVE FileKept(f)'
  <2>1. tool'.at = g /\ tool'.pc = (IF Tools!Fixed(disk[g]) # disk[g] THEN "backup" ELSE "pick")
    BY <1>1, <1>8 DEF Tools!PickFile, Tools!ToolType
  <2>2. CopiesOf(f)' = CopiesOf(f) /\ UNCHANGED <<disk, clock, saved, rewritten>>
    BY <1>8 DEF Tools!PickFile, CopiesOf
  <2>3. tool'.pc = "backup" /\ tool'.at = f =>
          \A b \in CopiesOf(f) : b.at = clock => b.content = disk[f]
    BY <2>1 DEF FileKept
  <2>4. tool'.pc # "write"
    BY <2>1
  <2> QED
    BY <2>2, <2>3, <2>4 DEF FileKept
<1>9. CASE Tools!CreateBackup
  <2>1. Tools!Goto("write") \in Tools!ToolType /\ Tools!Goto("write").pc = "write" /\ Tools!Goto("write").at = tool.at
    BY <1>1, GotoTyped DEF Tools!Goto, Tools!ToolType
  <2>2. tool.pc = "backup" /\ tool'.pc = "write" /\ tool'.at = tool.at
    BY <1>9, <2>1 DEF Tools!CreateBackup, Tools!ToolType
  <2>3. UNCHANGED <<disk, clock, rewritten>>
    BY <1>9 DEF Tools!CreateBackup
  <2>4. CASE backups' = Tools!CopyTo(FlatName[tool.at]) /\ tool.at = f
    <3> DEFINE new == [name |-> FlatName[tool.at], at |-> clock, content |-> disk[tool.at]]
    <3>1. CopiesOf(f)' = {b \in CopiesOf(f) : b.at # clock} \cup {new}
      BY <2>4, CopiesAfter
    <3>2. new.content = disk[f] /\ new \in CopiesOf(f)'
      BY <2>4, <3>1
    <3> HIDE DEF new
    <3>3. \A b \in CopiesOf(f) : b.at = clock => b.content = disk[f]
      BY <2>2, <2>4 DEF FileKept
    <3>4. \A b \in CopiesOf(f)' : b.at = clock => b.content = disk[f]
      BY <3>1, <3>2
    <3>5. ASSUME NEW w \in rewritten, w[1] = f PROVE \E b \in CopiesOf(f)' : b.content = w[2]
      <4>1. PICK b \in CopiesOf(f) : b.content = w[2]
        BY <3>5 DEF FileKept
      <4>2. CASE b.at = clock
        BY <3>2, <3>3, <4>1, <4>2
      <4>3. CASE b.at # clock
        BY <3>1, <4>1, <4>3
      <4> QED
        BY <4>2, <4>3
    <3> QED
      BY <2>2, <2>3, <3>2, <3>4, <3>5 DEF FileKept
  <2>5. CASE backups' = Tools!CopyTo(FlatName[tool.at]) /\ tool.at # f
    <3>1. CopiesOf(f)' = CopiesOf(f)
      BY <2>5, CopiesAfter
    <3> QED
      BY <2>2, <2>3, <2>5, <3>1 DEF FileKept
  <2>6. CASE UNCHANGED backups /\ tool' = [Tools!Goto("write") EXCEPT !.copied = FALSE]
    <3>1. ~tool'.copied
      BY <2>1, <2>6 DEF Tools!ToolType
    <3>2. CopiesOf(f)' = CopiesOf(f)
      BY <2>6 DEF CopiesOf
    <3> QED
      BY <2>2, <2>3, <3>1, <3>2 DEF FileKept
  <2> QED
    BY <1>9, <2>4, <2>5, <2>6 DEF Tools!CreateBackup
<1>10. CASE Tools!Write
  <2>1. Tools!Goto("pick") \in Tools!ToolType /\ Tools!Goto("pick").pc = "pick"
    BY <1>1, GotoTyped
  <2>2. tool.pc = "write" /\ tool'.pc = "pick" /\ UNCHANGED <<backups, clock>>
    BY <1>10, <2>1 DEF Tools!Write, Tools!ToolType
  <2>3. CASE Tools!Overwrite(Tools!Fixed(tool.read))
    BY <1>2, <2>2, <2>3, FixedContents, OverwriteKeeps
  <2>4. CASE Tools!Overwrite({})
    BY <2>2, <2>4, EmptyContent, OverwriteKeeps
  <2> QED
    BY <1>3, <1>10, <2>2, <2>3, <2>4 DEF Tools!Write
<1>11. CASE Tools!Stop
  <2>1. tool'.pc = "idle" /\ UNCHANGED <<backups, clock>>
    BY <1>1, <1>11, FinishTyped DEF Tools!Stop
  <2>2. CASE tool.pc = "write" /\ Tools!Overwrite({})
    BY <2>1, <2>2, EmptyContent, OverwriteKeeps
  <2> QED
    BY <1>3, <1>11, <2>1, <2>2 DEF Tools!Stop
<1>12. ASSUME NEW g \in Files, Tools!Save(g) PROVE FileKept(f)'
  <2>1. UNCHANGED <<backups, clock, tool, rewritten>> /\ CopiesOf(f)' = CopiesOf(f)
    BY <1>12 DEF Tools!Save, CopiesOf
  <2>2. CASE g = f
    <3>1. \A b \in CopiesOf(f) : b.at # clock
      <4>1. ASSUME NEW b \in CopiesOf(f) PROVE b.at # clock
        <5>1. b.at < clock /\ b.at \in Nat
          BY <1>12, <2>2, PluginsOfCustomers DEF Tools!Save, CopiesOf, ToolsTyped
        <5> QED
          BY <1>1, <5>1
      <4> QED
        BY <4>1
    <3>2. f \in saved'
      BY <1>12, <2>2 DEF Tools!Save
    <3> QED
      BY <2>1, <3>1, <3>2 DEF FileKept
  <2>3. CASE g # f
    <3>1. disk'[f] = disk[f] /\ (f \in saved' <=> f \in saved)
      BY <1>12, <2>3 DEF Tools!Save, ToolsTyped
    <3> QED
      BY <2>1, <3>1 DEF FileKept
  <2> QED
    BY <2>2, <2>3
<1>13. CASE Tools!Tick
  <2>1. clock' = clock + 1 /\ UNCHANGED <<disk, tool, saved, rewritten>> /\ CopiesOf(f)' = CopiesOf(f)
    BY <1>13 DEF Tools!Tick, CopiesOf
  <2>2. ASSUME NEW b \in CopiesOf(f) PROVE b.at # clock'
    <3>1. PICK t \in Nat : t = b.at
      BY PluginsOfCustomers DEF ToolsTyped, CopiesOf
    <3>2. PICK n \in Nat : n = clock
      BY <1>1
    <3>3. t <= n
      BY <3>1, <3>2 DEF ToolsTyped, CopiesOf
    <3>4. t # n + 1
      BY <3>3
    <3> QED
      BY <2>1, <3>1, <3>2, <3>4
  <2> QED
    BY <2>1, <2>2 DEF FileKept
<1>14. CASE UNCHANGED toolsVars
  BY <1>14 DEF FileKept, CopiesOf, toolsVars
<1> QED
  BY <1>4, <1>5, <1>6, <1>7, <1>8, <1>9, <1>10, <1>11, <1>12, <1>13, <1>14 DEF Tools!Next

\* What the fixer copied before it replaced it stays in the backup directory, for
\* every file whose flattened path is its own: through later runs, files met
\* again, failures and saves.
THEOREM OriginalsAreKept == Tools!Spec => []OriginalIsKept
<1>1. Tools!Init => KeptInv
  BY ToolsInitTyped DEF KeptInv, FileKept, CopiesOf, Tools!Init
<1>2. KeptInv /\ [Tools!Next]_toolsVars => KeptInv'
  BY ToolsStepTyped, FileKeptStep DEF KeptInv
<1>3. KeptInv => OriginalIsKept
  BY DEF KeptInv, FileKept, CopiesOf, OriginalIsKept, Tools!OriginalIsKept, ToolsTyped
<1> QED
  BY <1>1, <1>2, <1>3, PTL DEF Tools!Spec, toolsVars, Tools!vars

(* The step of the tool that an action leads to *)

LEMMA ToolsPc ==
  ASSUME ToolsTyped
  PROVE  /\ Tools!StartScan => tool'.pc = "scan" /\ ~tool'.critical
         /\ Tools!StartFix => tool'.pc = "pick"
         /\ Tools!CreateBackup => tool'.pc = "write" /\ tool'.at = tool.at /\ tool'.read = tool.read
         /\ Tools!Write => tool'.pc = "pick"
         /\ Tools!EndScan \/ Tools!EndFix \/ Tools!Stop => tool'.pc = "idle"
<1>1. tool \in Tools!ToolType
  BY DEF ToolsTyped
<1>2. ASSUME Tools!StartScan PROVE tool'.pc = "scan" /\ ~tool'.critical
  BY <1>1, <1>2, BeginTool DEF Tools!StartScan, Tools!ToolType
<1>3. ASSUME Tools!StartFix PROVE tool'.pc = "pick"
  <2>1. PICK files \in {Files, report}, keep \in BOOLEAN :
          tool' = [Tools!Start("pick", files) EXCEPT !.keep = keep]
    BY <1>3 DEF Tools!StartFix
  <2>2. Tools!Start("pick", files) \in Tools!ToolType /\ Tools!Start("pick", files).pc = "pick"
    BY <1>1, <1>3, BeginTool DEF Tools!StartFix, ToolsTyped
  <2> QED
    BY <2>1, <2>2 DEF Tools!ToolType
<1>4. ASSUME Tools!CreateBackup
      PROVE  tool'.pc = "write" /\ tool'.at = tool.at /\ tool'.read = tool.read
  <2>1. /\ Tools!Goto("write") \in Tools!ToolType /\ Tools!Goto("write").pc = "write"
        /\ Tools!Goto("write").at = tool.at /\ Tools!Goto("write").read = tool.read
    BY <1>1, GotoTyped DEF Tools!Goto, Tools!ToolType
  <2> QED
    BY <1>4, <2>1 DEF Tools!CreateBackup, Tools!ToolType
<1>5. ASSUME Tools!Write PROVE tool'.pc = "pick"
  <2>1. Tools!Goto("pick") \in Tools!ToolType /\ Tools!Goto("pick").pc = "pick"
    BY <1>1, GotoTyped
  <2> QED
    BY <1>5, <2>1 DEF Tools!Write, Tools!ToolType
<1>6. ASSUME Tools!EndScan \/ Tools!EndFix \/ Tools!Stop PROVE tool'.pc = "idle"
  BY <1>1, <1>6, FinishTyped DEF Tools!EndScan, Tools!EndFix, Tools!Stop
<1> QED
  BY <1>2, <1>3, <1>4, <1>5, <1>6

(* A file that is to be rewritten is not claimed yet. *)

ClaimInv ==
    /\ ToolsTyped /\ ClaimedIsFixed
    /\ tool.pc \in {"backup", "write"} => tool.at \notin claims

LEMMA ClaimStep ==
  ASSUME ClaimInv, [Tools!Next]_toolsVars
  PROVE  ClaimInv'
<1> USE DEF ClaimInv
<1>1. tool \in Tools!ToolType /\ tool.at \in Files /\ tool.read \in FileContents
  BY DEF ToolsTyped, Tools!ToolType, FileContents
<1>2. ToolsTyped'
  BY ToolsStepTyped
<1>3. ASSUME UNCHANGED <<disk, saved>>, claims' \subseteq claims, tool'.pc \notin {"backup", "write"}
      PROVE  ClaimInv'
  BY <1>2, <1>3 DEF ClaimedIsFixed, Tools!ClaimedIsFixed
<1>4. ASSUME NEW content \in FileContents, Tools!Fixed(content) = content, Tools!Overwrite(content),
             claims' \subseteq claims \cup {tool.at}
      PROVE  ClaimedIsFixed'
  <2>1. ASSUME NEW f \in claims' \ saved' PROVE Tools!Fixed(disk'[f]) = disk'[f]
    <3>1. /\ disk'[tool.at] = content /\ \A g \in Files \ {tool.at} : disk'[g] = disk[g]
          /\ saved' = saved \ {tool.at}
      BY <1>4, OverwriteTyped
    <3>2. CASE f = tool.at
      BY <1>4, <3>1, <3>2
    <3>3. CASE f # tool.at
      <4>1. PICK kept : kept = disk[f]
        OBVIOUS
      <4>2. f \in claims \ saved /\ f \in Files
        BY <1>4, <2>1, <3>1, <3>3 DEF ToolsTyped
      <4>3. Tools!Fixed(kept) = kept
        BY <4>1, <4>2 DEF ClaimedIsFixed, Tools!ClaimedIsFixed
      <4>4. disk'[f] = kept
        BY <3>1, <3>3, <4>1, <4>2
      <4> QED
        BY <4>3, <4>4
    <3> QED
      BY <3>2, <3>3
  <2> QED
    BY <2>1 DEF ClaimedIsFixed, Tools!ClaimedIsFixed
<1>5. CASE Tools!StartScan \/ Tools!StartFix \/ Tools!EndScan \/ Tools!EndFix
  BY <1>3, <1>5, ToolsPc DEF Tools!StartScan, Tools!StartFix, Tools!EndScan, Tools!EndFix
<1>6. ASSUME NEW f \in Files, Tools!ScanFile(f) PROVE ClaimInv'
  <2>1. tool'.pc = "scan"
    BY <1>1, <1>6 DEF Tools!ScanFile, Tools!ToolType
  <2> QED
    BY <1>3, <1>6, <2>1 DEF Tools!ScanFile
<1>7. ASSUME NEW f \in Files, Tools!PickFile(f) PROVE ClaimInv'
  <2>1. tool'.at = f /\ tool'.pc = (IF Tools!Fixed(disk[f]) # disk[f] THEN "backup" ELSE "pick")
    BY <1>1, <1>7 DEF Tools!PickFile, Tools!ToolType
  <2>2. /\ claims' = {g \in claims : g # f \/ Tools!Fixed(disk[f]) = disk[f]}
        /\ UNCHANGED <<disk, saved>>
    BY <1>7 DEF Tools!PickFile
  <2>3. ClaimedIsFixed'
    BY <2>2 DEF ClaimedIsFixed, Tools!ClaimedIsFixed
  <2>4. tool'.pc \in {"backup", "write"} => tool'.at \notin claims'
    BY <2>1, <2>2
  <2> QED
    BY <1>2, <2>3, <2>4
<1>8. CASE Tools!CreateBackup
  <2>1. /\ tool'.pc = "write" /\ tool'.at = tool.at /\ tool.at \notin claims
        /\ saved' = saved \ {tool.at} /\ UNCHANGED <<disk, claims>>
    BY <1>8, ToolsPc DEF Tools!CreateBackup
  <2>2. claims' \ saved' = claims \ saved
    BY <2>1
  <2>3. ClaimedIsFixed'
    BY <2>1, <2>2 DEF ClaimedIsFixed, Tools!ClaimedIsFixed
  <2> QED
    BY <1>2, <2>1, <2>3
<1>9. CASE Tools!Write
  <2>1. tool'.pc = "pick" /\ claims' \subseteq claims \cup {tool.at}
    BY <1>9, ToolsPc DEF Tools!Write
  <2>2. CASE Tools!Overwrite(Tools!Fixed(tool.read))
    BY <1>1, <1>2, <1>4, <2>1, <2>2, FixedContents
  <2>3. CASE Tools!Overwrite({})
    BY <1>2, <1>4, <2>1, <2>3, EmptyContent
  <2>4. CASE UNCHANGED <<disk, saved>> /\ claims' = claims \ {tool.at}
    BY <1>3, <2>1, <2>4
  <2> QED
    BY <1>9, <2>2, <2>3, <2>4 DEF Tools!Write
<1>10. CASE Tools!Stop
  <2>1. tool'.pc = "idle" /\ claims' = {}
    BY <1>10, ToolsPc DEF Tools!Stop
  <2> QED
    BY <1>2, <2>1 DEF ClaimedIsFixed, Tools!ClaimedIsFixed
<1>11. ASSUME NEW f \in Files, Tools!Save(f) PROVE ClaimInv'
  <2>1. /\ saved' = saved \cup {f} /\ UNCHANGED <<tool, claims>>
        /\ \A g \in Files \ {f} : disk'[g] = disk[g]
    BY <1>11 DEF Tools!Save, ToolsTyped
  <2>2. ASSUME NEW g \in claims' \ saved' PROVE Tools!Fixed(disk'[g]) = disk'[g]
    <3>1. PICK kept : kept = disk[g]
      OBVIOUS
    <3>2. g \in claims \ saved /\ disk'[g] = kept
      BY <2>1, <2>2, <3>1 DEF ToolsTyped
    <3>3. Tools!Fixed(kept) = kept
      BY <3>1, <3>2 DEF ClaimedIsFixed, Tools!ClaimedIsFixed
    <3> QED
      BY <3>2, <3>3
  <2> QED
    BY <1>2, <2>1, <2>2 DEF ClaimedIsFixed, Tools!ClaimedIsFixed
<1>12. CASE Tools!Tick \/ UNCHANGED toolsVars
  BY <1>2, <1>12 DEF ClaimedIsFixed, Tools!ClaimedIsFixed, Tools!Tick, toolsVars
<1> QED
  BY <1>5, <1>6, <1>7, <1>8, <1>9, <1>10, <1>11, <1>12 DEF Tools!Next

\* A file the fixer counts as fixed, and nobody has saved since, has nothing left
\* that it has a pattern for.
THEOREM ClaimedFilesAreFixed == Tools!Spec => []ClaimedIsFixed
<1>1. Tools!Init => ClaimInv
  BY ToolsInitTyped DEF ClaimInv, ClaimedIsFixed, Tools!ClaimedIsFixed, Tools!Init
<1>2. ClaimInv /\ [Tools!Next]_toolsVars => ClaimInv'
  BY ClaimStep
<1>3. ClaimInv => ClaimedIsFixed
  BY DEF ClaimInv
<1> QED
  BY <1>1, <1>2, <1>3, PTL DEF Tools!Spec, toolsVars, Tools!vars

(* What was passed is clean, and so is what the fixer has read of it. *)

Clean(content) == content \cap Tools!Critical = {}

PassedInv ==
    /\ ToolsTyped
    /\ verdict = 0 => \A f \in seen : Clean(disk[f])
    /\ tool.pc = "scan" =>
         verdict = Tools!NoVerdict /\ (~tool.critical => \A f \in seen : Clean(disk[f]))
    /\ tool.pc \in {"backup", "write"} /\ verdict = 0 /\ tool.at \in seen => Clean(tool.read)

LEMMA CleanFixed ==
  ASSUME NEW content \in FileContents, Clean(content)
  PROVE  Clean(Tools!Fixed(content))
  BY FixedContents DEF Clean

LEMMA CleanEmpty == Clean({})
  BY DEF Clean

LEMMA PassedStep ==
  ASSUME PassedInv, [Tools!Next]_toolsVars
  PROVE  PassedInv'
<1> USE DEF PassedInv
<1>1. tool \in Tools!ToolType /\ tool.at \in Files /\ tool.read \in FileContents
  BY DEF ToolsTyped, Tools!ToolType, FileContents
<1>2. ToolsTyped'
  BY ToolsStepTyped
<1>3. ASSUME UNCHANGED <<disk, verdict, seen>>, tool'.pc \in {"pick", "idle"}
      PROVE  PassedInv'
  BY <1>2, <1>3
<1>4. ASSUME NEW content \in FileContents, Tools!Overwrite(content), tool.pc = "write",
             verdict = 0 /\ tool.at \in seen => Clean(content),
             UNCHANGED <<verdict, seen>>, tool'.pc \in {"pick", "idle"}
      PROVE  PassedInv'
  <2>1. disk'[tool.at] = content /\ \A g \in Files \ {tool.at} : disk'[g] = disk[g]
    BY <1>4, OverwriteTyped
  <2>2. ASSUME verdict = 0, NEW f \in seen PROVE Clean(disk'[f])
    <3>1. PICK kept : kept = disk[f]
      OBVIOUS
    <3>2. f \in Files /\ Clean(kept)
      BY <2>2, <3>1 DEF ToolsTyped
    <3>3. CASE f = tool.at
      BY <1>4, <2>1, <2>2, <3>3
    <3>4. CASE f # tool.at
      BY <2>1, <3>1, <3>2, <3>4
    <3> QED
      BY <3>3, <3>4
  <2> QED
    BY <1>2, <1>4, <2>2
<1>5. CASE Tools!StartScan
  <2>1. tool'.pc = "scan" /\ verdict' = Tools!NoVerdict /\ seen' = {}
    BY <1>5, ToolsPc DEF Tools!StartScan
  <2> QED
    BY <1>2, <2>1 DEF Tools!NoVerdict
<1>6. ASSUME NEW f \in Files, Tools!ScanFile(f) PROVE PassedInv'
  <2>1. /\ tool.pc = "scan" /\ tool'.pc = "scan" /\ UNCHANGED <<disk, verdict>>
        /\ verdict = Tools!NoVerdict
    BY <1>1, <1>6 DEF Tools!ScanFile, Tools!ToolType
  <2>2. ASSUME ~tool'.critical, NEW g \in seen' PROVE Clean(disk[g])
    <3>1. CASE /\ tool' = [tool EXCEPT !.todo = @ \ {f},
                                       !.critical = @ \/ disk[f] \cap Tools!Critical # {}]
               /\ seen' = seen \cup {f}
      <4>1. ~tool.critical /\ Clean(disk[f])
        BY <1>1, <2>2, <3>1 DEF Tools!ToolType, Clean
      <4> QED
        BY <2>1, <2>2, <3>1, <4>1
    <3>2. CASE tool' = [tool EXCEPT !.todo = @ \ {f}] /\ seen' = seen
      <4>1. ~tool.critical
        BY <1>1, <2>2, <3>2 DEF Tools!ToolType
      <4> QED
        BY <2>1, <2>2, <3>2, <4>1
    <3> QED
      BY <1>6, <3>1, <3>2 DEF Tools!ScanFile
  <2>3. ~tool'.critical => \A g \in seen' : Clean(disk'[g])
    BY <2>1, <2>2
  <2> QED
    BY <1>2, <2>1, <2>3 DEF Tools!NoVerdict
<1>7. CASE Tools!EndScan
  <2>1. tool'.pc = "idle" /\ tool.pc = "scan" /\ UNCHANGED <<disk, seen>>
    BY <1>7, ToolsPc DEF Tools!EndScan
  <2>2. verdict' = 0 => ~tool.critical
    BY <1>7 DEF Tools!EndScan
  <2> QED
    BY <1>2, <2>1, <2>2
<1>8. CASE Tools!StartFix \/ Tools!EndFix
  BY <1>3, <1>8, ToolsPc DEF Tools!StartFix, Tools!EndFix
<1>9. ASSUME NEW f \in Files, Tools!PickFile(f) PROVE PassedInv'
  <2>1. tool'.at = f /\ tool'.read = disk[f] /\ tool'.pc \in {"backup", "pick"}
    BY <1>1, <1>9 DEF Tools!PickFile, Tools!ToolType
  <2>2. UNCHANGED <<disk, verdict, seen>>
    BY <1>9 DEF Tools!PickFile
  <2> QED
    BY <1>2, <2>1, <2>2
<1>10. CASE Tools!CreateBackup
  <2>1. tool.pc = "backup" /\ tool'.pc = "write" /\ tool'.at = tool.at /\ tool'.read = tool.read
    BY <1>10, ToolsPc DEF Tools!CreateBackup
  <2>2. UNCHANGED <<disk, verdict, seen>>
    BY <1>10 DEF Tools!CreateBackup
  <2> QED
    BY <1>2, <2>1, <2>2
<1>11. CASE Tools!Write
  <2>1. tool.pc = "write" /\ tool'.pc = "pick" /\ UNCHANGED <<verdict, seen>>
    BY <1>11, ToolsPc DEF Tools!Write
  <2>2. CASE Tools!Overwrite(Tools!Fixed(tool.read))
    <3>1. verdict = 0 /\ tool.at \in seen => Clean(Tools!Fixed(tool.read))
      BY <1>1, <2>1, CleanFixed
    <3> QED
      BY <1>1, <1>4, <2>1, <2>2, <3>1, FixedContents
  <2>3. CASE Tools!Overwrite({})
    BY <1>4, <2>1, <2>3, EmptyContent, CleanEmpty
  <2>4. CASE UNCHANGED disk
    BY <1>3, <2>1, <2>4
  <2> QED
    BY <1>11, <2>2, <2>3, <2>4 DEF Tools!Write
<1>12. CASE Tools!Stop
  <2>1. tool'.pc = "idle" /\ UNCHANGED verdict
    BY <1>12, ToolsPc DEF Tools!Stop
  <2>2. CASE tool.pc = "scan"
    <3>1. seen' = {}
      BY <1>12, <2>2 DEF Tools!Stop
    <3> QED
      BY <1>2, <2>1, <3>1
  <2>3. CASE tool.pc # "scan" /\ UNCHANGED disk
    BY <1>3, <1>12, <2>1, <2>3 DEF Tools!Stop
  <2>4. CASE tool.pc = "write" /\ Tools!Overwrite({})
    <3>1. UNCHANGED seen
      BY <1>12, <2>4 DEF Tools!Stop
    <3> QED
      BY <1>4, <2>1, <2>4, <3>1, EmptyContent, CleanEmpty
  <2> QED
    BY <1>12, <2>2, <2>3, <2>4 DEF Tools!Stop
<1>13. ASSUME NEW f \in Files, Tools!Save(f) PROVE PassedInv'
  <2>1. /\ seen' = seen \ {f} /\ UNCHANGED <<tool, verdict>>
        /\ \A g \in Files \ {f} : disk'[g] = disk[g]
    BY <1>13 DEF Tools!Save, ToolsTyped
  <2>2. ASSUME NEW g \in seen' PROVE g \in seen /\ disk'[g] = disk[g]
    BY <2>1, <2>2 DEF ToolsTyped
  <2>3. ASSUME \A g \in seen : Clean(disk[g]) PROVE \A g \in seen' : Clean(disk'[g])
    BY <2>2, <2>3
  <2> QED
    BY <1>2, <2>1, <2>3
<1>14. CASE Tools!Tick \/ UNCHANGED toolsVars
  BY <1>2, <1>14 DEF Tools!Tick, toolsVars
<1> QED
  BY <1>5, <1>6, <1>7, <1>8, <1>9, <1>10, <1>11, <1>12, <1>13, <1>14 DEF Tools!Next

\* What a scan has passed stays free of critical constructs while no user saves
\* it, also where the fixer rewrites what it has read of it.
THEOREM PassedFilesStayClean == Tools!Spec => []PassedStaysPassed
<1>1. Tools!Init => PassedInv
  BY ToolsInitTyped DEF PassedInv, Tools!Init, Tools!NoVerdict
<1>2. PassedInv /\ [Tools!Next]_toolsVars => PassedInv'
  BY PassedStep
<1>3. PassedInv => PassedStaysPassed
  BY DEF PassedInv, Clean, PassedStaysPassed, Tools!PassedStaysPassed
<1> QED
  BY <1>1, <1>2, <1>3, PTL DEF Tools!Spec, toolsVars, Tools!vars

(* Imports and uses are rewritten alike. *)

LEMMA FixedIsBound ==
  ASSUME NEW content \in FileContents, Tools!Bound(content),
         content \cap (Tools!ByHand \cup Tools!NotFollowed) = {}
  PROVE  Tools!Bound(Tools!Fixed(content))
<1>1. ASSUME NEW n \in DOMAIN Tools!Users, Tools!Fixed(content) \cap Tools!Users[n] # {}
      PROVE  Tools!Fixed(content) \cap Tools!Binders[n] # {}
  <2>1. PICK c \in content : Tools!Replacement[c] \in Tools!Users[n]
    BY <1>1 DEF Tools!Fixed
  <2>2. c \in Tools!Constructs \ (Tools!ByHand \cup Tools!NotFollowed)
    BY DEF FileContents
  <2>3. PICK m \in DOMAIN Tools!Users :
          /\ c \in Tools!Users[m]
          /\ {Tools!Replacement[b] : b \in Tools!Binders[m]} \subseteq Tools!Binders[n]
    BY <2>1, <2>2, FixesAgree
  <2>4. PICK b \in content : b \in Tools!Binders[m]
    BY <2>3 DEF Tools!Bound
  <2>5. Tools!Replacement[b] \in Tools!Fixed(content) /\ Tools!Replacement[b] \in Tools!Binders[n]
    BY <2>3, <2>4 DEF Tools!Fixed
  <2> QED
    BY <2>5
<1> QED
  BY <1>1 DEF Tools!Bound

LEMMA ClaimsGrowByWriting ==
  ASSUME ToolsTyped, [Tools!Next]_toolsVars, NEW f \in claims' \ claims
  PROVE  disk'[f] = Tools!Fixed(tool.read) /\ tool.read \in FileContents
<1>1. tool \in Tools!ToolType /\ tool.at \in Files /\ tool.read \in FileContents
  BY DEF ToolsTyped, Tools!ToolType, FileContents
<1>2. CASE Tools!Write
  <2>1. Tools!Overwrite(Tools!Fixed(tool.read)) /\ f = tool.at
    BY <1>2 DEF Tools!Write
  <2> QED
    BY <1>1, <2>1, FixedContents, OverwriteTyped
<1> QED
  BY <1>2 DEF Tools!Next, Tools!StartScan, Tools!EndScan, Tools!StartFix, Tools!CreateBackup,
     Tools!EndFix, Tools!Stop, Tools!Tick, Tools!ScanFile, Tools!PickFile, Tools!Save, toolsVars

\* A content whose names are all imported still is one when the fixer counts the
\* file as fixed.
THEOREM FixedNamesAreBound == Tools!Spec => NamesStayBound
<1>1. Tools!Init => ToolsTyped
  BY ToolsInitTyped
<1>2. ToolsTyped /\ [Tools!Next]_toolsVars => ToolsTyped'
  BY ToolsStepTyped
<1>3. ASSUME ToolsTyped, [Tools!Next]_toolsVars, NEW f \in claims' \ claims, Tools!Bound(tool.read),
             tool.read \cap (Tools!ByHand \cup Tools!NotFollowed) = {}
      PROVE  Tools!Bound(disk'[f])
  BY <1>3, ClaimsGrowByWriting, FixedIsBound
<1>4. ToolsTyped /\ [Tools!Next]_toolsVars =>
        [\A f \in claims' \ claims :
           Tools!Bound(tool.read) /\ tool.read \cap (Tools!ByHand \cup Tools!NotFollowed) = {}
           => Tools!Bound(disk'[f])]_toolsVars
  BY <1>3
<1> QED
  BY <1>1, <1>2, <1>4, PTL DEF Tools!Spec, NamesStayBound, Tools!NamesStayBound, toolsVars, Tools!vars
-----------------------------------------------------------------------------
(* The management actions *)

Addresses == Store!Addresses
Values == Addresses \cup {<<j>> : j \in Jobs} \cup {Store!Nothing}
Counts == 0..MaxRows

JobType == [pc : Nat, action : Store!ActionType, from : Addresses \cup {<<>>},
            to : Addresses \cup {<<>>}, held : SUBSET Names, disturbed : BOOLEAN,
            result : {"none", "SUCCESS", "FAILURE"}]

\* A job that runs is at a step of a script of the family, or behind the last one.
RunsWell(q) ==
    /\ q.pc <= Len(q.action.steps) + 1
    /\ q.pc > 0 => /\ q.action \in family /\ q.result = "none"
                   /\ q.from \in Addresses /\ q.to \in Addresses

StoreTyped ==
    /\ family \in Families
    /\ store \in [Addresses -> Values]
    /\ rows \in [Addresses -> Counts]
    /\ job \in [Jobs -> JobType]
    /\ \A j \in Jobs : RunsWell(job[j])

\* What a job j does to itself and to the others, when it changes no content and
\* no row, and when it does.
Advances(j) ==
    job'[j].pc = job[j].pc + 1 /\ job'[j] = [job[j] EXCEPT !.pc = job[j].pc + 1, !.held = job'[j].held]
Disturbed(q) == [q EXCEPT !.disturbed = TRUE]
Alone(j) == \A k \in Jobs \ {j} : job'[k] = job[k]
Disturbs(j) ==
    \A k \in Jobs \ {j} : job'[k] = IF Store!Running(k) /\ Store!Shared(j, k) THEN Disturbed(job[k]) ELSE job[k]
Ends(j) == job'[j].pc = 0 /\ Alone(j) /\ UNCHANGED <<store, rows>>

LEMMA IdleTyped == Store!Idle \in JobType /\ Store!Idle.pc = 0 /\ RunsWell(Store!Idle)
<1>1. <<>> \in Seq(Store!Ops) /\ Len(<<>>) = 0
  OBVIOUS
<1> QED
  BY <1>1 DEF Store!Idle, JobType, Store!ActionType, RunsWell

LEMMA StepIs ==
  ASSUME StoreTyped, NEW j \in Jobs, Store!Step(j)
  PROVE  /\ job' \in [Jobs -> JobType] /\ Advances(j) /\ Alone(j) /\ job'[j].held = job[j].held
<1>1. job[j] \in JobType
  BY DEF StoreTyped
<1>2. [job[j] EXCEPT !.pc = job[j].pc + 1] \in JobType
  BY <1>1 DEF JobType
<1>3. job' = [job EXCEPT ![j] = [job[j] EXCEPT !.pc = job[j].pc + 1]]
  BY DEF Store!Step, StoreTyped
<1> QED
  BY <1>1, <1>2, <1>3 DEF StoreTyped, Advances, Alone, JobType

LEMMA DisturbedTyped == ASSUME NEW q \in JobType PROVE Disturbed(q) \in JobType
  BY DEF Disturbed, JobType

LEMMA StepDisturbingIs ==
  ASSUME StoreTyped, NEW j \in Jobs, Store!StepDisturbing(j)
  PROVE  /\ job' \in [Jobs -> JobType] /\ Advances(j) /\ Disturbs(j) /\ job'[j].held = job[j].held
<1>1. \A k \in Jobs : job[k] \in JobType
  BY DEF StoreTyped
<1>2. [job[j] EXCEPT !.pc = job[j].pc + 1] \in JobType
  BY <1>1 DEF JobType
<1> DEFINE d == Store!Disturb(j)
<1>3. d \in [Jobs -> JobType]
  BY <1>1, DisturbedTyped DEF Store!Disturb, Disturbed
<1>4. d[j] = job[j] /\ \A k \in Jobs \ {j} :
        d[k] = IF Store!Running(k) /\ Store!Shared(j, k) THEN Disturbed(job[k]) ELSE job[k]
  BY DEF Store!Disturb, Disturbed
<1>5. job' = [d EXCEPT ![j].pc = @ + 1]
  BY DEF Store!StepDisturbing
<1> HIDE DEF d
<1>6. job' = [d EXCEPT ![j] = [d[j] EXCEPT !.pc = d[j].pc + 1]]
  BY <1>3, <1>5
<1>7. job' \in [Jobs -> JobType] /\ job'[j] = [job[j] EXCEPT !.pc = job[j].pc + 1]
  BY <1>2, <1>3, <1>4, <1>6
<1>8. \A k \in Jobs \ {j} : job'[k] = d[k]
  BY <1>3, <1>6
<1>9. Disturbs(j)
  BY <1>4, <1>8 DEF Disturbs
<1> QED
  BY <1>1, <1>7, <1>9 DEF Advances, JobType

LEMMA EndIs ==
  ASSUME StoreTyped, NEW j \in Jobs, NEW result \in {"SUCCESS", "FAILURE"}, Store!End(j, result)
  PROVE  /\ job' \in [Jobs -> JobType] /\ job'[j].pc = 0 /\ job'[j].result = result /\ Alone(j)
         /\ Len(job'[j].action.steps) = 0
<1>1. [Store!Idle EXCEPT !.result = result] \in JobType
  BY IdleTyped DEF JobType
<1>2. job' = [job EXCEPT ![j] = [Store!Idle EXCEPT !.result = result]]
  BY DEF Store!End
<1>3. [Store!Idle EXCEPT !.result = result].pc = 0
  BY IdleTyped DEF JobType
<1>4. [Store!Idle EXCEPT !.result = result].result = result
  BY IdleTyped DEF JobType
<1>5. Len([Store!Idle EXCEPT !.result = result].action.steps) = 0
  BY DEF Store!Idle
<1> QED
  BY <1>1, <1>2, <1>3, <1>4, <1>5 DEF StoreTyped, Alone

(* A step of the part is one of seven kinds of step of one job. *)

Writers == {"Copy", "Put", "New", "NewUnique", "TryNewUnique"}
Removers == {"Remove", "RemoveAny", "RemoveOther", "TryRemove"}
RowOps == {"NewRow", "AddRowOnce", "MoveRow", "DropRow", "DropAnyRow",
           "ShowAll", "ShowNew", "ShowOnce", "ShowMoved"}

Begins(j) ==
    /\ job[j].pc = 0 /\ Alone(j) /\ UNCHANGED <<store, rows>>
    /\ job'[j].pc = 1 /\ ~job'[j].disturbed /\ job'[j].result = "none"
    /\ job'[j].action \in family /\ job'[j].from \in Addresses /\ job'[j].to \in Addresses
Finishes(j) ==
    /\ Store!Running(j) /\ job'[j].pc = 0 /\ Len(job'[j].action.steps) = 0
    /\ Alone(j) /\ UNCHANGED <<store, rows>>
    /\ job'[j].result = "SUCCESS" =>
         Store!AtEnd(j) \/ Store!Doing(j, "TryNewUnique") \/ Store!Doing(j, "TryRemove")
Looks(j) ==
    /\ Advances(j) /\ Alone(j) /\ job'[j].held = job[j].held /\ UNCHANGED <<store, rows>>
    /\ \/ \E op \in {"Need", "Free", "NeedRow"} : Store!Doing(j, op)
       \/ Store!Doing(j, "RemoveOther") /\ Store!From(j) = Store!To(j)
Lists(j) ==
    /\ Advances(j) /\ Alone(j) /\ UNCHANGED <<store, rows>> /\ Store!Doing(j, "List")
    /\ job'[j].held = {n \in Names : Store!There(<<Store!From(j)[1], n>>)}
PutsAt(j) ==
    /\ Advances(j) /\ Disturbs(j) /\ job'[j].held = job[j].held /\ UNCHANGED rows
    /\ \E op \in Writers, v \in Values :
         /\ Store!Doing(j, op) /\ store' = [store EXCEPT ![Store!To(j)] = v]
         /\ op = "Copy" => v = store[Store!From(j)]
Takes(j) ==
    /\ Advances(j) /\ Disturbs(j) /\ job'[j].held = job[j].held /\ UNCHANGED rows
    /\ \E op \in Removers :
         Store!Doing(j, op) /\ (op = "RemoveOther" => Store!From(j) # Store!To(j))
    /\ store' = [store EXCEPT ![Store!From(j)] = Store!Nothing]

RowsAfter(j, op) ==
    CASE op = "DropRow" ->
           rows[Store!From(j)] > 0 /\ rows' = [rows EXCEPT ![Store!From(j)] = @ - 1]
      [] op = "DropAnyRow" -> \E a \in Addresses : rows[a] > 0 /\ rows' = [rows EXCEPT ![a] = @ - 1]
      [] op = "NewRow" ->
           rows[Store!To(j)] < MaxRows /\ rows' = [rows EXCEPT ![Store!To(j)] = @ + 1]
      [] op = "AddRowOnce" -> rows' = Store!Once(rows, Store!To(j))
      [] op = "MoveRow" -> rows' = Store!Moved(rows, Store!To(j))
      [] op = "ShowAll" -> rows' = Store!ShowAll(j)
      [] op = "ShowNew" -> rows' = Store!ShowNew(j)
      [] op = "ShowOnce" -> rows' = Store!ShowOnce(j)
      [] op = "ShowMoved" -> rows' = Store!ShowMoved(j)
WritesRows(j) ==
    /\ Advances(j) /\ Disturbs(j) /\ job'[j].held = job[j].held /\ UNCHANGED store
    /\ \E op \in RowOps : Store!Doing(j, op) /\ RowsAfter(j, op)

JobStep(j) == Begins(j) \/ Finishes(j) \/ Looks(j) \/ Lists(j) \/ PutsAt(j) \/ Takes(j) \/ WritesRows(j)

LEMMA RunningTyped ==
  ASSUME StoreTyped, NEW j \in Jobs, Store!Running(j)
  PROVE  /\ job[j] \in JobType /\ job[j].action \in family /\ job[j].result = "none"
         /\ Store!From(j) \in Addresses /\ Store!To(j) \in Addresses
         /\ job[j].pc \in Nat /\ job[j].pc > 0 /\ job[j].pc <= Len(job[j].action.steps) + 1
<1>1. job[j] \in JobType /\ RunsWell(job[j])
  BY DEF StoreTyped
<1>2. job[j].pc \in Nat
  BY <1>1 DEF JobType
<1> QED
  BY <1>1, <1>2 DEF RunsWell, Store!Running, Store!From, Store!To

LEMMA RequestIs ==
  ASSUME StoreTyped, NEW j \in Jobs, NEW action \in family, NEW from \in Addresses,
         Store!Request(j, action, from)
  PROVE  job' \in [Jobs -> JobType] /\ Begins(j) /\ UNCHANGED family
<1>1. action \in Store!ActionType
  BY FamiliesOfActions DEF StoreTyped
<1>2. PICK to \in Store!Destinations(action, from) :
        job' = [job EXCEPT ![j] = [Store!Idle EXCEPT !.pc = 1, !.action = action,
                                                     !.from = from, !.to = to]]
  BY DEF Store!Request
<1>3. to \in Addresses
  <2>1. from[1] \in Containers /\ from[2] \in Names
    BY DEF Addresses, Store!Addresses
  <2>2. action.dest \in {"here", "other", "any", "name", "steve"}
    BY <1>1 DEF Store!ActionType
  <2> QED
    BY <2>1, <2>2, <1>2 DEF Store!Destinations, Addresses, Store!Addresses
<1> DEFINE new == [Store!Idle EXCEPT !.pc = 1, !.action = action, !.from = from, !.to = to]
<1>4. /\ new \in JobType /\ new.pc = 1 /\ new.disturbed = FALSE /\ new.result = "none"
      /\ new.action = action /\ new.from = from /\ new.to = to
  BY <1>1, <1>3 DEF Store!Idle, JobType
<1>5. job[j].pc = 0
  BY IdleTyped DEF Store!Request
<1> HIDE DEF new
<1>6. job' \in [Jobs -> JobType] /\ job'[j] = new /\ Alone(j)
  BY <1>2, <1>4 DEF StoreTyped, Alone, new
<1> QED
  BY <1>3, <1>4, <1>5, <1>6 DEF Begins, Store!Request

LEMMA FailIs ==
  ASSUME StoreTyped, NEW j \in Jobs, Store!Running(j), Store!Fail(j)
  PROVE  job' \in [Jobs -> JobType] /\ Finishes(j)
  BY EndIs DEF Store!Fail, Finishes

LEMMA SucceedIs ==
  ASSUME StoreTyped, NEW j \in Jobs, Store!Running(j),
         Store!AtEnd(j) \/ Store!Doing(j, "TryNewUnique") \/ Store!Doing(j, "TryRemove"),
         Store!End(j, "SUCCESS"), UNCHANGED <<store, rows>>
  PROVE  job' \in [Jobs -> JobType] /\ Finishes(j)
  BY EndIs DEF Finishes

LEMMA LookIs ==
  ASSUME StoreTyped, NEW j \in Jobs, Store!Look(j) \/ Store!List(j)
  PROVE  job' \in [Jobs -> JobType] /\ JobStep(j) /\ UNCHANGED family
<1>1. CASE Store!Look(j)
  <2>1. Store!Running(j) /\ UNCHANGED family
    BY <1>1 DEF Store!Look
  <2>2. CASE Store!Fail(j)
    BY <2>1, <2>2, FailIs DEF JobStep
  <2>3. CASE /\ Store!Step(j) /\ UNCHANGED <<store, rows>>
             /\ \E op \in {"Need", "Free", "NeedRow"} : Store!Doing(j, op)
    <3>1. Looks(j) /\ job' \in [Jobs -> JobType]
      BY <2>3, StepIs DEF Looks
    <3> QED
      BY <2>1, <3>1 DEF JobStep
  <2> QED
    BY <1>1, <2>2, <2>3 DEF Store!Look
<1>2. CASE Store!List(j)
  <2>1. Store!Running(j) /\ job[j] \in JobType
    BY <1>2 DEF StoreTyped, Store!List, Store!Doing
  <2>2. PICK names \in SUBSET Names : names = {n \in Names : Store!There(<<Store!From(j)[1], n>>)}
    OBVIOUS
  <2>3. job' = [job EXCEPT ![j] = [job[j] EXCEPT !.held = names, !.pc = job[j].pc + 1]]
    BY <1>2, <2>1, <2>2 DEF Store!List, StoreTyped
  <2>4. [job[j] EXCEPT !.held = names, !.pc = job[j].pc + 1] \in JobType
    <3>1. job[j].pc + 1 \in Nat
      BY <2>1 DEF JobType
    <3> QED
      BY <2>1, <3>1 DEF JobType
  <2>5. job' \in [Jobs -> JobType] /\ job'[j] = [job[j] EXCEPT !.held = names, !.pc = job[j].pc + 1]
        /\ Alone(j)
    BY <2>3, <2>4 DEF StoreTyped, Alone
  <2>6. Advances(j) /\ job'[j].held = names
    BY <2>1, <2>5 DEF Advances, JobType
  <2> QED
    BY <1>2, <2>2, <2>5, <2>6 DEF JobStep, Lists, Store!List
<1> QED
  BY <1>1, <1>2

LEMMA StoreWriteIs ==
  ASSUME StoreTyped, NEW j \in Jobs,
         Store!Copy(j) \/ Store!Put(j) \/ Store!New(j) \/ Store!Remove(j)
  PROVE  job' \in [Jobs -> JobType] /\ JobStep(j) /\ UNCHANGED family
<1>1. Store!Running(j) /\ UNCHANGED family
  BY DEF Store!Copy, Store!Put, Store!New, Store!Remove, Store!Doing
<1>2. Store!From(j) \in Addresses /\ <<j>> \in Values /\ store[Store!From(j)] \in Values
  BY <1>1, RunningTyped DEF Values, StoreTyped
<1>3. ASSUME Store!Fail(j) PROVE job' \in [Jobs -> JobType] /\ JobStep(j)
  BY <1>1, <1>3, FailIs DEF JobStep
<1>4. ASSUME NEW op \in Writers, NEW v \in Values, Store!Doing(j, op),
             Store!Write(j, Store!To(j), v), op = "Copy" => v = store[Store!From(j)]
      PROVE  job' \in [Jobs -> JobType] /\ JobStep(j)
  BY <1>4, StepDisturbingIs DEF Store!Write, JobStep, PutsAt
<1>5. ASSUME NEW op \in Removers, Store!Doing(j, op), op = "RemoveOther" => Store!From(j) # Store!To(j),
             Store!Write(j, Store!From(j), Store!Nothing)
      PROVE  job' \in [Jobs -> JobType] /\ JobStep(j)
  BY <1>5, StepDisturbingIs DEF Store!Write, JobStep, Takes
<1>6. CASE Store!Copy(j)
  BY <1>1, <1>2, <1>3, <1>4, <1>6 DEF Store!Copy, Writers
<1>7. CASE Store!Put(j)
  BY <1>1, <1>2, <1>4, <1>7 DEF Store!Put, Writers
<1>8. CASE Store!New(j)
  <2>1. PICK op \in {"New", "NewUnique", "TryNewUnique"} : Store!Doing(j, op)
    BY <1>8 DEF Store!New
  <2>2. CASE Store!Write(j, Store!To(j), <<j>>)
    BY <1>1, <1>2, <1>4, <2>1, <2>2 DEF Writers
  <2>3. CASE Store!Doing(j, "TryNewUnique") /\ Store!End(j, "SUCCESS") /\ UNCHANGED <<store, rows>>
    BY <1>1, <2>3, SucceedIs DEF JobStep
  <2> QED
    BY <1>1, <1>3, <1>8, <2>2, <2>3 DEF Store!New
<1>9. CASE Store!Remove(j)
  <2>1. CASE Store!Doing(j, "Remove")
    BY <1>1, <1>3, <1>5, <1>9, <2>1 DEF Store!Remove, Store!Doing, Removers
  <2>2. CASE Store!Doing(j, "RemoveAny")
    BY <1>1, <1>5, <1>9, <2>2 DEF Store!Remove, Store!Doing, Removers
  <2>3. CASE Store!Doing(j, "TryRemove")
    <3>1. CASE Store!Write(j, Store!From(j), Store!Nothing)
      BY <1>1, <1>5, <2>3, <3>1 DEF Removers
    <3>2. CASE Store!End(j, "SUCCESS") /\ UNCHANGED <<store, rows>>
      BY <1>1, <2>3, <3>2, SucceedIs DEF JobStep
    <3> QED
      BY <1>9, <2>3, <3>1, <3>2 DEF Store!Remove, Store!Doing
  <2>4. CASE Store!Doing(j, "RemoveOther")
    <3>1. CASE Store!From(j) = Store!To(j) /\ Store!Step(j) /\ UNCHANGED <<store, rows>>
      BY <1>1, <2>4, <3>1, StepIs DEF JobStep, Looks
    <3>2. CASE Store!From(j) # Store!To(j) /\ Store!Write(j, Store!From(j), Store!Nothing)
      BY <1>1, <1>5, <2>4, <3>2 DEF Removers
    <3> QED
      BY <1>9, <2>4, <3>1, <3>2 DEF Store!Remove, Store!Doing
  <2> QED
    BY <1>9, <2>1, <2>2, <2>3, <2>4 DEF Store!Remove
<1> QED
  BY <1>6, <1>7, <1>8, <1>9

LEMMA RowWriteIs ==
  ASSUME StoreTyped, NEW j \in Jobs, Store!AddRow(j) \/ Store!DropRow(j) \/ Store!Show(j)
  PROVE  job' \in [Jobs -> JobType] /\ JobStep(j) /\ UNCHANGED family
<1>1. ASSUME NEW op \in RowOps, Store!Doing(j, op), RowsAfter(j, op), Store!StepDisturbing(j),
             UNCHANGED <<family, store>>
      PROVE  job' \in [Jobs -> JobType] /\ JobStep(j) /\ UNCHANGED family
  BY <1>1, StepDisturbingIs DEF JobStep, WritesRows
<1>2. CASE Store!AddRow(j)
  BY <1>1, <1>2 DEF Store!AddRow, Store!WriteRows, RowOps, RowsAfter
<1>3. CASE Store!Show(j)
  BY <1>1, <1>3 DEF Store!Show, Store!WriteRows, RowOps, RowsAfter
<1>4. CASE Store!DropRow(j)
  <2>1. Store!Running(j) /\ UNCHANGED family
    BY <1>4 DEF Store!DropRow
  <2>2. CASE Store!Fail(j)
    BY <2>1, <2>2, FailIs DEF JobStep
  <2>3. CASE /\ Store!Doing(j, "DropRow")
             /\ \E a \in {Store!From(j)} \cap Store!Named(Store!From(j)[2]) :
                  Store!WriteRows(j, [rows EXCEPT ![a] = @ - 1])
    BY <1>1, <2>3 DEF Store!Named, Store!WriteRows, RowOps, RowsAfter
  <2>4. CASE /\ Store!Doing(j, "DropAnyRow")
             /\ \E a \in Store!Named(Store!From(j)[2]) :
                  Store!WriteRows(j, [rows EXCEPT ![a] = @ - 1])
    BY <1>1, <2>4 DEF Store!Named, Store!WriteRows, RowOps, RowsAfter, Addresses
  <2> QED
    BY <1>4, <2>2, <2>3, <2>4 DEF Store!DropRow
<1> QED
  BY <1>2, <1>3, <1>4

LEMMA StoreStepIs ==
  ASSUME StoreTyped, Store!Next
  PROVE  job' \in [Jobs -> JobType] /\ UNCHANGED family /\ \E j \in Jobs : JobStep(j)
<1>1. PICK j \in Jobs :
        \/ \E action \in family, from \in Store!Addresses : Store!Request(j, action, from)
        \/ Store!Look(j) \/ Store!List(j) \/ Store!Copy(j) \/ Store!Put(j) \/ Store!New(j)
        \/ Store!Remove(j) \/ Store!AddRow(j) \/ Store!DropRow(j) \/ Store!Show(j)
        \/ Store!Succeed(j) \/ Store!Die(j)
  BY DEF Store!Next
<1>2. CASE \E action \in family, from \in Addresses : Store!Request(j, action, from)
  BY <1>2, RequestIs DEF JobStep
<1>3. CASE Store!Succeed(j)
  BY <1>3, SucceedIs DEF Store!Succeed, JobStep
<1>4. CASE Store!Die(j)
  BY <1>4, FailIs DEF Store!Die, JobStep
<1> QED
  BY <1>1, <1>2, <1>3, <1>4, LookIs, StoreWriteIs, RowWriteIs DEF Addresses

(* What a step does to the rows *)

LEMMA CountStep ==
  ASSUME NEW n \in Counts
  PROVE  /\ n > 0 => n - 1 \in Counts /\ n - 1 < n
         /\ n < MaxRows => n + 1 \in Counts
         /\ 0 \in Counts /\ 1 \in Counts /\ 0 <= n /\ n <= n
         /\ (n = 0 \/ n > 0) /\ n \in Nat
  BY RowsAreCounted DEF Counts

\* A row is added below the containers of the job only, and taken away below other
\* ones only by a step that goes by the name.
RowsMove(j, op, a, old, new) ==
    /\ new \in Counts
    /\ new <= old \/ a[1] \in {Store!From(j)[1], Store!To(j)[1]}
    /\ new = old \/ a[1] \in {Store!From(j)[1], Store!To(j)[1]} \/ op \in ByName
    /\ new <= old \/ op \in Adding
    /\ new <= old \/ new = 1 \/ op = "NewRow"

LEMMA RowSame ==
  ASSUME NEW j, NEW op, NEW a, NEW n \in Counts
  PROVE  RowsMove(j, op, a, n, n)
  BY CountStep DEF RowsMove

LEMMA RowEffects ==
  ASSUME StoreTyped, NEW j \in Jobs, Store!Running(j), NEW op \in RowOps, RowsAfter(j, op)
  PROVE  rows' \in [Addresses -> Counts] /\ \A a \in Addresses : RowsMove(j, op, a, rows[a], rows'[a])
<1>1. /\ Store!From(j) \in Addresses /\ Store!To(j) \in Addresses
      /\ rows \in [Addresses -> Counts] /\ job[j].held \in SUBSET Names
  BY RunningTyped DEF StoreTyped, JobType
<1> DEFINE Below(a) == a[1] \in {Store!From(j)[1], Store!To(j)[1]}
<1>2. ASSUME NEW r \in [Addresses -> Counts], rows' = r,
             \A a \in Addresses : RowsMove(j, op, a, rows[a], r[a])
      PROVE  rows' \in [Addresses -> Counts] /\ \A a \in Addresses : RowsMove(j, op, a, rows[a], rows'[a])
  BY <1>2
<1>3. ASSUME NEW a \in Addresses, rows[a] > 0, rows' = [rows EXCEPT ![a] = @ - 1],
             (op = "DropRow" /\ Below(a)) \/ op = "DropAnyRow"
      PROVE  rows' \in [Addresses -> Counts] /\ \A b \in Addresses : RowsMove(j, op, b, rows[b], rows'[b])
  <2>1. PICK n \in Counts : n = rows[a]
    BY <1>1
  <2>2. n - 1 \in Counts /\ n - 1 <= n
    BY <1>3, <2>1, CountStep DEF Counts
  <2>3. rows' = [rows EXCEPT ![a] = n - 1]
    BY <1>3, <2>1
  <2>4. RowsMove(j, op, a, n, n - 1)
    BY <1>3, <2>2 DEF RowsMove, ByName
  <2>5. \A b \in Addresses \ {a} : RowsMove(j, op, b, rows[b], rows[b])
    BY <1>1, RowSame
  <2> QED
    BY <1>1, <2>1, <2>2, <2>3, <2>4, <2>5
<1>4. ASSUME NEW a \in Addresses, NEW r \in [Addresses -> Counts], rows' = r, Below(a),
             \A b \in Addresses \ {a} : r[b] = rows[b], r[a] = 1 \/ op = "NewRow", op \in Adding
      PROVE  rows' \in [Addresses -> Counts] /\ \A b \in Addresses : RowsMove(j, op, b, rows[b], rows'[b])
  <2>1. RowsMove(j, op, a, rows[a], r[a])
    BY <1>4 DEF RowsMove
  <2>2. \A b \in Addresses \ {a} : RowsMove(j, op, b, rows[b], r[b])
    BY <1>1, <1>4, RowSame
  <2> QED
    BY <1>4, <2>1, <2>2
<1>5. CASE op = "DropRow"
  BY <1>1, <1>3, <1>5 DEF RowsAfter
<1>6. CASE op = "DropAnyRow"
  BY <1>3, <1>6 DEF RowsAfter
<1>7. CASE op = "NewRow"
  <2>1. PICK n \in Counts : n = rows[Store!To(j)]
    BY <1>1
  <2>2. n + 1 \in Counts /\ rows' = [rows EXCEPT ![Store!To(j)] = n + 1]
    BY <1>7, <2>1, CountStep DEF RowsAfter
  <2> QED
    BY <1>1, <1>4, <1>7, <2>2 DEF Adding
<1>8. CASE op = "AddRowOnce"
  <2>1. CASE rows' = rows
    BY <1>1, <2>1, RowSame
  <2>2. CASE rows' = [rows EXCEPT ![Store!To(j)] = 1]
    <3>1. [rows EXCEPT ![Store!To(j)] = 1] \in [Addresses -> Counts]
      BY <1>1, CountStep, RowsAreCounted DEF Counts
    <3> QED
      BY <1>1, <1>4, <1>8, <2>2, <3>1 DEF Adding
  <2> QED
    BY <1>8, <2>1, <2>2 DEF RowsAfter, Store!Once
<1>9. ASSUME NEW r, r = [a \in Addresses |-> r[a]], rows' = r, op \in Adding, op # "NewRow",
             \A a \in Addresses :
               \/ r[a] = rows[a]
               \/ r[a] = 1 /\ Below(a)
               \/ r[a] = 0 /\ (Below(a) \/ op \in ByName)
      PROVE  rows' \in [Addresses -> Counts] /\ \A b \in Addresses : RowsMove(j, op, b, rows[b], rows'[b])
  <2>1. ASSUME NEW a \in Addresses PROVE r[a] \in Counts /\ RowsMove(j, op, a, rows[a], r[a])
    <3>1. CASE r[a] = rows[a]
      BY <1>1, <3>1, RowSame
    <3>2. CASE r[a] = 1 /\ Below(a)
      BY <1>9, <3>2, RowsAreCounted DEF RowsMove, Counts
    <3>3. CASE r[a] = 0 /\ (Below(a) \/ op \in ByName)
      <4>1. 0 \in Counts /\ 0 <= rows[a]
        BY <1>1, CountStep, RowsAreCounted DEF Counts
      <4> QED
        BY <3>3, <4>1 DEF RowsMove
    <3> QED
      BY <1>9, <3>1, <3>2, <3>3
  <2> QED
    BY <1>9, <2>1
<1>10. CASE op = "MoveRow"
  <2>1. PICK r : r = Store!Moved(rows, Store!To(j))
    OBVIOUS
  <2> QED
    BY <1>9, <1>10, <2>1 DEF RowsAfter, Store!Moved, Adding, ByName, Addresses
<1>11. \A a \in Addresses : a \in Store!HeldAddresses(j) => a[1] = Store!From(j)[1]
  BY DEF Store!HeldAddresses
<1>12. CASE op = "ShowAll"
  <2>1. PICK r : r = Store!ShowAll(j)
    OBVIOUS
  <2> QED
    BY <1>9, <1>11, <1>12, <2>1 DEF RowsAfter, Store!ShowAll, Adding, Addresses
<1>13. CASE op = "ShowNew"
  <2>1. PICK r : r = Store!ShowNew(j)
    OBVIOUS
  <2> QED
    BY <1>9, <1>11, <1>13, <2>1 DEF RowsAfter, Store!ShowNew, Adding, Addresses
<1>14. CASE op = "ShowOnce"
  <2>1. PICK r : r = Store!ShowOnce(j)
    OBVIOUS
  <2> QED
    BY <1>9, <1>11, <1>14, <2>1 DEF RowsAfter, Store!ShowOnce, Adding, Addresses
<1>15. CASE op = "ShowMoved"
  <2>1. PICK r : r = Store!ShowMoved(j)
    OBVIOUS
  <2> QED
    BY <1>9, <1>15, <2>1 DEF RowsAfter, Store!ShowMoved, Adding, ByName, Addresses
<1> QED
  BY <1>5, <1>6, <1>7, <1>8, <1>10, <1>12, <1>13, <1>14, <1>15 DEF RowOps

(* Types *)

\* Whoever moves on stays within its script.
LEMMA DoingIs ==
  ASSUME StoreTyped, NEW j \in Jobs, NEW op, Store!Doing(j, op)
  PROVE  /\ Store!Running(j) /\ job[j].pc \in DOMAIN job[j].action.steps
         /\ job[j].action.steps[job[j].pc] = op
<1>1. Store!Running(j) /\ job[j].action.steps \in Seq(Store!Ops)
  BY DEF StoreTyped, JobType, Store!ActionType, Store!Doing
<1>2. job[j].pc \in Nat /\ job[j].pc > 0
  BY <1>1, RunningTyped
<1>3. PICK n \in Nat : n = Len(job[j].action.steps)
  BY <1>1
<1>4. job[j].pc <= n
  BY <1>2, <1>3 DEF Store!Doing, Store!AtEnd
<1>5. job[j].pc \in 1..n
  BY <1>2, <1>3, <1>4
<1>6. DOMAIN job[j].action.steps = 1..n
  BY <1>1, <1>3
<1> QED
  BY <1>1, <1>5, <1>6 DEF Store!Doing

LEMMA AdvancesIs ==
  ASSUME StoreTyped, job' \in [Jobs -> JobType], NEW j \in Jobs, NEW op, Store!Doing(j, op), Advances(j)
  PROVE  /\ job'[j].pc = job[j].pc + 1 /\ job'[j].action = job[j].action
         /\ job'[j].from = job[j].from /\ job'[j].to = job[j].to
         /\ job'[j].disturbed = job[j].disturbed /\ job'[j].result = job[j].result
         /\ job'[j].pc <= Len(job[j].action.steps) + 1 /\ job'[j].pc > 0
<1>1. job[j] \in JobType /\ job[j].action.steps \in Seq(Store!Ops)
  BY DEF StoreTyped, JobType, Store!ActionType
<1>2. PICK n \in Nat : n = Len(job[j].action.steps)
  BY <1>1
<1>3. job[j].pc \in 1..n
  BY <1>1, <1>2, DoingIs
<1>4. PICK p \in 1..n : p = job[j].pc
  BY <1>3
<1>5. job'[j].pc = p + 1 /\ p + 1 <= n + 1 /\ p + 1 > 0
  BY <1>4 DEF Advances
<1>6. PICK q : q = job[j] /\ q \in JobType
  BY <1>1
<1>7. PICK r : r = job'[j]
  OBVIOUS
<1>8. r = [q EXCEPT !.pc = p + 1, !.held = r.held]
  BY <1>4, <1>6, <1>7 DEF Advances
<1>9. /\ r.action = q.action /\ r.from = q.from /\ r.to = q.to
      /\ r.disturbed = q.disturbed /\ r.result = q.result
  BY <1>6, <1>8 DEF JobType
<1> QED
  BY <1>2, <1>4, <1>5, <1>6, <1>7, <1>9

LEMMA OthersAre ==
  ASSUME StoreTyped, NEW j \in Jobs, NEW k \in Jobs \ {j}, Alone(j) \/ Disturbs(j)
  PROVE  /\ job'[k] = job[k] \/ job'[k] = Disturbed(job[k])
         /\ job'[k].pc = job[k].pc /\ job'[k].action = job[k].action
         /\ job'[k].from = job[k].from /\ job'[k].to = job[k].to
         /\ job'[k].held = job[k].held /\ job'[k].result = job[k].result
<1>1. PICK q \in JobType : q = job[k]
  BY DEF StoreTyped
<1>2. job'[k] = q \/ job'[k] = Disturbed(q)
  BY <1>1 DEF Alone, Disturbs
<1>3. LET d == Disturbed(q) IN
        /\ d.pc = q.pc /\ d.action = q.action /\ d.from = q.from /\ d.to = q.to
        /\ d.held = q.held /\ d.result = q.result
  BY DEF JobType, Disturbed
<1> QED
  BY <1>1, <1>2, <1>3

LEMMA StoreStepTyped ==
  ASSUME StoreTyped, [Store!Next]_storeVars
  PROVE  StoreTyped'
<1>1. CASE UNCHANGED storeVars
  BY <1>1 DEF storeVars, StoreTyped, RunsWell
<1>2. CASE Store!Next
  <2>1. job' \in [Jobs -> JobType] /\ family' = family
    BY <1>2, StoreStepIs
  <2>2. PICK j \in Jobs : JobStep(j)
    BY <1>2, StoreStepIs
  <2>3. store' \in [Addresses -> Values] /\ rows' \in [Addresses -> Counts]
    <3>1. CASE PutsAt(j)
      BY <3>1 DEF PutsAt, StoreTyped
    <3>2. CASE Takes(j)
      BY <3>2 DEF Takes, StoreTyped, Values
    <3>3. CASE WritesRows(j)
      BY <3>3, DoingIs, RowEffects DEF WritesRows, StoreTyped
    <3> QED
      BY <2>2, <3>1, <3>2, <3>3 DEF JobStep, Begins, Finishes, Looks, Lists, StoreTyped
  <2>4. RunsWell(job[j])' /\ (Alone(j) \/ Disturbs(j))
    <3>1. CASE Begins(j)
      <4>1. job'[j].action.steps \in Seq(Store!Ops)
        BY <2>1 DEF JobType, Store!ActionType
      <4>2. PICK n \in Nat : n = Len(job'[j].action.steps)
        BY <4>1
      <4>3. 1 <= n + 1
        OBVIOUS
      <4> QED
        BY <2>1, <3>1, <4>2, <4>3 DEF Begins, RunsWell
    <3>2. CASE Finishes(j)
      BY <3>2 DEF Finishes, RunsWell
    <3>3. CASE Advances(j) /\ (Alone(j) \/ Disturbs(j)) /\ \E op : Store!Doing(j, op)
      <4>1. PICK op : Store!Doing(j, op)
        BY <3>3
      <4>2. /\ job'[j].action = job[j].action /\ job'[j].from = job[j].from /\ job'[j].to = job[j].to
            /\ job'[j].result = job[j].result
            /\ job'[j].pc <= Len(job[j].action.steps) + 1
        BY <2>1, <3>3, <4>1, AdvancesIs
      <4>3. job[j].action \in family /\ job[j].result = "none" /\ Store!From(j) \in Addresses
            /\ Store!To(j) \in Addresses
        BY <4>1, DoingIs, RunningTyped
      <4> QED
        BY <2>1, <3>3, <4>2, <4>3 DEF RunsWell, Store!From, Store!To
    <3> QED
      BY <2>2, <3>1, <3>2, <3>3 DEF JobStep, Looks, Lists, PutsAt, Takes, WritesRows
  <2>5. ASSUME NEW k \in Jobs \ {j} PROVE RunsWell(job[k])'
    <3>1. RunsWell(job[k])
      BY DEF StoreTyped
    <3> QED
      BY <2>1, <2>4, <3>1, OthersAre DEF RunsWell
  <2> QED
    BY <2>1, <2>3, <2>4, <2>5 DEF StoreTyped
<1> QED
  BY <1>1, <1>2

LEMMA StoreInitTyped ==
  ASSUME Store!Init
  PROVE  StoreTyped
  BY IdleTyped, RowsAreCounted DEF Store!Init, StoreTyped, Addresses, Values, Counts

LEMMA StoreTypes == StoreTyped => Store!TypeOK
<1> SUFFICES ASSUME StoreTyped PROVE Store!TypeOK
  OBVIOUS
<1>1. ASSUME NEW j \in Jobs
      PROVE  /\ job[j].pc \in 0..(Len(job[j].action.steps) + 1)
             /\ job[j].held \subseteq Names /\ job[j].result \in {"none", "SUCCESS", "FAILURE"}
  <2>1. job[j] \in JobType /\ job[j].pc \in Nat /\ job[j].action.steps \in Seq(Store!Ops) /\ RunsWell(job[j])
    BY DEF StoreTyped, JobType, Store!ActionType
  <2>2. PICK n \in Nat : n = Len(job[j].action.steps)
    BY <2>1
  <2>3. job[j].pc <= n + 1
    BY <2>1, <2>2 DEF RunsWell
  <2> QED
    BY <2>1, <2>2, <2>3 DEF JobType
<1> QED
  BY <1>1 DEF StoreTyped, Store!TypeOK, Addresses, Values, Counts

\* A job leaves the rows below other containers alone, but for the scripts that move
\* or delete a row they found by its name alone.
THEOREM RowsOfOthersStay == Store!Spec => OtherRowsStay
<1>1. Store!Init => StoreTyped
  BY StoreInitTyped
<1>2. StoreTyped /\ [Store!Next]_storeVars => StoreTyped'
  BY StoreStepTyped
<1>3. ASSUME StoreTyped, Store!Next, NEW j \in Jobs, NEW a \in Addresses, Store!Steps(j),
             rows'[a] # rows[a], ~Store!Has(j, {"MoveRow", "DropAnyRow", "ShowMoved"})
      PROVE  a[1] \in {Store!From(j)[1], Store!To(j)[1]}
  <2>1. PICK k \in Jobs : JobStep(k)
    BY <1>3, StoreStepIs
  <2>2. WritesRows(k)
    BY <1>3, <2>1 DEF JobStep, Begins, Finishes, Looks, Lists, PutsAt, Takes
  <2>3. k = j
    BY <1>3, <2>2, OthersAre DEF WritesRows, Store!Steps
  <2>4. PICK op \in RowOps : Store!Doing(j, op) /\ RowsAfter(j, op)
    BY <2>2, <2>3 DEF WritesRows
  <2>5. op \notin ByName
    BY <1>3, <2>4, DoingIs DEF Store!Has, ByName
  <2>6. RowsMove(j, op, a, rows[a], rows'[a])
    BY <1>3, <2>4, DoingIs, RowEffects
  <2> QED
    BY <1>3, <2>5, <2>6 DEF RowsMove
<1>4. StoreTyped /\ [Store!Next]_storeVars =>
        [\A j \in Jobs : \A a \in Addresses :
           Store!Steps(j) /\ rows'[a] # rows[a]
           /\ ~Store!Has(j, {"MoveRow", "DropAnyRow", "ShowMoved"})
           => a[1] \in {Store!From(j)[1], Store!To(j)[1]}]_storeVars
  BY <1>3
<1> QED
  BY <1>1, <1>2, <1>4, PTL DEF Store!Spec, OtherRowsStay, Store!OtherRowsStay, Addresses, storeVars, Store!vars

(* Results.  What a script has done so far holds until it ends, if no other job was *)
(* at work in its containers: the scripts do nothing to undo it themselves.          *)

Past(q, ops) == \E i \in DOMAIN q.action.steps : i < q.pc /\ q.action.steps[i] \in ops
Listing(c) == {n \in Names : store[<<c, n>>] # Store!Nothing}

Gone(q) ==
    Past(q, Deletions) /\ (Uses(q.action.steps, {"RemoveOther"}) => q.from # q.to)
      => store[q.from] = Store!Nothing
Copied(q) == Past(q, {"Copy"}) => store[q.from] = Store!Nothing \/ store[q.from] = store[q.to]
Dropped(q) == ~Store!KeepsRuns /\ Past(q, {"DropRow"}) => rows[q.from] = 0
Listed(q) == Uses(q.action.steps, {"ShowAll"}) /\ Past(q, {"List"}) => q.held = Listing(q.from[1])
Shown(q) ==
    Past(q, {"ShowAll"}) => \A n \in Names : rows[<<q.from[1], n>>] > 0 <=> n \in Listing(q.from[1])
Results(q) == Gone(q) /\ Copied(q) /\ Dropped(q) /\ Listed(q) /\ Shown(q)

SingleRows == ~Store!KeepsRuns => \A a \in Addresses : rows[a] = 0 \/ rows[a] = 1

ResultsInv ==
    /\ StoreTyped /\ SingleRows
    /\ \A j \in Jobs : Store!Running(j) /\ ~job[j].disturbed => Results(job[j])

LEMMA ScriptOf ==
  ASSUME StoreTyped, NEW j \in Jobs, Store!Running(j)
  PROVE  job[j].action.steps \in Scripts /\ job[j].action.steps \in Seq(Store!Ops) /\ job[j].action \in family
  BY RunningTyped DEF StoreTyped, Scripts, JobType, Store!ActionType

\* The step at pc becomes one of those that are past.
LEMMA PastAfter ==
  ASSUME StoreTyped, job' \in [Jobs -> JobType], NEW j \in Jobs, NEW op, Store!Doing(j, op), Advances(j),
         NEW ops, Past(job'[j], ops)
  PROVE  Past(job[j], ops) \/ op \in ops
<1>1. job'[j].pc = job[j].pc + 1 /\ job'[j].action = job[j].action
  BY AdvancesIs
<1>2. Store!Running(j) /\ job[j].pc \in DOMAIN job[j].action.steps /\ job[j].action.steps[job[j].pc] = op
  BY DoingIs
<1>3. DOMAIN job[j].action.steps \subseteq Nat
  BY <1>2, ScriptOf
<1>4. PICK i \in DOMAIN job[j].action.steps : i < job[j].pc + 1 /\ job[j].action.steps[i] \in ops
  BY <1>1 DEF Past
<1>5. i < job[j].pc \/ i = job[j].pc
  <2>1. PICK p \in Nat : p = job[j].pc
    BY <1>2, <1>3
  <2>2. PICK m \in Nat : m = i
    BY <1>3
  <2>3. m < p + 1 => m < p \/ m = p
    OBVIOUS
  <2> QED
    BY <1>4, <2>1, <2>2, <2>3
<1> QED
  BY <1>2, <1>4, <1>5 DEF Past

\* A script that has come to its end is past all its steps.
LEMMA AllPast ==
  ASSUME StoreTyped, NEW j \in Jobs, Store!Running(j), Store!AtEnd(j), NEW ops,
         Uses(job[j].action.steps, ops)
  PROVE  Past(job[j], ops)
<1>1. PICK i \in DOMAIN job[j].action.steps : job[j].action.steps[i] \in ops
  BY DEF Uses
<1>2. PICK n \in Nat : n = Len(job[j].action.steps) /\ i \in 1..n
  BY ScriptOf
<1>3. PICK p \in Nat : p = job[j].pc
  BY RunningTyped
<1>4. i < p
  BY <1>2, <1>3 DEF Store!AtEnd
<1> QED
  BY <1>1, <1>3, <1>4 DEF Past

\* What comes first in a script is not done after what comes later.
LEMMA NotAfter ==
  ASSUME StoreTyped, NEW j \in Jobs, NEW op, Store!Doing(j, op), NEW first, NEW later,
         Before(job[j].action.steps, first, later), op \in first, Past(job[j], later)
  PROVE  FALSE
<1>1. Store!Running(j) /\ job[j].pc \in DOMAIN job[j].action.steps /\ job[j].action.steps[job[j].pc] = op
  BY DoingIs
<1>2. PICK i \in DOMAIN job[j].action.steps : i < job[j].pc /\ job[j].action.steps[i] \in later
  BY DEF Past
<1>3. job[j].pc < i
  BY <1>1, <1>2 DEF Before
<1>4. i \in Nat /\ job[j].pc \in Nat
  BY <1>1, <1>2, ScriptOf
<1> QED
  BY <1>2, <1>3, <1>4

LEMMA DoneBefore ==
  ASSUME StoreTyped, NEW j \in Jobs, NEW op, Store!Doing(j, op), NEW first, NEW later,
         Before(job[j].action.steps, first, later), op \in later, Uses(job[j].action.steps, first)
  PROVE  Past(job[j], first)
<1>1. job[j].pc \in DOMAIN job[j].action.steps /\ job[j].action.steps[job[j].pc] = op
  BY DoingIs
<1> QED
  BY <1>1 DEF Before, Uses, Past

LEMMA UsesIt ==
  ASSUME StoreTyped, NEW j \in Jobs, NEW op, Store!Doing(j, op), NEW ops, op \in ops
  PROVE  Uses(job[j].action.steps, ops)
  BY DoingIs DEF Uses

LEMMA PastUses ==
  ASSUME NEW q, NEW ops, Past(q, ops)
  PROVE  Uses(q.action.steps, ops)
  BY DEF Past, Uses

\* A job that is not disturbed finds its containers as they were, but for rows that
\* are taken away by name.
LEMMA Untouched ==
  ASSUME StoreTyped, NEW j \in Jobs, JobStep(j), NEW k \in Jobs \ {j}, Store!Running(k),
         ~job'[k].disturbed
  PROVE  /\ job'[k] = job[k]
         /\ \A a \in Addresses : a[1] \in {job[k].from[1], job[k].to[1]} =>
              /\ store'[a] = store[a]
              /\ rows'[a] = rows[a] \/ (rows'[a] <= rows[a] /\ Uses(job[j].action.steps, ByName))
<1>1. job[k] \in JobType
  BY DEF StoreTyped
<1>2. CASE Alone(j) /\ UNCHANGED <<store, rows>>
  BY <1>2 DEF Alone
<1>3. CASE Disturbs(j) /\ Store!Running(j) /\ (PutsAt(j) \/ Takes(j) \/ WritesRows(j))
  <2>1. Disturbed(job[k]).disturbed
    BY <1>1 DEF Disturbed, JobType
  <2>2. ~Store!Shared(j, k) /\ job'[k] = job[k]
    BY <1>3, <2>1 DEF Disturbs
  <2>3. ASSUME NEW a \in Addresses, a[1] \in {job[k].from[1], job[k].to[1]}
        PROVE  a[1] \notin {Store!From(j)[1], Store!To(j)[1]}
    BY <2>2, <2>3 DEF Store!Shared, Store!From, Store!To
  <2>4. CASE PutsAt(j) \/ Takes(j)
    <3>1. PICK b, v : /\ b \in {Store!From(j), Store!To(j)}
                       /\ store' = [store EXCEPT ![b] = v] /\ UNCHANGED rows
      BY <2>4 DEF PutsAt, Takes
    <3>2. ASSUME NEW a \in Addresses, a[1] \in {job[k].from[1], job[k].to[1]} PROVE store'[a] = store[a]
      <4>1. a # b
        BY <2>3, <3>1, <3>2
      <4> QED
        BY <3>1, <4>1 DEF StoreTyped
    <3> QED
      BY <2>2, <3>1, <3>2
  <2>5. CASE WritesRows(j)
    <3>1. PICK op \in RowOps : Store!Doing(j, op) /\ RowsAfter(j, op) /\ UNCHANGED store
      BY <2>5 DEF WritesRows
    <3>2. ASSUME NEW a \in Addresses, a[1] \in {job[k].from[1], job[k].to[1]}
          PROVE  rows'[a] = rows[a] \/ (rows'[a] <= rows[a] /\ Uses(job[j].action.steps, ByName))
      <4>1. RowsMove(j, op, a, rows[a], rows'[a])
        BY <1>3, <3>1, RowEffects
      <4> QED
        BY <2>3, <3>1, <3>2, <4>1, UsesIt DEF RowsMove
    <3> QED
      BY <2>2, <3>1, <3>2
  <2> QED
    BY <1>3, <2>4, <2>5
<1> QED
  BY <1>2, <1>3, DoingIs DEF JobStep, Begins, Finishes, Looks, Lists, PutsAt, Takes, WritesRows

(* The job's own steps *)

\* The rows and contents of the job's containers have addresses.
LEMMA OwnAddresses ==
  ASSUME StoreTyped, NEW j \in Jobs, Store!Running(j)
  PROVE  /\ job[j].from \in Addresses /\ job[j].to \in Addresses
         /\ \A n \in Names : <<job[j].from[1], n>> \in Addresses
  BY RunningTyped DEF Store!From, Store!To, Addresses, Store!Addresses

\* What j may do to contents and rows, by the step it is at.
LEMMA OwnStep ==
  ASSUME ResultsInv, job' \in [Jobs -> JobType], NEW j \in Jobs, NEW op, Store!Doing(j, op), JobStep(j), Advances(j)
  PROVE  /\ \/ store' = store
            \/ op = "Copy" /\ store' = [store EXCEPT ![job[j].to] = store[job[j].from]]
            \/ op \in Puts \ {"Copy"}
            \/ /\ op \in Deletions \cup {"TryRemove"}
               /\ store' = [store EXCEPT ![job[j].from] = Store!Nothing]
         /\ op \in Deletions =>
              \/ store' = [store EXCEPT ![job[j].from] = Store!Nothing] /\ (op = "RemoveOther" => job[j].from # job[j].to)
              \/ op = "RemoveOther" /\ job[j].from = job[j].to
         /\ op = "Copy" => store' = [store EXCEPT ![job[j].to] = store[job[j].from]]
         /\ rows' = rows \/ (op \in RowOps /\ RowsAfter(j, op))
         /\ op \in RowOps => RowsAfter(j, op) /\ store' = store
         /\ op = "List" => job'[j].held = Listing(job[j].from[1])
         /\ job'[j].held = job[j].held \/ op = "List"
<1>1. \A o : Store!Doing(j, o) => o = op
  BY DEF Store!Doing
<1>2. Store!From(j) = job[j].from /\ Store!To(j) = job[j].to /\ Store!Running(j)
  BY DEF Store!From, Store!To, Store!Doing
<1> USE DEF Puts, Deletions, Writers, Removers, RowOps
<1>3. CASE Looks(j)
  BY <1>1, <1>2, <1>3 DEF Looks
<1>4. CASE Lists(j)
  BY <1>1, <1>2, <1>4 DEF Lists, Listing, Store!There
<1>5. CASE PutsAt(j)
  BY <1>1, <1>2, <1>5 DEF PutsAt
<1>6. CASE Takes(j)
  BY <1>1, <1>2, <1>6 DEF Takes
<1>7. CASE WritesRows(j)
  BY <1>1, <1>2, <1>7 DEF WritesRows
<1>8. ~Begins(j) /\ ~Finishes(j)
  <2>1. job[j].pc \in Nat /\ job[j].pc > 0
    BY <1>2, RunningTyped DEF ResultsInv
  <2>2. job'[j].pc # 0
    BY <2>1 DEF Advances
  <2> QED
    BY <2>1, <2>2 DEF Begins, Finishes
<1> QED
  BY <1>3, <1>4, <1>5, <1>6, <1>7, <1>8 DEF JobStep

LEMMA OwnGone ==
  ASSUME ResultsInv, job' \in [Jobs -> JobType], NEW j \in Jobs, NEW op, Store!Doing(j, op),
         JobStep(j), Advances(j), Gone(job[j])
  PROVE  Gone(job[j])'
<1>1. /\ job'[j].from = job[j].from /\ job'[j].to = job[j].to /\ job'[j].action = job[j].action
      /\ job[j].from \in Addresses /\ job[j].to \in Addresses /\ store \in [Addresses -> Values]
      /\ StoreTyped /\ Store!Running(j)
  BY AdvancesIs, DoingIs, OwnAddresses DEF ResultsInv, StoreTyped
<1> DEFINE s == job[j].action.steps
<1> SUFFICES ASSUME Past(job'[j], Deletions), Uses(s, {"RemoveOther"}) => job[j].from # job[j].to
             PROVE  store'[job[j].from] = Store!Nothing
  BY <1>1 DEF Gone
<1>2. CASE op \in Deletions
  <2>1. op = "RemoveOther" => job[j].from # job[j].to
    BY <1>1, UsesIt
  <2>2. store' = [store EXCEPT ![job[j].from] = Store!Nothing]
    BY <1>2, <2>1, OwnStep
  <2> QED
    BY <1>1, <2>2
<1>3. CASE op \notin Deletions
  <2>1. Past(job[j], Deletions)
    BY <1>1, <1>3, PastAfter
  <2>2. store[job[j].from] = Store!Nothing
    BY <2>1 DEF Gone
  <2>3. Uses(s, Deletions) /\ s \in Scripts
    BY <1>1, <2>1, PastUses, ScriptOf
  <2>4. op \notin Puts
    BY <1>1, <2>1, <2>3, DeletesLast, NotAfter
  <2>5. store' = store \/ store' = [store EXCEPT ![job[j].from] = Store!Nothing]
    BY <2>4, OwnStep DEF Puts
  <2> QED
    BY <1>1, <2>2, <2>5
<1> QED
  BY <1>2, <1>3

LEMMA OwnCopied ==
  ASSUME ResultsInv, job' \in [Jobs -> JobType], NEW j \in Jobs, NEW op, Store!Doing(j, op),
         JobStep(j), Advances(j), Copied(job[j])
  PROVE  Copied(job[j])'
<1>1. /\ job'[j].from = job[j].from /\ job'[j].to = job[j].to /\ job'[j].action = job[j].action
      /\ job[j].from \in Addresses /\ job[j].to \in Addresses /\ store \in [Addresses -> Values]
      /\ StoreTyped /\ Store!Running(j)
  BY AdvancesIs, DoingIs, OwnAddresses DEF ResultsInv, StoreTyped
<1> SUFFICES ASSUME Past(job'[j], {"Copy"})
             PROVE  store'[job[j].from] = Store!Nothing \/ store'[job[j].from] = store'[job[j].to]
  BY <1>1 DEF Copied
<1>2. CASE op = "Copy"
  <2>1. store' = [store EXCEPT ![job[j].to] = store[job[j].from]]
    BY <1>2, OwnStep
  <2> QED
    BY <1>1, <2>1
<1>3. CASE op # "Copy"
  <2>1. Past(job[j], {"Copy"})
    BY <1>1, <1>3, PastAfter
  <2>2. Uses(job[j].action.steps, {"Copy"}) /\ job[j].action.steps \in Scripts
    BY <1>1, <2>1, PastUses, ScriptOf
  <2>3. op \notin Puts
    <3>1. ~Uses(job[j].action.steps, (Puts \ {"Copy"}) \cup {"TryRemove"})
      BY <2>2, CopiesFirst
    <3> QED
      BY <1>1, <1>3, <3>1, UsesIt
  <2>4. store' = store \/ store' = [store EXCEPT ![job[j].from] = Store!Nothing]
    BY <2>3, OwnStep DEF Puts
  <2> QED
    BY <1>1, <2>1, <2>4 DEF Copied
<1> QED
  BY <1>2, <1>3

LEMMA OwnDropped ==
  ASSUME ResultsInv, job' \in [Jobs -> JobType], NEW j \in Jobs, NEW op, Store!Doing(j, op),
         JobStep(j), Advances(j), Dropped(job[j]), UNCHANGED family
  PROVE  Dropped(job[j])'
<1>1. /\ job'[j].from = job[j].from /\ job'[j].to = job[j].to /\ job'[j].action = job[j].action
      /\ job[j].from \in Addresses /\ job[j].to \in Addresses /\ rows \in [Addresses -> Counts]
      /\ StoreTyped /\ Store!Running(j) /\ Store!From(j) = job[j].from
  BY AdvancesIs, DoingIs, OwnAddresses DEF ResultsInv, StoreTyped, Store!From
<1>2. Store!KeepsRuns' <=> Store!KeepsRuns
  BY DEF Store!KeepsRuns
<1> SUFFICES ASSUME ~Store!KeepsRuns, Past(job'[j], {"DropRow"}) PROVE rows'[job[j].from] = 0
  BY <1>1, <1>2 DEF Dropped
<1>3. CASE op = "DropRow"
  <2>3. op \in RowOps
    BY <1>3 DEF RowOps
  <2>1. rows[job[j].from] > 0 /\ rows' = [rows EXCEPT ![job[j].from] = @ - 1]
    <3>1. RowsAfter(j, op)
      BY <2>3, OwnStep
    <3> QED
      BY <1>1, <1>3, <3>1 DEF RowsAfter
  <2>2. rows[job[j].from] = 1
    BY <1>1, <2>1 DEF ResultsInv, SingleRows
  <2> QED
    BY <1>1, <2>1, <2>2
<1>4. CASE op # "DropRow"
  <2>1. Past(job[j], {"DropRow"})
    BY <1>1, <1>4, PastAfter
  <2>2. rows[job[j].from] = 0
    BY <2>1 DEF Dropped
  <2>3. Uses(job[j].action.steps, {"DropRow"}) /\ job[j].action.steps \in Scripts
    BY <1>1, <2>1, PastUses, ScriptOf
  <2>4. op \notin Adding
    BY <1>1, <2>1, <2>3, DropsLast, NotAfter
  <2>5. CASE op \in RowOps /\ RowsAfter(j, op)
    <3>1. RowsMove(j, op, job[j].from, rows[job[j].from], rows'[job[j].from])
      BY <1>1, <2>5, RowEffects
    <3>2. rows'[job[j].from] \in Counts /\ rows'[job[j].from] <= 0
      BY <2>2, <2>4, <3>1 DEF RowsMove
    <3> QED
      BY <3>2 DEF Counts
  <2> QED
    BY <2>2, <2>5, OwnStep
<1> QED
  BY <1>3, <1>4

\* Behind its listing a script that shows all changes no content, and no row but by
\* showing.
LEMMA AfterListing ==
  ASSUME StoreTyped, NEW j \in Jobs, NEW op, Store!Doing(j, op), Past(job[j], {"List"}),
         Uses(job[j].action.steps, {"ShowAll"})
  PROVE  op \notin Puts \cup Deletions \cup {"TryRemove"} /\ (op \in RowOps => op = "ShowAll")
<1>1. Store!Running(j) /\ job[j].action.steps \in Scripts
  BY DoingIs, ScriptOf
<1>2. Before(job[j].action.steps, Puts \cup Deletions \cup (Adding \ {"ShowAll"}) \cup {"DropRow"}, {"List"})
  BY <1>1, ShowsLast
<1>3. op \notin Puts \cup Deletions \cup (Adding \ {"ShowAll"}) \cup {"DropRow"}
  BY <1>2, NotAfter
<1>4. ~Uses(job[j].action.steps, Swallowing) /\ ~Uses(job[j].action.steps, ByName)
  BY <1>1, ScriptOf, ShowsLast DEF StoreTyped
<1>5. op \notin Swallowing /\ op \notin ByName
  BY <1>4, UsesIt
<1> QED
  BY <1>3, <1>5 DEF Swallowing, ByName, Adding, RowOps

LEMMA OwnListed ==
  ASSUME ResultsInv, job' \in [Jobs -> JobType], NEW j \in Jobs, NEW op, Store!Doing(j, op),
         JobStep(j), Advances(j), Listed(job[j])
  PROVE  Listed(job[j])'
<1>1. /\ job'[j].from = job[j].from /\ job'[j].action = job[j].action
      /\ StoreTyped /\ Store!Running(j)
  BY AdvancesIs, DoingIs DEF ResultsInv
<1> SUFFICES ASSUME Uses(job[j].action.steps, {"ShowAll"}), Past(job'[j], {"List"})
             PROVE  job'[j].held = Listing(job[j].from[1])'
  BY <1>1 DEF Listed
<1>2. PICK c : c = job[j].from[1]
  OBVIOUS
<1>3. ASSUME store' = store PROVE Listing(c)' = Listing(c)
  BY <1>3 DEF Listing
<1>4. CASE op = "List"
  <2>1. store' = store /\ job'[j].held = Listing(c)
    BY <1>2, <1>4, OwnStep DEF Puts, Deletions
  <2> QED
    BY <1>1, <1>2, <1>3, <2>1
<1>5. CASE op # "List"
  <2>1. Past(job[j], {"List"})
    BY <1>1, <1>5, PastAfter
  <2>2. op \notin Puts \cup Deletions \cup {"TryRemove"}
    BY <1>1, <2>1, AfterListing
  <2>3. store' = store /\ job'[j].held = job[j].held
    BY <1>5, <2>2, OwnStep DEF Puts
  <2>4. job[j].held = Listing(c)
    BY <1>2, <2>1 DEF Listed
  <2> QED
    BY <1>1, <1>2, <1>3, <2>3, <2>4
<1> QED
  BY <1>4, <1>5

LEMMA OwnShown ==
  ASSUME ResultsInv, job' \in [Jobs -> JobType], NEW j \in Jobs, NEW op, Store!Doing(j, op),
         JobStep(j), Advances(j), Listed(job[j]), Shown(job[j])
  PROVE  Shown(job[j])'
<1>1. /\ job'[j].from = job[j].from /\ job'[j].action = job[j].action
      /\ StoreTyped /\ Store!Running(j) /\ job[j].action.steps \in Scripts
      /\ Store!From(j) = job[j].from /\ rows \in [Addresses -> Counts]
  BY AdvancesIs, DoingIs, ScriptOf DEF ResultsInv, StoreTyped, Store!From
<1>2. PICK c : c = job[j].from[1]
  OBVIOUS
<1> SUFFICES ASSUME Past(job'[j], {"ShowAll"}), NEW n \in Names
             PROVE  rows'[<<c, n>>] > 0 <=> n \in Listing(c)'
  BY <1>1, <1>2 DEF Shown
<1>3. ASSUME store' = store PROVE Listing(c)' = Listing(c)
  BY <1>3 DEF Listing
<1>4. <<c, n>> \in Addresses
  BY <1>1, <1>2, OwnAddresses
<1>5. Uses(job[j].action.steps, {"ShowAll"})
  <2>1. Past(job[j], {"ShowAll"}) \/ op = "ShowAll"
    BY <1>1, PastAfter
  <2> QED
    BY <1>1, <2>1, PastUses, UsesIt
<1>6. /\ Uses(job[j].action.steps, {"List"})
      /\ Before(job[j].action.steps, {"List"}, {"ShowAll"})
  BY <1>1, <1>5, ShowsLast
<1>7. CASE op = "ShowAll"
  <2>1. store' = store /\ rows' = Store!ShowAll(j)
    BY <1>7, OwnStep DEF RowsAfter, RowOps
  <2>2. Past(job[j], {"List"})
    BY <1>1, <1>6, <1>7, DoneBefore
  <2>3. job[j].held = Listing(c)
    BY <1>2, <1>5, <2>2 DEF Listed
  <2>4. <<c, n>> \in Store!HeldAddresses(j) <=> n \in Listing(c)
    BY <1>1, <1>2, <2>3 DEF Store!HeldAddresses
  <2>5. rows'[<<c, n>>] = IF n \in Listing(c) THEN (IF rows[<<c, n>>] = 0 THEN 1 ELSE rows[<<c, n>>]) ELSE 0
    BY <1>1, <1>2, <1>4, <2>1, <2>4 DEF Store!ShowAll, Addresses
  <2>6. rows[<<c, n>>] = 0 \/ rows[<<c, n>>] > 0
    BY <1>1, <1>4, CountStep
  <2> QED
    BY <1>3, <2>1, <2>5, <2>6
<1>8. CASE op # "ShowAll"
  <2>1. Past(job[j], {"ShowAll"})
    BY <1>1, <1>8, PastAfter
  <2>2. Past(job[j], {"List"})
    <3>1. PICK i \in DOMAIN job[j].action.steps : i < job[j].pc /\ job[j].action.steps[i] = "ShowAll"
      BY <2>1 DEF Past
    <3>2. PICK l \in DOMAIN job[j].action.steps : job[j].action.steps[l] = "List"
      BY <1>6 DEF Uses
    <3>3. l < i
      BY <1>6, <3>1, <3>2 DEF Before
    <3>4. l \in Nat /\ i \in Nat /\ job[j].pc \in Nat
      BY <1>1, <3>1, <3>2, ScriptOf, RunningTyped
    <3>5. l < job[j].pc
      BY <3>1, <3>3, <3>4
    <3> QED
      BY <3>2, <3>5 DEF Past
  <2>3. op \notin Puts \cup Deletions \cup {"TryRemove"} /\ op \notin RowOps
    BY <1>1, <1>5, <1>8, <2>2, AfterListing
  <2>4. store' = store /\ rows' = rows
    BY <2>3, OwnStep DEF Puts
  <2>5. rows[<<c, n>>] > 0 <=> n \in Listing(c)
    BY <1>2, <2>1 DEF Shown
  <2> QED
    BY <1>3, <2>4, <2>5
<1> QED
  BY <1>7, <1>8

(* All jobs *)

LEMMA BeginsFresh ==
  ASSUME StoreTyped, job' \in [Jobs -> JobType], NEW j \in Jobs, Begins(j)
  PROVE  Results(job[j])'
<1>1. job'[j].pc = 1 /\ job'[j].action.steps \in Seq(Store!Ops)
  BY DEF Begins, JobType, Store!ActionType
<1>2. \A i \in DOMAIN job'[j].action.steps : ~(i < 1)
  BY <1>1
<1>3. ~Past(job'[j], Deletions) /\ ~Past(job'[j], {"Copy"}) /\ ~Past(job'[j], {"DropRow"})
      /\ ~Past(job'[j], {"List"}) /\ ~Past(job'[j], {"ShowAll"})
  BY <1>1, <1>2 DEF Past
<1> QED
  BY <1>3 DEF Results, Gone, Copied, Dropped, Listed, Shown

LEMMA OthersResults ==
  ASSUME ResultsInv, NEW j \in Jobs, JobStep(j), UNCHANGED family, NEW k \in Jobs \ {j},
         Store!Running(k), ~job[k].disturbed, ~job'[k].disturbed, Store!Running(j) \/ rows' = rows,
         rows' \in [Addresses -> Counts]
  PROVE  Results(job[k])'
<1>1. /\ StoreTyped /\ Results(job[k]) /\ job[k].from \in Addresses /\ job[k].to \in Addresses
      /\ \A n \in Names : <<job[k].from[1], n>> \in Addresses
  BY OwnAddresses DEF ResultsInv
<1>2. PICK q : q = job[k]
  OBVIOUS
<1>3. job'[k] = q
  BY <1>1, <1>2, Untouched
<1>4. \A a \in Addresses : a[1] \in {q.from[1], q.to[1]} =>
        /\ store'[a] = store[a]
        /\ rows'[a] = rows[a] \/ (rows'[a] <= rows[a] /\ Uses(job[j].action.steps, ByName))
  BY <1>1, <1>2, Untouched
<1>5. store'[q.from] = store[q.from] /\ store'[q.to] = store[q.to]
  BY <1>1, <1>2, <1>4
<1>6. \A ops : Past(q, ops)' <=> Past(q, ops)
  BY DEF Past
<1>7. PICK c : c = q.from[1]
  OBVIOUS
<1>8. ASSUME NEW n \in Names PROVE store'[<<c, n>>] = store[<<c, n>>]
  <2>1. <<c, n>> \in Addresses /\ <<c, n>>[1] = c
    BY <1>1, <1>2, <1>7
  <2> QED
    BY <1>4, <1>7, <2>1
<1>9. Listing(c)' = Listing(c)
  BY <1>8 DEF Listing
<1>10. Gone(q)' /\ Copied(q)' /\ Listed(q)'
  BY <1>1, <1>2, <1>5, <1>7, <1>9 DEF Results, Gone, Copied, Listed, Past, Uses
<1>11. Dropped(q)'
  <2>1. SUFFICES ASSUME ~Store!KeepsRuns, Past(q, {"DropRow"}) PROVE rows'[q.from] = 0
    BY DEF Dropped, Store!KeepsRuns, Past
  <2>2. rows[q.from] = 0
    BY <1>1, <1>2, <2>1 DEF Results, Dropped
  <2>3. rows'[q.from] \in Counts /\ (rows'[q.from] = 0 \/ rows'[q.from] <= 0)
    BY <1>1, <1>2, <1>4, <2>2
  <2> QED
    BY <2>3 DEF Counts
<1>12. Shown(q)'
  <2>1. SUFFICES ASSUME Past(q, {"ShowAll"}), NEW n \in Names
                 PROVE  rows'[<<c, n>>] > 0 <=> n \in Listing(c)'
    BY <1>7 DEF Shown, Past
  <2>2. rows[<<c, n>>] > 0 <=> n \in Listing(c)
    BY <1>1, <1>2, <1>7, <2>1 DEF Results, Shown
  <2>3. rows'[<<c, n>>] = rows[<<c, n>>]
    <3>1. CASE rows' = rows
      BY <3>1
    <3>2. CASE Store!Running(j)
      <4>1. job[j].action \in family /\ job[k].action \in family /\ family \in Families
        BY <1>1, <3>2, ScriptOf DEF StoreTyped
      <4>2. Uses(job[k].action.steps, {"ShowAll"})
        BY <1>2, <2>1, PastUses
      <4>3. ~Uses(job[j].action.steps, ByName)
        BY <4>1, <4>2, ShowsLast
      <4>4. <<c, n>> \in Addresses /\ <<c, n>>[1] = c
        BY <1>1, <1>2, <1>7
      <4> QED
        BY <1>4, <1>7, <4>3, <4>4
    <3> QED
      BY <3>1, <3>2
  <2> QED
    BY <1>9, <2>2, <2>3
<1> QED
  BY <1>3, <1>10, <1>11, <1>12 DEF Results, Gone, Copied, Dropped, Listed, Shown, Past, Listing, Uses

LEMMA SingleRowsStep ==
  ASSUME ResultsInv, NEW j \in Jobs, JobStep(j), UNCHANGED family, rows' \in [Addresses -> Counts]
  PROVE  SingleRows'
<1>1. Store!KeepsRuns' <=> Store!KeepsRuns
  BY DEF Store!KeepsRuns
<1> SUFFICES ASSUME ~Store!KeepsRuns, NEW a \in Addresses PROVE rows'[a] = 0 \/ rows'[a] = 1
  BY <1>1 DEF SingleRows
<1>2. rows[a] = 0 \/ rows[a] = 1
  BY DEF ResultsInv, SingleRows
<1>3. CASE WritesRows(j)
  <2>1. PICK op \in RowOps : Store!Doing(j, op) /\ RowsAfter(j, op)
    BY <1>3 DEF WritesRows
  <2>2. Store!Running(j) /\ StoreTyped
    BY <2>1, DoingIs DEF ResultsInv
  <2>3. op # "NewRow"
    <3>1. job[j].action \in family
      BY <2>2, ScriptOf
    <3> QED
      BY <2>1, <2>2, <3>1, DoingIs DEF Store!KeepsRuns
  <2>4. RowsMove(j, op, a, rows[a], rows'[a])
    BY <2>1, <2>2, RowEffects
  <2>5. rows'[a] \in Counts /\ (rows'[a] <= rows[a] \/ rows'[a] = 1)
    BY <2>3, <2>4 DEF RowsMove
  <2> QED
    BY <1>2, <2>5, RowsAreCounted DEF Counts
<1> QED
  BY <1>2, <1>3 DEF JobStep, Begins, Finishes, Looks, Lists, PutsAt, Takes

LEMMA ResultsStep ==
  ASSUME ResultsInv, [Store!Next]_storeVars
  PROVE  ResultsInv'
<1>1. StoreTyped /\ StoreTyped'
  BY StoreStepTyped DEF ResultsInv
<1>2. CASE UNCHANGED storeVars
  BY <1>1, <1>2 DEF ResultsInv, storeVars, SingleRows, Results, Gone, Copied, Dropped, Listed, Shown,
     Listing, Past, Uses, Store!KeepsRuns, Store!Running
<1>3. CASE Store!Next
  <2>1. job' \in [Jobs -> JobType] /\ family' = family /\ rows' \in [Addresses -> Counts]
    BY <1>1, <1>3, StoreStepIs DEF StoreTyped
  <2>2. PICK j \in Jobs : JobStep(j)
    BY <1>1, <1>3, StoreStepIs
  <2>3. SingleRows'
    BY <2>1, <2>2, SingleRowsStep
  <2>4. ASSUME Store!Running(j)', ~job'[j].disturbed PROVE Results(job[j])'
    <3>1. CASE Begins(j)
      BY <1>1, <2>1, <3>1, BeginsFresh
    <3>2. CASE Finishes(j)
      BY <2>4, <3>2 DEF Finishes, Store!Running
    <3>3. CASE Advances(j) /\ \E op : Store!Doing(j, op)
      <4>1. PICK op : Store!Doing(j, op)
        BY <3>3
      <4>2. Results(job[j])
        BY <1>1, <2>1, <2>4, <3>3, <4>1, AdvancesIs, DoingIs DEF ResultsInv
      <4> QED
        BY <2>1, <2>2, <3>3, <4>1, <4>2, OwnGone, OwnCopied, OwnDropped, OwnListed, OwnShown DEF Results
    <3> QED
      BY <2>2, <3>1, <3>2, <3>3 DEF JobStep, Looks, Lists, PutsAt, Takes, WritesRows
  <2>5. ASSUME NEW k \in Jobs \ {j}, Store!Running(k)', ~job'[k].disturbed PROVE Results(job[k])'
    <3>1. Alone(j) \/ Disturbs(j)
      BY <2>2 DEF JobStep, Begins, Finishes, Looks, Lists, PutsAt, Takes, WritesRows
    <3>2. Store!Running(k)
      BY <1>1, <2>5, <3>1, OthersAre DEF Store!Running
    <3>3. ~job[k].disturbed
      <4>1. job'[k] = job[k] \/ job'[k] = Disturbed(job[k])
        BY <1>1, <3>1, OthersAre
      <4>2. job[k] \in JobType
        BY <1>1 DEF StoreTyped
      <4>3. Disturbed(job[k]).disturbed
        BY <4>2 DEF Disturbed, JobType
      <4> QED
        BY <2>5, <4>1, <4>3
    <3>4. Store!Running(j) \/ rows' = rows
      BY <2>2 DEF JobStep, Begins, Finishes, Looks, Lists, PutsAt, Takes, WritesRows, Store!Doing
    <3> QED
      BY <2>1, <2>2, <2>5, <3>2, <3>3, <3>4, OthersResults
  <2> QED
    BY <1>1, <2>3, <2>4, <2>5 DEF ResultsInv
<1> QED
  BY <1>2, <1>3

LEMMA ResultsInit ==
  ASSUME Store!Init
  PROVE  ResultsInv
<1>1. StoreTyped
  BY StoreInitTyped
<1>2. \A j \in Jobs : ~Store!Running(j)
  BY IdleTyped DEF Store!Init, Store!Running
<1>3. \A a \in Addresses : rows[a] = 0 \/ rows[a] = 1
  BY DEF Store!Init, Addresses
<1> QED
  BY <1>1, <1>2, <1>3 DEF ResultsInv, SingleRows

\* A job succeeds at the end of its script, or where the script swallows a refusal.
LEMMA SucceedsIs ==
  ASSUME StoreTyped, Store!Next, NEW j \in Jobs, Store!Succeeds(j)
  PROVE  /\ Store!Running(j) /\ UNCHANGED <<store, rows>>
         /\ Store!AtEnd(j) \/ Uses(job[j].action.steps, Swallowing)
<1>1. job' \in [Jobs -> JobType] /\ Store!Running(j) /\ job'[j].result = "SUCCESS" /\ job[j].result = "none"
  BY StoreStepIs, RunningTyped DEF Store!Succeeds
<1>2. PICK k \in Jobs : JobStep(k)
  BY StoreStepIs
<1>3. k = j
  <2>1. Alone(k) \/ Disturbs(k)
    BY <1>2 DEF JobStep, Begins, Finishes, Looks, Lists, PutsAt, Takes, WritesRows
  <2> QED
    BY <1>1, <2>1, OthersAre
<1>4. ~(Advances(j) /\ \E op : Store!Doing(j, op))
  BY <1>1, AdvancesIs
<1>5. ~Begins(j)
  BY <1>1, RunningTyped DEF Begins
<1>6. Finishes(j)
  BY <1>2, <1>3, <1>4, <1>5 DEF JobStep, Looks, Lists, PutsAt, Takes, WritesRows
<1> QED
  BY <1>1, <1>6, UsesIt DEF Finishes, Swallowing

LEMMA MovesKeep ==
  ASSUME ResultsInv, Store!Next, NEW j \in Jobs, NEW a \in Addresses,
         Store!Steps(j), Store!Has(j, {"Copy"}),
         Store!From(j) # Store!To(j) \/ Store!Has(j, {"RemoveOther"}), ~job[j].disturbed,
         store[a] # Store!Nothing, store'[a] # store[a], a # Store!To(j) \/ Store!From(j) = Store!To(j)
  PROVE  \E b \in Addresses : store'[b] = store[a]
<1> DEFINE s == job[j].action.steps
<1>1. /\ StoreTyped /\ Store!Running(j) /\ job' \in [Jobs -> JobType] /\ s \in Scripts
      /\ Store!From(j) = job[j].from /\ Store!To(j) = job[j].to
      /\ job[j].from \in Addresses /\ job[j].to \in Addresses /\ store \in [Addresses -> Values]
  BY StoreStepIs, ScriptOf, RunningTyped DEF ResultsInv, Store!Steps, Store!From, Store!To, StoreTyped
<1>2. PICK k \in Jobs : JobStep(k)
  BY <1>1, StoreStepIs
<1>3. PutsAt(k) \/ Takes(k)
  BY <1>2 DEF JobStep, Begins, Finishes, Looks, Lists, WritesRows
<1>4. k = j
  BY <1>1, <1>3, OthersAre DEF Store!Steps, PutsAt, Takes
<1>5. PICK op : Store!Doing(j, op) /\ Advances(j) /\ op \in Writers \cup Removers
  BY <1>3, <1>4 DEF PutsAt, Takes
<1>6. /\ Before(s, {"Copy"}, Deletions) /\ ~Uses(s, (Puts \ {"Copy"}) \cup {"TryRemove"})
      /\ Uses(s, {"RemoveOther"}) => ~Uses(s, Deletions \ {"RemoveOther"})
      /\ Uses(s, {"Copy"})
  BY <1>1, CopiesFirst DEF Store!Has, Uses
<1>7. op \in {"Copy"} \cup Deletions
  <2>1. op \notin (Puts \ {"Copy"}) \cup {"TryRemove"}
    BY <1>1, <1>5, <1>6, UsesIt
  <2> QED
    BY <1>5, <2>1 DEF Puts, Deletions, Writers, Removers
<1>8. CASE op = "Copy"
  <2>1. store' = [store EXCEPT ![job[j].to] = store[job[j].from]]
    BY <1>1, <1>2, <1>4, <1>5, <1>8, OwnStep
  <2>2. a = job[j].to
    BY <1>1, <2>1
  <2> QED
    BY <1>1, <2>1, <2>2
<1>9. CASE op \in Deletions
  <2>1. /\ store' = [store EXCEPT ![job[j].from] = Store!Nothing]
        /\ op = "RemoveOther" => job[j].from # job[j].to
    BY <1>1, <1>3, <1>4, <1>5, <1>9 DEF PutsAt, Takes, Store!Doing, Writers, Deletions
  <2>2. a = job[j].from
    BY <1>1, <2>1
  <2>3. job[j].from # job[j].to
    <3>1. SUFFICES ASSUME job[j].from = job[j].to PROVE FALSE
      OBVIOUS
    <3>2. Uses(s, {"RemoveOther"})
      BY <1>1, <3>1 DEF Store!Has, Uses
    <3>3. op \notin Deletions \ {"RemoveOther"}
      BY <1>1, <1>5, <1>6, <3>2, UsesIt
    <3> QED
      BY <1>9, <2>1, <3>1, <3>3
  <2>4. Past(job[j], {"Copy"})
    BY <1>1, <1>5, <1>6, <1>9, DoneBefore
  <2>5. store[job[j].to] = store[a]
    BY <1>1, <2>2, <2>4 DEF ResultsInv, Results, Copied
  <2>6. store'[job[j].to] = store[job[j].to]
    BY <1>1, <2>1, <2>3
  <2> QED
    BY <1>1, <2>5, <2>6
<1> QED
  BY <1>7, <1>8, <1>9

\* A script that moves keeps what it moves.
THEOREM MovesLoseNothing == Store!Spec => MoveKeeps
<1>1. ResultsInv /\ [Store!Next]_storeVars =>
        [\A j \in Jobs : \A a \in Addresses :
           /\ Store!Steps(j) /\ Store!Has(j, {"Copy"})
           /\ Store!From(j) # Store!To(j) \/ Store!Has(j, {"RemoveOther"})
           /\ ~job[j].disturbed
           /\ store[a] # Store!Nothing /\ store'[a] # store[a]
           /\ a # Store!To(j) \/ Store!From(j) = Store!To(j)
           => \E b \in Addresses : store'[b] = store[a]]_storeVars
  BY MovesKeep
<1> QED
  BY <1>1, ResultsInit, ResultsStep, PTL
  DEF Store!Spec, MoveKeeps, Store!MoveKeeps, Addresses, storeVars, Store!vars

LEMMA DeletionsStay ==
  ASSUME ResultsInv, Store!Next, NEW j \in Jobs,
         Store!Succeeds(j), Store!Has(j, {"Remove", "RemoveAny", "RemoveOther"}), ~job[j].disturbed,
         Store!Has(j, {"RemoveOther"}) => Store!From(j) # Store!To(j)
  PROVE  ~Store!There(Store!From(j))
<1>1. Uses(job[j].action.steps, Deletions) /\ StoreTyped
  BY DEF Store!Has, Uses, Deletions, ResultsInv
<1>2. Store!Running(j) /\ (Store!AtEnd(j) \/ Uses(job[j].action.steps, Swallowing))
  BY <1>1, SucceedsIs
<1>3. Store!AtEnd(j)
  BY <1>1, <1>2, DeletesLast, ScriptOf
<1>4. Past(job[j], Deletions)
  BY <1>1, <1>2, <1>3, AllPast
<1> QED
  BY <1>2, <1>4 DEF ResultsInv, Results, Gone, Store!There, Store!From, Store!To, Store!Has, Uses

\* What a script reports as deleted is gone.
THEOREM DeletionsAreReal == Store!Spec => DeletedIsGone
<1>1. ResultsInv /\ [Store!Next]_storeVars =>
        [\A j \in Jobs :
           /\ Store!Succeeds(j) /\ Store!Has(j, {"Remove", "RemoveAny", "RemoveOther"}) /\ ~job[j].disturbed
           /\ Store!Has(j, {"RemoveOther"}) => Store!From(j) # Store!To(j)
           => ~Store!There(Store!From(j))]_storeVars
  BY DeletionsStay
<1> QED
  BY <1>1, ResultsInit, ResultsStep, PTL
  DEF Store!Spec, DeletedIsGone, Store!DeletedIsGone, storeVars, Store!vars

LEMMA RowsMatch ==
  ASSUME ResultsInv, Store!Next, NEW j \in Jobs, Store!Succeeds(j), ~job[j].disturbed
  PROVE  /\ Store!Has(j, Store!Removes) /\ Store!Has(j, {"DropRow"}) /\ ~Store!KeepsRuns =>
              rows[Store!From(j)] = 0 \/ Store!There(Store!From(j))
         /\ Store!Has(j, {"ShowAll"}) => \A n \in Names :
              rows[<<Store!From(j)[1], n>>] > 0 <=> Store!There(<<Store!From(j)[1], n>>)
<1> DEFINE s == job[j].action.steps
<1>1. StoreTyped /\ Store!Running(j) /\ (Store!AtEnd(j) \/ Uses(s, Swallowing)) /\ s \in Scripts
  BY SucceedsIs, ScriptOf DEF ResultsInv
<1>2. Results(job[j]) /\ Store!From(j) = job[j].from
  BY <1>1 DEF ResultsInv, Store!From
<1>3. ASSUME Store!Has(j, {"DropRow"}), ~Store!KeepsRuns PROVE rows[Store!From(j)] = 0
  <2>1. Uses(s, {"DropRow"})
    BY <1>3 DEF Store!Has, Uses
  <2>2. Past(job[j], {"DropRow"})
    BY <1>1, <2>1, DropsLast, AllPast
  <2> QED
    BY <1>2, <1>3, <2>2 DEF Results, Dropped
<1>4. ASSUME Store!Has(j, {"ShowAll"}), NEW n \in Names
      PROVE  rows[<<Store!From(j)[1], n>>] > 0 <=> Store!There(<<Store!From(j)[1], n>>)
  <2>1. Uses(s, {"ShowAll"})
    BY <1>4 DEF Store!Has, Uses
  <2>2. Past(job[j], {"ShowAll"})
    BY <1>1, <2>1, ShowsLast, AllPast
  <2> QED
    BY <1>2, <2>2 DEF Results, Shown, Listing, Store!There
<1> QED
  BY <1>3, <1>4

\* A script that deletes content and row leaves no row, and one that rewrites the
\* rows from a listing leaves those of the contents that are there.
THEOREM RowsAreOfContents == Store!Spec => RowsMatchTheStore
<1>1. ResultsInv /\ [Store!Next]_storeVars =>
        [\A j \in Jobs : Store!Succeeds(j) /\ ~job[j].disturbed =>
           /\ Store!Has(j, Store!Removes) /\ Store!Has(j, {"DropRow"}) /\ ~Store!KeepsRuns =>
                rows[Store!From(j)] = 0 \/ Store!There(Store!From(j))
           /\ Store!Has(j, {"ShowAll"}) => \A n \in Names :
                rows[<<Store!From(j)[1], n>>] > 0 <=> Store!There(<<Store!From(j)[1], n>>)]_storeVars
  BY RowsMatch
<1> QED
  BY <1>1, ResultsInit, ResultsStep, PTL
  DEF Store!Spec, RowsMatchTheStore, Store!RowsMatchTheStore, storeVars, Store!vars
-----------------------------------------------------------------------------
(* The approval hooks: what is proved of them, said of this instance of them *)

Hooked == INSTANCE ApprovalHooks_proofs WITH Users <- Approvers

LEMMA SameCardinality == \A S : Approvals!Cardinality(S) = Hooked!Cardinality(S)
  BY DEF Approvals!Cardinality, Hooked!Cardinality

LEMMA SameHooks == Approvals!Spec => Hooked!Spec
<1>1. Approvals!Init => Hooked!Init
  BY DEF Approvals!Init, Hooked!Init, Approvals!Anybody, Hooked!Anybody
<1>2. ASSUME NEW o \in Orders, Approvals!Submit(o) PROVE Hooked!Submit(o)
  BY <1>2 DEF Approvals!Submit, Hooked!Submit, Approvals!ExceedsQuotaLimit, Hooked!ExceedsQuotaLimit,
      Approvals!Anybody, Hooked!Anybody
<1>3. ASSUME NEW o \in Orders, NEW u \in Approvers, Approvals!Approve(o, u) \/ Approvals!Deny(o, u)
      PROVE  Hooked!Approve(o, u) \/ Hooked!Deny(o, u)
  BY <1>3 DEF Approvals!Approve, Hooked!Approve, Approvals!Deny, Hooked!Deny, Approvals!MayApprove,
      Hooked!MayApprove, Approvals!Anybody, Hooked!Anybody
<1>4. ASSUME NEW o \in Orders, Approvals!PostApproval(o) PROVE Hooked!PostApproval(o)
  <2>1. Approvals!Accepts(o) = Hooked!Accepts(o)
    BY SameCardinality DEF Approvals!Accepts, Hooked!Accepts, Approvals!AllGroupsApproved,
       Hooked!AllGroupsApproved, Approvals!ExceedsQuotaLimit, Hooked!ExceedsQuotaLimit
  <2>2. Approvals!NextQueue(o) = Hooked!NextQueue(o)
    BY DEF Approvals!NextQueue, Hooked!NextQueue, Approvals!AllGroupsApproved, Hooked!AllGroupsApproved
  <2> QED
    BY <1>4, <2>1, <2>2, Zenon DEF Approvals!PostApproval, Hooked!PostApproval
<1>5. ASSUME NEW o \in Orders, Approvals!Built(o) PROVE Hooked!Built(o)
  BY <1>5 DEF Approvals!Built, Hooked!Built
<1>6. Approvals!Next => Hooked!Next
  BY <1>2, <1>3, <1>4, <1>5 DEF Approvals!Next, Hooked!Next
<1>7. [Approvals!Next]_hooksVars => [Hooked!Next]_hooksVars
  BY <1>6
<1> QED
  BY <1>1, <1>7, PTL DEF Approvals!Spec, Hooked!Spec, hooksVars, Approvals!vars, Hooked!vars

LEMMA HooksTyped == Approvals!Spec => []Approvals!TypeOK
<1>1. Hooked!Spec => []Hooked!TypeOK
  BY CostsAreShares, Hooked!TypeCorrect
<1>2. Hooked!TypeOK => Approvals!TypeOK
  BY DEF Approvals!TypeOK, Hooked!TypeOK, Approvals!Queues, Hooked!Queues, Approvals!Anybody, Hooked!Anybody
<1> QED
  BY <1>1, <1>2, SameHooks, PTL

\* No order is started before the users its plug-in asks for have approved it.
THEOREM HooksWait == Approvals!Spec => EnoughApprovers
<1>1. Hooked!Spec => Hooked!EnoughApprovers
  BY Hooked!OrdersHaveTheirApprovers
<1>2. [\A o \in running' \ running :
         LET by == order[o].approvers
             share == used + order[o].cost
         IN  /\ plugin = "two_user" => Hooked!Cardinality(by) >= 2
             /\ plugin \in {"multi_group", "hierarchical"} => Hooked!Both(by)
             /\ plugin = "threshold" /\ running = {} /\ o \notin overtaken =>
                  /\ share >= 9 => Hooked!Both(by)
                  /\ share >= 5 => by # {}]_hooksVars
      => [\A o \in running' \ running :
            LET by == order[o].approvers
                share == used + order[o].cost
            IN  /\ plugin = "two_user" => Approvals!Cardinality(by) >= 2
                /\ plugin \in {"multi_group", "hierarchical"} => Approvals!Both(by)
                /\ plugin = "threshold" /\ running = {} /\ o \notin overtaken =>
                     /\ share >= 9 => Approvals!Both(by)
                     /\ share >= 5 => by # {}]_hooksVars
  BY SameCardinality
  DEF Approvals!Both, Hooked!Both, Approvals!AllGroupsApproved, Hooked!AllGroupsApproved
<1> QED
  BY <1>1, <1>2, SameHooks, PTL
  DEF EnoughApprovers, Approvals!EnoughApprovers, Hooked!EnoughApprovers, hooksVars, Approvals!vars, Hooked!vars

\* Under the hierarchical plug-in nobody who is of IT only approves before Finance has.
THEOREM FinanceStarts == Approvals!Spec => FinanceFirst
<1>1. Hooked!Spec => Hooked!FinanceFirst
  BY Hooked!FinanceComesFirst
<1>2. [plugin = "hierarchical" =>
         \A o \in Orders : \A u \in order'[o].approvers \ order[o].approvers :
           "Finance" \in GroupsOf[u] \/ Hooked!AllGroupsApproved(order[o].approvers, {"Finance"})]_hooksVars
      => [plugin = "hierarchical" =>
            \A o \in Orders : \A u \in order'[o].approvers \ order[o].approvers :
              "Finance" \in GroupsOf[u] \/ Approvals!AllGroupsApproved(order[o].approvers, {"Finance"})]_hooksVars
  BY DEF Approvals!AllGroupsApproved, Hooked!AllGroupsApproved
<1> QED
  BY <1>1, <1>2, SameHooks, PTL
  DEF FinanceFirst, Approvals!FinanceFirst, Hooked!FinanceFirst, hooksVars, Approvals!vars, Hooked!vars

(* The five components side by side *)

LEMMA PartsFollow == AllSpec => Approvals!Spec /\ Sync!Spec /\ Tools!Spec /\ Store!Spec /\ Spec
<1>1. AllInit => Approvals!Init /\ Sync!Init /\ Tools!Init /\ Store!Init /\ Init
  BY DEF AllInit
<1>2. [AllNext]_allVars => [Approvals!Next]_hooksVars
  BY DEF AllNext, allVars, HooksStep, UsersStep, ToolsStep, StoreStep, ConfigsStep
<1>3. [AllNext]_allVars => [Sync!Next]_usersVars
  BY DEF AllNext, allVars, HooksStep, UsersStep, ToolsStep, StoreStep, ConfigsStep
<1>4. [AllNext]_allVars => [Tools!Next]_toolsVars
  BY DEF AllNext, allVars, HooksStep, UsersStep, ToolsStep, StoreStep, ConfigsStep
<1>5. [AllNext]_allVars => [Store!Next]_storeVars
  BY DEF AllNext, allVars, HooksStep, UsersStep, ToolsStep, StoreStep, ConfigsStep
<1>6. [AllNext]_allVars => [Next]_vars
  BY DEF AllNext, allVars, HooksStep, UsersStep, ToolsStep, StoreStep, ConfigsStep, configVars
<1> QED
  BY <1>1, <1>2, <1>3, <1>4, <1>5, <1>6, PTL
  DEF AllSpec, Approvals!Spec, Sync!Spec, Tools!Spec, Store!Spec, Spec, hooksVars, Approvals!vars,
      usersVars, Sync!vars, toolsVars, Tools!vars, storeVars, Store!vars

\* Every reachable state of the five is well typed.
THEOREM AllTyped == ASSUME ConstantsTyped PROVE AllSpec => []AllTypeOK
<1>1. Spec => []TypeOK
  BY TypeCorrect
<1>2. Sync!Spec => []Sync!TypeOK
  <2>1. UsersInStep => Sync!TypeOK
    BY DEF UsersInStep, UsersTyped, Sync!TypeOK, SyncJobs, SyncSteps
  <2> QED
    BY <2>1, UsersInitInStep, UsersNextInStep, PTL DEF Sync!Spec, usersVars, Sync!vars
<1>3. Tools!Spec => []Tools!TypeOK
  <2>1. ToolsTyped => Tools!TypeOK
    BY DEF ToolsTyped, Tools!TypeOK, FileContents
  <2> QED
    BY <2>1, ToolsInitTyped, ToolsStepTyped, PTL DEF Tools!Spec, toolsVars, Tools!vars
<1>4. Store!Spec => []Store!TypeOK
  BY StoreInitTyped, StoreStepTyped, StoreTypes, PTL DEF Store!Spec, storeVars, Store!vars
<1> QED
  BY <1>1, <1>2, <1>3, <1>4, HooksTyped, PartsFollow, PTL DEF AllTypeOK

\* Side by side, each of the five keeps what it promises: the properties proved of
\* each alone hold of the installation that runs them all.
THEOREM AllKeepTheirPromises ==
  ASSUME ConstantsTyped
  PROVE  AllSpec =>
           /\ EnoughApprovers /\ FinanceFirst
           /\ []RolesFollowDirectory /\ GivenInOwnOU
           /\ []OriginalIsKept /\ []ClaimedIsFixed /\ []PassedStaysPassed /\ NamesStayBound
           /\ MoveKeeps /\ DeletedIsGone /\ RowsMatchTheStore /\ OtherRowsStay
           /\ []StoredIsRecent /\ AloneIsExact /\ OneValue
<1>1. Spec => []StoredIsRecent /\ AloneIsExact /\ OneValue
  BY NothingIsInvented, AloneChangesOne, SecondValueTakesTwo, PTL
<1> QED
  BY <1>1, PartsFollow, HooksWait, FinanceStarts, RolesAreOfTheRecord, RolesAreGivenInOwnOU,
     OriginalsAreKept, ClaimedFilesAreFixed, PassedFilesStayClean, FixedNamesAreBound,
     MovesLoseNothing, DeletionsAreReal, RowsAreOfContents, RowsOfOthersStay, PTL
=============================================================================
