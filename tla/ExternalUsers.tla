---------------------------- MODULE ExternalUsers ----------------------------
(***************************************************************************)
(* The hooks "external user sync" and "login"                              *)
(* (src/actions/cloudbolt_plugins/external_user_sync and                   *)
(* add_users_to_default_group_on_login): for each user of a list, a hook   *)
(* reads the user's record in the directory (LDAP), takes the user's roles *)
(* in some groups away and gives out those the record calls for.  One hook *)
(* is installed; its job may die between any two users, groups or roles.   *)
(***************************************************************************)
EXTENDS Sequences, Functions

CONSTANTS
    Hooks,       \* the hooks that may be installed: among "ou", "metal", "static", "default"
    Users,
    Groups,      \* names of CloudBolt groups
    Mapping,     \* GROUP_MAPPINGS: directory group -> [cb_group, roles]
    OtherCase,   \* directory groups that are mapped but for their case
    Trees,       \* bound: the groups there are at first
    FirstRoles,  \* bound: the roles that users hold at first
    FirstAdmins, \* bound: the administrators there are at first
    MaxUsers,    \* bound: users in the list of a job
    Records      \* bound: Records[u]: records the user may have in the directory

VARIABLES
    hook,        \* the installed hook
    directory,   \* directory[u]: the user's record
    tree,        \* tree[g]: the parent of the group
    roles,       \* roles[u]: pairs of a group and a role
    admins,      \* users with super_admin, environment_admin and is_superuser
    job,         \* the running hook: users to do, the record read, the loop variable group
    synced       \* history: the record by which the user was synchronised

vars == <<hook, directory, tree, roles, admins, job, synced>>

Top == "Top"           \* parent of a group at the top
Absent == "Absent"     \* parent of a group that does not exist; no group
Unknown == [ou |-> <<>>, memberOf |-> {"no record"}]   \* the search finds nothing
NoAttribute == {"no memberOf"}

Metals == {"Silver", "Bronze", "Gold"}
DefaultGroup == "Default Group"
Special == {"requestors", "approvers", "user_admins", "resource_admins"}
Roles == Special \cup {"viewers"}

TypeOK ==
    /\ hook \in Hooks
    /\ \A u \in Users : {directory[u], synced[u]} \subseteq Records[u] \cup {Unknown}
    /\ tree \in [Groups -> Groups \cup {Top, Absent}]
    /\ roles \in [Users -> SUBSET (Groups \X Roles)]
    /\ admins \subseteq Users
    /\ job.pc \in {"idle", "fetch", "path", "revoke", "grant"}
    /\ job.group \in Groups \cup {Absent}
-----------------------------------------------------------------------------
\* "CB-Requestors" in lgroup ..., in the group of the user's OU
OuRoles == {<<"CB-Requestors", "requestors">>, <<"CB-Approvers", "approvers">>,
            <<"CB-GroupManagers", "user_admins">>, <<"CB-ResourceManagers", "resource_admins">>}

\* The security groups of the action's inputs: roles in all metal groups, or the
\* role of a requester in the one that is named.
MetalRoles(d) ==
    {gr \in Metals \X Roles :
       \/ d \in Roles \ {"requestors"} /\ gr[2] = d
       \/ d = "Requesters-Gold" /\ gr = <<"Gold", "requestors">>}

\* What the directory group d gives to a member.
Grants(d, group) ==
    CASE hook = "ou" -> {group} \X {r \in Special : <<d, r>> \in OuRoles}
      [] hook = "metal" -> MetalRoles(d)
      [] hook = "static" -> IF d \in DOMAIN Mapping
                            THEN {Mapping[d].cb_group} \X (Mapping[d].roles \cup {"viewers"})
                            ELSE {}
      [] OTHER -> {}

Members(record) == record.memberOf \ NoAttribute

User == Head(job.todo)
Without(u, groups) == {gr \in roles[u] : gr[1] \notin groups \/ gr[2] \notin Special}

NoJob == [pc |-> "idle", todo |-> <<>>, data |-> Unknown, path |-> <<>>, parent |-> Top,
          group |-> Absent, rest |-> {}]
NextUser(group) ==
    IF Len(job.todo) = 1 THEN NoJob
    ELSE [NoJob EXCEPT !.pc = "fetch", !.todo = Tail(job.todo), !.group = group]
Fail == job' = NoJob

Start(users) ==
    /\ job.pc = "idle"
    /\ job' = [NoJob EXCEPT !.pc = "fetch", !.todo = users]
    /\ UNCHANGED <<hook, directory, tree, roles, admins, synced>>

\* Groups that do not exist yet are created at the top.
AtTop(groups) == [g \in Groups |-> IF g \in groups /\ tree[g] = Absent THEN Top ELSE tree[g]]

\* A user without a record fails the job, whoever comes after.
Fetch ==
    /\ job.pc = "fetch" /\ hook # "default"
    /\ synced' = [synced EXCEPT ![User] = Unknown]
    /\ IF directory[User] = Unknown THEN Fail /\ UNCHANGED tree
       ELSE /\ tree' = AtTop(IF hook = "metal" THEN Metals ELSE {})
            /\ job' = [job EXCEPT !.pc = IF hook = "ou" THEN "path" ELSE "revoke",
                         !.data = directory[User], !.path = directory[User].ou, !.parent = Top]
    /\ UNCHANGED <<hook, directory, roles, admins>>

ClimbAnywhere ==
    /\ job.pc = "path" /\ job.path # <<>>
    /\ LET g == Head(job.path) IN
       /\ tree' = [tree EXCEPT ![g] = IF @ = Absent THEN job.parent ELSE @]
       /\ job' = [job EXCEPT !.group = g, !.parent = g, !.path = Tail(@)]
    /\ UNCHANGED <<hook, directory, roles, admins, synced>>

\* The groups along the path of the user's OUs are created as needed; one that has
\* another parent belongs to a duplicate OU, and the user is skipped.
Climb ==
    /\ job.pc = "path" /\ job.path # <<>>
    /\ LET g == Head(job.path) IN
       IF tree[g] \in {Absent, job.parent}
       THEN /\ tree' = [tree EXCEPT ![g] = job.parent]
            /\ job' = [job EXCEPT !.group = g, !.parent = g, !.path = Tail(@)]
       ELSE job' = NextUser(g) /\ UNCHANGED tree
    /\ UNCHANGED <<hook, directory, roles, admins, synced>>

\* At the end of the path; without any OU so far the variable group is unbound.
Arrive ==
    /\ job.pc = "path" /\ job.path = <<>>
    /\ IF job.group = Absent THEN Fail ELSE job' = [job EXCEPT !.pc = "revoke"]
    /\ UNCHANGED <<hook, directory, tree, roles, admins, synced>>

\* The roles are taken away first.  The hook "static" does so group by group.
Revoke ==
    /\ job.pc = "revoke"
    /\ roles' = [roles EXCEPT ![User] =
         CASE hook = "ou" -> Without(User, {job.group}) \cup {<<job.group, "viewers">>}
           [] hook = "metal" -> Without(User, Metals)
           [] OTHER -> @]
    /\ IF hook = "metal" /\ job.data.memberOf = NoAttribute
       THEN /\ job' = NextUser(job.group)
            /\ synced' = [synced EXCEPT ![User] = job.data]
       ELSE /\ job' = [job EXCEPT !.pc = "grant", !.rest = Members(job.data)]
            /\ UNCHANGED synced
    /\ UNCHANGED <<hook, directory, tree, admins>>

\* One directory group of the user after the other.
Grant(d) ==
    /\ job.pc = "grant" /\ d \in job.rest
    /\ IF hook = "static" /\ d \in OtherCase
       THEN Fail /\ UNCHANGED <<tree, roles, admins>>          \* KeyError
       ELSE LET given == Grants(d, job.group)
                reset == IF hook = "static" THEN {gr[1] : gr \in given} ELSE {}
            IN  /\ roles' = [roles EXCEPT ![User] = Without(User, reset) \cup given]
                /\ tree' = AtTop(reset)
                /\ admins' = IF hook = "metal" /\ d = "CB-Admins" THEN admins \cup {User} ELSE admins
                /\ job' = [job EXCEPT !.rest = @ \ {d}]
    /\ UNCHANGED <<hook, directory, synced>>

EndUserEarly ==
    /\ job.pc = "grant"
    /\ admins' = IF hook = "metal" /\ "CB-Admins" \notin job.data.memberOf
                 THEN admins \ {User} ELSE admins
    /\ synced' = [synced EXCEPT ![User] = job.data]
    /\ job' = NextUser(job.group)
    /\ UNCHANGED <<hook, directory, tree, roles>>

EndUser ==
    /\ job.pc = "grant" /\ job.rest = {}
    /\ admins' = IF hook = "metal" /\ "CB-Admins" \notin job.data.memberOf
                 THEN admins \ {User} ELSE admins
    /\ synced' = [synced EXCEPT ![User] = job.data]
    /\ job' = NextUser(job.group)
    /\ UNCHANGED <<hook, directory, tree, roles>>

\* The login hook: a resource administrator is left alone; without the group it fails.
JoinDefaultGroup ==
    /\ job.pc = "fetch" /\ hook = "default"
    /\ IF tree[DefaultGroup] = Absent THEN Fail /\ UNCHANGED roles
       ELSE /\ roles' = [roles EXCEPT ![User] =
                 IF <<DefaultGroup, "resource_admins">> \in @ THEN @
                 ELSE (@ \cup {DefaultGroup} \X {"requestors", "approvers"})
                        \ {<<DefaultGroup, "viewers">>}]
            /\ job' = NextUser(job.group)
    /\ UNCHANGED <<hook, directory, tree, admins, synced>>

Die ==
    /\ job.pc # "idle" /\ Fail
    /\ UNCHANGED <<hook, directory, tree, roles, admins, synced>>

(* External: the directory changes *)
ChangeRecord(u) ==
    /\ \E r \in Records[u] \ {directory[u]} : directory' = [directory EXCEPT ![u] = r]
    /\ UNCHANGED <<hook, tree, roles, admins, job, synced>>
-----------------------------------------------------------------------------
Init ==
    /\ hook \in Hooks
    /\ directory \in [Users -> UNION {Records[u] : u \in Users}]
    /\ \A u \in Users : directory[u] \in Records[u]
    /\ tree \in Trees
    /\ roles \in FirstRoles /\ admins \in FirstAdmins
    /\ job = NoJob
    /\ synced = [u \in Users |-> Unknown]

Lists == UNION {Injection(1..n, Users) : n \in 1..MaxUsers}

Next ==
    \/ \E users \in Lists : Start(users)
    \/ Fetch \/ Climb \/ Arrive \/ Revoke \/ EndUser \/ JoinDefaultGroup \/ Die
    \/ \E d \in job.rest : Grant(d)
    \/ \E u \in Users : ChangeRecord(u)

Spec == Init /\ [][Next]_vars
-----------------------------------------------------------------------------
(* Properties *)

Last(path) == path[Len(path)]

\* The groups in which the record decides about the special roles.
Managed(record) ==
    CASE hook = "ou" -> {Last(record.ou)}
      [] hook = "metal" -> Metals
      [] OTHER -> {Mapping[d].cb_group : d \in Members(record) \cap DOMAIN Mapping}

Entitled(record) ==
    {gr \in UNION {Grants(d, Last(<<Top>> \o record.ou)) : d \in Members(record)} : gr[2] \in Special}

\* The record is one the hook can carry out: the user has an OU, no two of the
\* user's directory groups are mapped to one CloudBolt group, memberOf is there.
Plain(record) ==
    CASE hook = "ou" -> record.ou # <<>>
      [] hook = "static" -> \A d, e \in Members(record) \cap DOMAIN Mapping :
                              Mapping[d].cb_group = Mapping[e].cb_group => d = e
      [] OTHER -> record.memberOf # NoAttribute

\* "Any permissions that the user should not have [...] will be removed"
\* (parameterized_metal_user_sync.py:27): a user who was synchronised holds, in the
\* groups the hook manages, the special roles of the record that was read, all of
\* them and no others, and is an administrator only by it - whatever died before.
RolesFollowDirectory ==
    \A u \in Users : LET record == synced[u] IN record # Unknown /\ Plain(record) =>
      /\ {gr \in roles[u] : gr[1] \in Managed(record) /\ gr[2] \in Special} = Entitled(record)
      /\ hook = "metal" => (u \in admins <=> "CB-Admins" \in record.memberOf)

\* Roles are given in the group that "matches the user's current OU"
\* (user_group_perm_sync_from_ldap.py:9): its ancestors are the OUs of the record,
\* not a group of the same name elsewhere - for a user who has an OU.
GivenInOwnOU ==
    [][hook = "ou" /\ job.data.ou # <<>> => \A u \in Users : \A gr \in roles'[u] \ roles[u] :
         LET ou == job.data.ou IN
           /\ gr[1] = Last(ou)
           /\ \A i \in DOMAIN ou : tree[ou[i]] = IF i = 1 THEN Top ELSE ou[i - 1]]_vars
=============================================================================
