# Specifications of the CloudBolt Forge

The Forge is a collection of extensions that run inside the CloudBolt platform:
blueprints (scripts that build, tear down and discover resources in a cloud),
plug-ins called at hook points, rules, and UI extensions (Django views and
models). The platform itself is not in the repository; where an extension calls
it, the specifications model it from that use and PROJECT.json marks the
definition external.

Most of the code is short and sequential. What is hard about it is what happens
around it: web workers that load the same order at once, recurring jobs that
meet a user's click, asynchronous jobs that finish whenever they like, scripts
that die between telling the cloud and telling the database, discovery that
looks at the cloud while a build is half done. That is what is modelled.

## Inventory

| Component | State | Operations | Meets | What is hard |
|---|---|---|---|---|
| Multilevel approvals (`ui_extensions/multilevelapprovals`) | the order row, one `<role>_approver_id` per level, job records | submit, approve, cancel, clear of `modify()`; `approve()`, `start_approval_process()` | the job engine, hooks, other requests | copies of the row loaded before a decision and saved after it; check-then-sign; a role without a level; a killed worker |
| Scheduled snapshots (`ui_extensions/scheduled_snapshots`, plug-in `delete_snapshot`) | snapshots of a server, its maximum and schedule, delete jobs | hourly job, snapshot by hand, edit forms, delete all | delete jobs of the platform | count, list and delete are three steps; two creators at once; the maximum changes; 0 as a maximum |
| Health check rule (`rules/health_checks`) | attempts, failures, the report handed to the action | `check`, `ResourceHealthAlert` | HTTP services | the retry loop and its count; two scripts that meet in a dictionary |
| Git management (`how_do_i_videos/write_a_cloudbolt_xui/git_management`) | git configurations, a branch on GitHub or GitLab | export one, export many; add, edit, delete a configuration or token | the git service, other requests | several reads before one write; one JSON value for all configurations; listings of another branch or of one page; partial failure |
| Blueprints (`blueprints/*/{create,delete,sync}.py`) | fields of the resource, objects in the cloud | build, teardown, discovery | the cloud, discovery of the same blueprint, other users of the account | the order of save and create; retries of a half-done teardown; identifiers that are not unique; fields that discovery leaves out |
| Blueprint management actions (`blueprints/*/management`) | what is inside a resource: objects, snapshots, volumes; CloudBolt's rows for it | copy, move, rename, delete, upload, list, attach, run | the provider, each other, other jobs on the same container | a move is a copy and a deletion; rows found by name alone; a refusal swallowed |
| Approval hooks (`actions/cloudbolt_plugins/multi_user_approval`, `auto_approve_all_orders_below_a_threshold`) | the order's approvers and queue, the quota | submission and post-approval hooks | approvals, the jobs that fill the quota | an order put back to PENDING; two orders below one threshold |
| External user sync (`actions/cloudbolt_plugins/external_user_sync`, `add_users_to_default_group_on_login`) | groups, roles in them, administrators | four hooks over a list of users | the directory, a job that dies | roles taken away before they are given; a loop variable that outlives its user |
| Upgrade tools (`scripts/django52_python312_compatibility_check`) | customer files, one backup directory, the report | scan, fix, fix from a report | users who save plug-ins, each other | files rewritten in place; patterns that read what others left |
| Expiration (`power_off_then_delete_expired_servers`, `extend_expiration_date`...) | expiration date, power state | recurring jobs | the user who extends | grace period against extension |
| Old sync jobs (`rules/find_and_delete_old_sync_jobs`) | job records | find, delete | the job engine | found, then deleted later |
| Other plug-ins, remote scripts, webhooks | mostly none | one call each | many APIs | little |
| Other UI extensions | mostly none | show what an API says | many APIs | little |
| `scripts`, `shared_modules`, `getting_started`, `api`, `docs`, `internal` | none | utilities, examples, text | | |

For each modelled component the properties that make it correct are listed with
its run below; PROJECT.json lists the hazards at their lines.

## Modules

### OrderApproval, ApprovalContract

`OrderApproval` is `modify()` (views.py) and the `CustomOrder` it works on
(models.py). A web worker `w` loads the row (`Open`) and carries that copy
through the steps of the request: `req[w].row` is the copy, `req[w].pc` the next
step, `req[w].after` where `approve_my_grms` returns to. `Save` writes the
whole copy, as Django does. The approver ids (`level`), the order items and the
jobs are rows of their own and read when used. `Collect` and `Record` are the
two halves of `approve_my_grms`: read what is unsigned, then sign it. A role of
the user's that the order has no level for raises `DoesNotExist` in the middle
of that loop: what was read before it is signed and the request ends.
`Activate` is the quota check, the filter of order items and the save of
ACTIVE; `Hook` and `Launch` follow; `Crash` may come anywhere.

Assumed of the platform: the order that `modify` loads is a `CustomOrder`;
`submit()` refuses an order that is not in the cart; `cancel()` acts on orders
in the cart or pending; the job engine ends an order only when its jobs are
done, which is not while a worker is still creating them.

`ApprovalContract` is what one wants of an approval with no request in sight:
decided once, jobs created once, only while active. While no two requests
overlap the detailed specification implements it (`SerialContract`). The
history variable `overlapped` says whether they have; when they have, the
contract is broken, which the run `order_twice` shows.

### ScheduledSnapshots

A creator is the recurring job or a web worker with the form; both create,
count, read the maximum, list again and hand the excess to a delete job
(`Create`, `Count`, `Trim`). They differ where the code does: the job falls
back to its input when there is no maximum and takes 0 for a number, the form
takes 0 for none. Snapshots are numbered by date. A delete job deletes one
snapshot at a time, in no order, and may fail. `lowest` is a history variable.

### HealthChecks

`resource_health_checks.check` step by step (`NextResource`, `NextCheck`,
`Probe`, `Count`) and the action (`Alert`), which reads the report as a
dictionary. A configuration is the sequence of `max_retries` of its checks; an
invalid one is the empty sequence. `requested` counts the HTTP requests of the
current check and `down` collects the resources with a check that failed at
each of them: the truth that the report should tell.

### GitExport

A branch is a chain of commits, each with a tree: the files below the directory
of each content item. GitHub exports read the head, list the *default* branch,
create tree and commit, and move the branch with a request that only takes a
fast-forward; GitLab exports ask for each file, list one page of the directory
and post one set of actions, which the service applies to the branch as it is
then, all or none. Any step may fail. Items of one export are committed one by
one and reported together at the end.

### ResourceLifecycle, Blueprints

`ResourceLifecycle` runs scripts: a blueprint is data, the steps of `create.py`
and `delete.py` that change the resource or the cloud, in their order, and what
`sync.py` returns. `Blueprints` is the table: three rows for each blueprint
(`<Name>Create`, `<Name>Delete`, `<Name>Sync`), each translated from that
script. The steps:

| Step | Code |
|---|---|
| `Save` | `resource.<field> = ...; resource.save()` |
| `TryMake`, `TryDrop` | the call inside a `try` whose `except` only logs: success is reported whatever happened |
| `Check`, `Warn` | the script looks whether the object is there, and returns FAILURE or WARNING |
| `Make` | a create call that is refused when the name is taken |
| `Upsert` | `create_or_update` and calls like it, which take over what is there |
| `GiveUp` | `return` with no value |
| `Forget` | `resource.delete()` after an error |
| `Need` | the fields delete.py reads; a missing one raises |
| `Drop`, `DropIfThere` | a delete call for which an absent object is an error, or is none |
| `DropNearest` | delete the first object that a listing from the name on returns (DNS records) |

Fields are abstracted to what they do: `name` (what the script names the object
by), `place` (region, resource group, server, account), `handler` (the id of
the resource handler or the account key), `alias` (a field only discovery's
identifier uses). `cloud` remembers who made each object, which no code knows.
A job dies at any step, and its resource counts as failed; a failed resource
may be torn down. Discovery lists any part of the cloud (`Discover`), errors
being skipped by the scripts, and the platform handles one find at a time:
`Refresh` writes the fields to a resource that has the same identifier,
`Import` makes a new resource, `Abandon` is a discovery job that fails.

Assumed of the platform: SUCCESS, WARNING, an empty status and no return value
all count as done; create and delete of one resource never overlap; discovery
compares with resources that are not historical. Assumed of the clouds: an
accepted deletion is carried out; ids that a cloud generates are unique.

The properties are stated for scripts of a kind, so that they hold for the whole
table and say what a script must do to deserve them. The kinds are defined in
`Scripts`, as conditions on the three scripts that can be read off them;
`IsOrderly` collects what the properties take of a blueprint, and MCLifecycle
asks TLC to find every row of the table orderly. For example:

* Scripts that save the fields first (`RecordsFirst`) lose nothing
  (`NothingIsLost`) and have no twin imported (`NoImportedTwin`). The price: a
  build that was refused because the name is taken leaves a failed resource
  whose teardown deletes the object of somebody else.
* Scripts that save last (`RecordsLast`), or whose address the cloud generates,
  and delete by the address they recorded, spare what is not theirs
  (`ForeignIsSpared`). The price: a job that dies
  between leaves an object nobody knows of, and discovery may import an object
  whose build is still running.
* Nothing holds for resources whose address discovery has overwritten (`moved`):
  identifiers such as `table_name`, `db_identifier` or `azure_database_name`
  leave out the region, the group or the server.

The engine knows three kinds of names an imported resource may carry: the right
one, none, and one that is not the object's (`misnamed`): discovery of virtual
networks joins the resource group to the name that delete.py passes on, so the
teardown of an import reaches nothing and succeeds. `GoneIsGone` holds for the
others. A few scripts have details the table does not show: the discovery of GKE
clusters returns an empty list when one project fails, CloudFormation's lists
stacks that are deleted already, and `verify_resource` of the Databricks and
data factory scripts is never false.

### Contents, ContentActions

What a user does with the contents of a resource. As for blueprints, a script is
data: `ContentActions` has one row for each, grouped by blueprint, and
`Contents` runs them, two jobs at once. A content is named by where it was first
or by the job that uploaded it, so that a copy is told apart from a new object.
`rows` are CloudBolt's own rows (or the list in a field) for what is there.

| Step | Code |
|---|---|
| `Need`, `Free`, `NeedRow` | the script looks, and gives up if in vain |
| `Copy`, `Put` | the provider copies, an upload replaces |
| `New`, `NewUnique`, `TryNewUnique` | a creation refused when the name is taken in the container, or anywhere; `Try`: the refusal is swallowed |
| `Remove`, `RemoveAny`, `RemoveOther`, `TryRemove` | a deletion; absent objects are an error, or none; nothing is deleted when source and destination are one; errors are swallowed |
| `AddRowOnce`, `MoveRow`, `NewRow` | `get_or_create` by name alone, and with the parent set afterwards; a row more |
| `DropRow`, `DropAnyRow` | the row of this container, or the first of that name |
| `List`, `ShowAll`, `ShowNew`, `ShowOnce`, `ShowMoved` | a listing, and the rows made to agree with it, in the four ways of the code |

What the code does that the properties except, each named where it is excepted:
gcp_storage moves and renames without comparing source and destination, so a
rename to the same name, or a move into the same bucket, deletes the object and
reports SUCCESS. Rows that are looked up by name alone (`AddRowOnce`, `MoveRow`,
`DropAnyRow`, `ShowOnce`, `ShowMoved`) are those of any container: listing one
database takes over the row another one has (`OtherRowsStay` excepts the three that
move or delete such a row). Deleting a pipeline leaves the rows
of its runs. maria_db catches the refusal of RDS and drops the row. An object
replaced between the copy and the deletion of a move is lost (`disturbed`).
Below the model: the S3 listing stops at 1000 objects; copy_s3_object.py copies
a hard-coded object (`Steve`); azure add_blob.py takes any answer for an error;
attach_to_instance.py reads a cached list of attachments and may raise before it
saves its row.

### ApprovalHooks

One plug-in of the directory is installed (`plugin`). `Submit` and `PostApproval`
are its two trigger points; in between the platform's `Approve` saves the status
first and asks the plug-in afterwards, which may put the order back to PENDING.
The quota counts an order when its jobs have built it (`Built`), so orders that
are decided meanwhile see too small a share: the threshold is promised only to
orders that no build overtakes (`overtaken`).

### ExternalUsers

The hooks walk a list of users: `Fetch` a record, `Climb` the path of its OUs and
create groups, `Revoke`, `Grant` one directory group after the other, `EndUser`;
`JoinDefaultGroup` is the login hook. `synced` remembers the record by which a
user was last synchronised to the end. Not promised, since the code does not keep
it: a user without OU gets roles in the group of the user before, or fails the
job if there is none; two directory groups mapped to one CloudBolt group (the
second takes away what the first gave); a record without `memberOf`, which leaves
administrators what they are; viewers, which are never taken away. A directory
group that is mapped but for its case passes `is_mapped_to_cloudbolt` and raises
KeyError at the lookup.

### CompatibilityTools, CompatibilityPatterns

`CompatibilityPatterns` has the tables of the scanner and of the fixer; a
construct stands for the text a pattern matches, and `Replacement` is what the
fixer's patterns, each after the other, make of it. `CompatibilityTools` runs the
tools over files that users save meanwhile: `PickFile` reads, `CreateBackup`
copies what is there *then*, `Write` replaces what is there with the fixed form
of what was read. A save in between is lost, and is in the backup if it came
before the copy. Names of imports and of uses are `Binders` and `Users`, from
which `NamesStayBound` is judged; the constructs it excepts are those the
documentation leaves to be done by hand (`ByHand`) and those no pattern follows
(`NotFollowed`), for instance a call of url() with a plain string: the import is
rewritten and the call is not.

What the code does beside its documentation: a backup that fails is logged and
the file is rewritten all the same, where README_compatibility_check.md:103 says
one can always restore; two paths that flatten to one name share a backup, and
an edit within the second of a backup overwrites it (a bound keeps both out of
the run); `serializers.NullBooleanField()` is caught by an earlier pattern for
models; a comment that a fix leaves is reported by the scanner again.

### GitConfigs

A custom field value of the administrator holds all configurations as one JSON
object. `Submit` to `Save` is one request: read the object, change the copy,
look the value up again, write the copy. Two requests at once undo each other's
change; the model states what is left of it: a request that was alone changes
just what it names (`AloneIsExact`), nothing older than the overlap comes back
(`StoredIsRecent`), and only requests that met can create the value twice
(`OneValue`), after which every request raises until somebody deletes one.
Editing under a new name makes a copy; a configuration called "user" is hidden
by the key that makes values unique. `get_or_create` is taken as atomic.

### Extensions

The five components above side by side in one installation: `Extensions` extends
GitConfigs and takes the others as instances (`Approvals`, `Sync`, `Tools`,
`Store`). They share no state, so a step (`AllNext`) is a step of one of them.
The module also names what the theorems assume of the tables: the order of the
steps in the scripts of management actions (`DeletesLast`, `CopiesFirst`,
`DropsLast`, `ShowsLast`), and what the fixer's patterns make of a construct
(`FixesAreFinal`, `FixesAgree`). Each is true of the code as translated: TLC
evaluates them over the whole tables whenever the run `extensions` starts.

## Runs

| Run | Shows | Bounds |
|---|---|---|
| `order_approval` | `TypeOK`; nobody signs for a role they do not hold; a click on Approve starts an order only with every level signed; signatures stand while requests do not overlap; the contract is implemented while they do not | 2 workers, 3 users, 3 roles, seven set-ups (`MCConfigs`), quantity 2, 3 jobs |
| `order_twice` (violated) | "Only orders that are in 'PENDING' state can be approved" | a single-level order, 2 workers |
| `order_partial` (violated) | "Multilevel approvals not complete" is never answered | two groups that do not cover the levels |
| `snapshots` | oldest first; a server keeps its maximum; excess is bounded by the creators in flight; trimmed only after a creation | 1 server, 2 requests and the job, maxima {0, 1, 2}, 3 snapshots, one edit, one fault, one bulk deletion at most (see MCSnapshots.cfg) |
| `snapshots_zero` (violated) | "Will default to Recurring Job value" | the same, maximum 0 |
| `health_checks` | requests are bounded, a report covers every resource, the rule ends | 2 resources, 2 checks, up to 2 retries |
| `health_alerts` (violated) | "the action will send alerts when health checks fail" | the same |
| `git_export` | a reported commit stays on the branch; other items are untouched; an export is exact where the listing is that of the branch and fits a page | 2 exporters, 2 items of 2 files, 4 commits, 1 edit, page of 1 entry |
| `git_branch` (violated) | "Remove files from the tree that have been deleted" | the same |
| `lifecycle_dns` (violated) | "make sure we have the correct data": a second teardown of a DNS record deletes the next record of the zone | the DNS blueprint, 2 resources, 2 names, 1 zone |
| `lifecycle` | the properties above, an active resource can be deleted, and what a teardown reports as deleted is gone | every blueprint of the table, 2 resources, 1 name, 2 places, at most one foreign object |
| `extensions` | approvers as many as the plug-in asks for, Finance first; roles follow the directory, given in the user's own OU; originals are kept, a file counted as fixed is, a passed file stays passed, names stay bound; a move keeps, a deletion deletes, rows match the store and leave other containers alone; configurations as above | five components that share nothing, one per behaviour (`part`): 2 orders, 4 users, 3 costs, 5 plug-ins; 2 users, 5 records, 2 trees of 6 groups, 4 hooks; 2 files, 7 sets of related constructs, 2 runs, 2 seconds; 2 containers, 2 names, 2 jobs, every blueprint with management actions; 2 configurations, 2 requests, 4 changes |

In `extensions` (module MCExtensions) a part that rests keeps one of its initial
states, so the run is the union of five; it takes two to three minutes. Costs lie
below, at and above half the quota and at its end. One user starts with roles that
no record calls for. The related constructs are those whose patterns meet in one
name or one line; constructs of different sets share no name. A container starts
with two contents, or one and a row. The two orders, jobs and requests may be
exchanged (`Alike`): no formula tells them apart.

Two actors suffice where a property speaks of two: each race here is one actor
between two steps of another, and a third adds no new order of those steps.
Two places and one name are enough for the collisions of addresses: same
address, same name elsewhere, other place. The bound on jobs is one above the
quantity, so that a second start shows. Symmetry is used for web requests,
exporters and resources, which no formula tells apart, and only in runs
without liveness. Deadlock is switched off where the system comes to rest: a
finished rule, exporters that have used up their requests, resources all
deleted.

Each property of a passing run has a mutant in PROJECT.json: a definition
changed the way a slip in that code would change it, under which TLC finds the
property violated. The mutated forms stand next to the definitions they replace
and are used nowhere else.

## Fairness

Only `HealthChecks` states fairness, `WF_vars(Next)`: its run is one thread of a
job, each loop of the code is bounded, and a request is cut off by its timeout.
Nothing in the repository makes an order decided, a snapshot job finished or a
failed build torn down; no liveness is claimed there.

## Proofs

The `_proofs` modules prove theorems for every value of the constants that
satisfies the named assumptions: any number of users, workers, resources,
addresses, files or jobs. 54 theorems are listed in PROJECT.json. Each invariant
that a run checks was checked by TLC before it was proved. Five of the runs that end
in a violation have a theorem beside them that says how far the violated promise
does hold, and so what breaks it: `SerialStartsArePending` (`order_twice`),
`UnsignedStartsAreMiscounted` (`order_partial`),
`DeletedGoOnDefaultBranch` (`git_branch`), `RecordedIsRemoved` (`lifecycle_dns`), and,
the other way round, `NobodyIsAlerted` and `FailuresAreNotCounted` (`health_alerts`),
which say that it never holds.

**OrderApproval.** `TypeCorrect`; `SignaturesAreGenuine`. `GenuineSignatures` is
not inductive: a worker signs what it collected earlier. The invariant adds, for
each worker, that what it is about to sign is for roles the user holds
(`ClaimsAreOwned`); the set-up never changes, so a claim stays good.
`ViewStartsSignedOrders`: a request that came by Approve must not reach
`activate` with a level unsigned. The invariant adds where such a request may
stand (`OnlySubmitDecides`) and that beyond the tally every level is signed
(`TallyHolds`), and rests on signatures never being taken back.
`UnsignedStartsAreMiscounted` is about the other way to start an order, by a
submission whose owner can approve it: between the decision and the start, what
should_auto_approve found stays true (`OwnerCounts`), and the second pass over the
levels signs every level the owner holds (`OwnerSigns`). So an order that starts with
a level unsigned, in a group without automatic approval, is one whose owner was
counted as holding all roles without holding that one.
`SerialRequestsKeepSignatures` and `SerialRequestsKeepTheContract`, the refinement
of `ApprovalContract`, speak of behaviours in which no two requests have
overlapped. Their invariant (`SerialInv`) says of these that at most one worker is
busy; that its copy of the order is what is stored, pending once the guard has
passed and active once the quota has; that what it is about to sign is unsigned;
and that the jobs there are and those it is still to create are no more than the
quantity. Then each step of a request is a step of the contract, or none.
`SerialRequestsLaunchOnce` states the last part of the invariant by itself. The run
`order_twice` shows that this is lost once requests overlap.
`SerialImplementsContract` is the refinement as a whole: `SerialSpec`, in which no
request opens while another runs, implies `Contract!Spec`. What the contract itself
promises is proved of `ApprovalContract` alone (`ContractBoundsJobs`,
`ContractEndsOnce`) and carried over by the refinement (`SerialOrdersEndOnce`).
`SerialStartsArePending`: the copy that approve() tests is what is stored as long as
no requests have met.

**ScheduledSnapshots.** `TypeCorrect`; `OldestFirst` needs that snapshots carry
numbers no greater than those taken (`Numbered`); `CreatedBeforeTrimmed` that a
creator past `create` has made a snapshot (`MadeFirst`). `MaximumRetained`:
nothing that is chosen for deletion lies among the newest `lowest[s]` ever taken
(`WindowKept`), since what is cut off the list has as many newer ones before it
and later snapshots only push the window on. `ExcessBounded` counts: each step
that keeps a snapshot more has a creator in flight for it, and a creator that
leaves the flight leaves no more than the maximum behind; for that a creator
trims to the maximum of its server while nobody edits it (`LimitIsMaximum`).
Assumed: requests are finitely many, limits and bounds are numbers.

**HealthChecks.** `RetriesBounded`, `TypeCorrect`, `ReportCovers`. The counters
of the check under way agree with each other and with the configuration
(`Current`); a resource that is not in the report is the one under check or
still to do (`Accounted`). `NobodyIsAlerted` and `FailuresAreNotCounted` say of every
configuration what `health_alerts` shows of one; for the second, a check that is to
be counted has used up its requests, or was answered, which leaves one more request
than failures (`Outcome`). `StepsRunOut`: what is ahead is measured by the resources
to be checked, then the checks of the one under way, then the requests and the steps
within one, in lexicographic order; each step lowers the measure, no descent in that
order is endless, and until the rule has ended there is a step to take. Assumed: the
resources are finitely many, the limits have a largest one.

**ApprovalHooks.** `TypeCorrect`, where costs are numbers;
`OrdersHaveTheirApprovers`: an order approved by nobody was small when it was
submitted and is so until a build overtakes it (`SmallIsSmall`), and only
`PostApproval` starts an order. `FinanceComesFirst`: an undecided order waits
for Finance, or for IT once Finance has approved it (`QueueInOrder`).
Extensions_proofs carries both over to the instance that `extensions` checks.

**GitConfigs.** `TypeCorrect`, `NothingIsInvented`, `AloneChangesOne`,
`SecondValueTakesTwo`. What was found is still there (`Tracked`), a request that
met no other holds a copy of what is stored (`Lonely`), and each copy holds only
what was there, or saved, since the oldest of the requests under way began
(`CopiesAreRecent`). Assumed: there is a name, and the number of saves is one.

**GitExport.** `TypeCorrect`: commits an administrator was told of exist, and
the branch points to one. `OthersAreSpared`: a commit that waits for its branch
to be moved differs from the base its exporter read in the directory of its item
only (`CommitsWait`); a fast-forward of GitHub then sets the branch from that
very base, and GitLab's actions name files of the directory. `ReportedStays`: the
ancestors of a commit are the least set that holds it and, with each commit, its
parent; a new commit's parent is older, and both services move the branch only to
a descendant of where it is, so the ancestors of the branch only grow.
`UndisturbedExportIsExact` follows an export that nobody disturbed: what its
exporter has generated and read is still what the item and the branch hold
(`Settled`, `SeesBranch`), and the tree it has built lies over that base
(`OverBase`). `DeletedGoOnDefaultBranch` drops the condition on the base: GitHub
refuses what is no fast-forward, so the branch that moves is the one that was read. Assumed: the file names an item may have are finitely many, since a
page of the listing is counted.

**ResourceLifecycle.** All six properties of the run `lifecycle`, under
`BlueprintsAreOrderly`, which says nothing of states: it is a condition on the
scripts, true of the 57 rows of the table (48 of them distinct; TLC evaluates it as
the assumption `TableIsOrderly`), and what a new blueprint has to satisfy to get the same
promises. Of each resource the invariant says (`Sound`) what its row, its job,
the histories and the objects it made have to do with each other: what
create.py has passed is saved (`Building`), delete.py works at the recorded
address (`Tearing`), an object was made by a step, after what is saved before it
(`Owning`), what delete.py has passed is gone (`Cleared`), and, for scripts that
save last, all that was made is there once anything is recorded (`Earned`).
Another resource disturbs this only by deleting an object, whose maker is then
`robbed`; the lemma `Frame` says so once, for every step of everybody else.
Generated addresses need one fact about pairs (`Private`). The six theorems
follow from the invariant without another induction, and so does `RecordedIsRemoved`:
past its first step a delete.py that reads first works at the recorded address
(`Tearing`).

**Extensions, the user synchronisation.** `RolesAreOfTheRecord`: half-way through a
user's directory groups some roles are taken away and not given yet, so the
invariant `UsersInv` adds what is right already: in the groups the job has settled
the user holds exactly the special roles given so far (`RolesSoFar`), and is an
administrator if that group has come (`AdminSoFar`). A job that dies leaves its
user with no record that roles should follow, since `synced` is set at the end, and
it touches nobody else. With the static mapping two directory groups must not settle
one group (`ResetsAreNew`), which is what the property excepts.
`RolesAreGivenInOwnOU`: the part of the path that has been climbed hangs in the tree
as the record says (`OnPath`), a group never moves, and at the end of the path the
job stands at the last OU (`AtHome`). Assumed: hooks, groups, records and mapping
are of their kinds (`KnownHooks`, `NamesOfGroups`, `RecordsOfUsers`,
`MappingToGroups`); no user's OU is called like the marks for "no group".

**Extensions, the upgrade tools.** `OriginalsAreKept`: within the second of a
backup the copy of a file may be replaced. The invariant `KeptInv` says that a
copy of this second either is what the file still holds, or the file needs no fix
any more and so is not copied again. `ClaimedFilesAreFixed` and
`PassedFilesStayClean` follow from what the tool is about to write (`ClaimInv`,
`PassedInv`) and from `FixesAreFinal`: no pattern applies to what the patterns have
made of a construct, and none makes a construct critical. `FixedNamesAreBound`
rests on `FixesAgree`: a use is rewritten for a name that the imports of its old
name are rewritten to bind. Assumed besides: users save within these constructs, and
never within the second of a backup.

**Extensions, the management actions.** The theorems hold for any number of jobs,
containers and names and any table of scripts that keeps the four rules on the
order of steps. Every action is first brought to one of seven kinds of step
(`StoreStepIs`). The invariant `ResultsInv` says of each running job that no other
has disturbed that what its script has done so far still holds: what it deleted is
gone (`Gone`), what it copied is gone from where it was or is the same at both ends
(`Copied`), the row it dropped is away (`Dropped`), what it listed is what is there
(`Listed`), and the rows it made from the listing agree with it (`Shown`). Each
rule is what one of these needs: a script that put something after its deletion,
say, would undo it. Where scripts keep no runs, rows are single (`SingleRows`).
`MovesLoseNothing`, `DeletionsAreReal` and `RowsAreOfContents` read the results
where a script deletes or ends; `RowsOfOthersStay` needs types only.

**Extensions, together.** `AllTyped` and `AllKeepTheirPromises`: each step of the
whole is, for each component, a step of its own or leaves its variables alone
(`PartsFollow`), so what is proved of each alone holds of the five together.

Model-checked only: the liveness of the health check rule (`Terminates`): that a
weakly fair rule which always has a step, and lowers a well-founded measure with each,
comes to its end is a rule of temporal logic that TLAPS cannot apply, and the premises
of that rule are what `StepsRunOut` proves; and the facts about the tables of scripts and patterns, which
the theorems assume and TLC evaluates in full. That every other property of a
passing run is proved does not make the runs superfluous: they fire every action,
and their mutants show that each property can fail.

## What is left

`Expiration` (power off, extend, delete after a grace period) and `OldSyncJobs`
are the next modules worth having; the table of blueprints takes further rows
without a change of the engine.

## Not modelled

* Platform and presentation: reverting to a snapshot, rendering of pages, mails,
  the wording of messages, the file contents of exports, temporary directories;
  deny, remind, duplicate and save-as of orders (platform calls that leave
  approvals alone); the layout of the upgrade tools' reports; code that is
  commented out for later versions of the platform.
* Blueprints whose scripts are not of the engine's shape, having several kinds
  of objects per resource, machines that the platform tracks as servers, or
  templates whose objects only the provider knows: azure_functions, the
  stacks of eks and eks-stack, Kubernetes on one and on several nodes,
  Databricks clusters, ARM and Heat templates, openstack volumes,
  google_cloud_project, citrix_itm; installers and one-off jobs.
* Management actions that change an attribute of one object (visibility, power,
  a tag, a schedule) or only refresh fields: make public and private, backups of
  DynamoDB, upload to Glacier, refresh of RDS, task definitions of ECS, edits of
  citrix domains and records, cancelling a pipeline run, start and stop of
  azure_functions, the listing of an S3 bucket; and google_storage's
  upload_blob, which names an undefined variable and raises before it does
  anything.
* Integration tests, UI extensions that only show data, single-call plug-ins and
  webhooks, command-line scripts, examples.
