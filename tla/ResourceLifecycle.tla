-------------------------- MODULE ResourceLifecycle --------------------------
(***************************************************************************)
(* The life of the resources of one blueprint: its build, teardown and     *)
(* discovery scripts (create.py, delete.py and sync.py below               *)
(* src/blueprints) run as jobs of the platform against the cloud, for any  *)
(* number of resources at once.                                            *)
(*                                                                         *)
(* A blueprint is data: the steps of its scripts that matter to what is    *)
(* left behind, in their order.  Each step is atomic; a job may die        *)
(* between any two, for good (an exception, a refusal of the cloud, a      *)
(* killed worker).                                                         *)
(***************************************************************************)
EXTENDS Naturals, Sequences, FiniteSets, Scripts

CONSTANTS
    Blueprints,   \* the blueprints, records of BlueprintType
    Resources,    \* bound: resources of the blueprint
    Names,        \* names a user may type into the order form
    Places,       \* regions, resource groups or servers
    Home,         \* the place a script derives from the name
    Nobody,       \* owner of nothing
    Outside       \* maker of objects CloudBolt did not make

ASSUME HomeIsPlace == Home \in Places
ASSUME NamesExist == Names # {}
ASSUME OwnersDiffer == Nobody \notin Resources /\ Outside \notin Resources /\ Nobody # Outside

Addresses == [name : Names, place : Places]
Kinds == {"host", "item"}

\* What a resource records of its object: what names it, where it is, whose
\* credentials reach it; "alias" is a key only the discovery script writes,
\* "misnamed" a name it writes that the cloud does not know.
Keys == {"name", "place", "handler", "alias", "misnamed"}

Ops == {"GiveUp", "Forget", "Save", "Check", "Warn", "Make", "TryMake", "Upsert",
        "Need", "NeedOrQuit", "Drop", "TryDrop", "DropIfThere", "DropNearest"}
StepType == [op : Ops, keys : SUBSET Keys, kind : Kinds]

\* scope: what an address is ("place": name and place are typed, "global": so
\* too, but a name is taken for all places, "home": the place follows from the
\* name, "flat": there is one place, "fresh": the place is generated).
\* finds: fields of what sync.py returns, none if it never ends well; ident: its
\* RESOURCE_IDENTIFIER, with "title" if the script itself looks for a row of that
\* name, whatever became of it, and declares it active, with "active" if it looks
\* at active rows only; gap: sync.py is known to return less than delete.py reads.
BlueprintType ==
    [scope : {"place", "global", "home", "flat", "fresh"},
     create : Seq(StepType), delete : Seq(StepType),
     finds : SUBSET Keys, ident : SUBSET (Keys \cup {"title", "active"}),
     gap : BOOLEAN]
ASSUME BlueprintsAreTyped == Blueprints \subseteq BlueprintType

VARIABLES
    bp,           \* the blueprint
    cloud,        \* cloud[k][a]: who made the object of kind k at address a
    res,          \* res[r]: the row of the resource
    job,          \* job[r]: the build or teardown job of the resource
    found,        \* addresses the discovery script returned, not yet handled
    imported,     \* history: resources that discovery created
    moved,        \* history: resources whose address discovery changed
    robbed        \* history: resources that made an object which was deleted

vars == <<bp, cloud, res, job, found, imported, moved, robbed>>
history == <<imported, moved, robbed>>

States == {"none", "new", "active", "failed", "gone"}
ResType == [state : States, keys : SUBSET Keys, addr : Addresses]
JobType == [pc : {"idle", "create", "delete"}, at : Nat, addr : Addresses]

TypeOK ==
    /\ bp \in Blueprints
    /\ cloud \in [Kinds -> [Addresses -> Resources \cup {Nobody, Outside}]]
    /\ res \in [Resources -> ResType]
    /\ job \in [Resources -> JobType]
    /\ \A r \in Resources : job[r].at \in 0..(Len(bp.create) + Len(bp.delete) + 1)
    /\ found \subseteq Addresses
    /\ imported \subseteq Resources
    /\ moved \subseteq Resources
    /\ robbed \subseteq Resources
-----------------------------------------------------------------------------
Nowhere == CHOOSE a \in Addresses : a.place = Home
NoJob == [pc |-> "idle", at |-> 0, addr |-> Nowhere]

Live(r) == res[r].state \notin {"none", "gone"}

Script(r) == IF job[r].pc = "create" THEN bp.create ELSE bp.delete
AtEnd(r) == job[r].at > Len(Script(r))
Doing(r, pc, op) == /\ job[r].pc = pc /\ ~AtEnd(r)
                    /\ Script(r)[job[r].at].op = op
StepOf(r) == Script(r)[job[r].at]

Object(r) == cloud[StepOf(r).kind][job[r].addr]

\* What a call with the recorded name reaches.
Reached(r) == {a \in {job[r].addr} : "misnamed" \notin res[r].keys}

Advance(r) == job' = [job EXCEPT ![r].at = @ + 1]

\* The job is over and leaves the resource in state s.
Finish(r, s) ==
    /\ job' = [job EXCEPT ![r] = NoJob]
    /\ res' = [res EXCEPT ![r].state = s]

\* A name in use: at this very address, or anywhere if names are global.
Taken(k, a) ==
    \E b \in Addresses :
      /\ cloud[k][b] # Nobody
      /\ b.name = a.name
      /\ bp.scope = "global" \/ b.place = a.place

\* Generated names are not in use, nor will anybody else generate them.
Unused(p) == /\ \A a \in Addresses, k \in Kinds : a.place = p => cloud[k][a] = Nobody
             /\ \A r \in Resources : res[r].state # "none" => res[r].addr.place # p
             /\ \A r \in Resources : job[r].pc = "create" => job[r].addr.place # p

(* Ordering the blueprint: the form's values, then the build job *)

Order(r, a) ==
    /\ res[r].state = "none"
    /\ bp.scope \in {"home", "flat"} => a.place = Home
    /\ bp.scope = "fresh" => Unused(a.place)
    /\ res' = [res EXCEPT ![r] = [state |-> "new", keys |-> {}, addr |-> a]]
    /\ job' = [job EXCEPT ![r] = [pc |-> "create", at |-> 1, addr |-> a]]
    /\ UNCHANGED <<bp, cloud, found, history>>

(* Steps of create.py *)

\* The credentials do not work: the script returns, and returns nothing, which
\* the platform counts as done.
GiveUp(r) ==
    /\ \E pc \in {"create", "delete"} : Doing(r, pc, "GiveUp")
    /\ \/ Finish(r, IF job[r].pc = "create" THEN "active" ELSE "gone")
       \/ Advance(r) /\ UNCHANGED res
    /\ UNCHANGED <<bp, cloud, found, history>>

\* An error of the cloud makes the script delete the row of the resource.
Forget(r) ==
    /\ Doing(r, "create", "Forget")
    /\ Finish(r, "gone") \/ (Advance(r) /\ UNCHANGED res)
    /\ UNCHANGED <<bp, cloud, found, history>>

\* resource.<field> = ...; resource.save()
Save(r) ==
    /\ Doing(r, "create", "Save")
    /\ res' = [res EXCEPT ![r].keys = @ \cup StepOf(r).keys, ![r].addr = job[r].addr]
    /\ Advance(r)
    /\ UNCHANGED <<bp, cloud, found, history>>

\* "already exists": the script returns FAILURE, or WARNING, which the platform
\* counts as done.
Check(r) ==
    /\ \E op \in {"Check", "Warn"} : Doing(r, "create", op)
    /\ IF Object(r) = Nobody THEN Advance(r) /\ UNCHANGED res
       ELSE Finish(r, IF StepOf(r).op = "Check" THEN "failed" ELSE "active")
    /\ UNCHANGED <<bp, cloud, found, history>>

\* The cloud creates an object whose name is free.
MakeNew(r) ==
    /\ ~Taken(StepOf(r).kind, job[r].addr)
    /\ cloud' = [cloud EXCEPT ![StepOf(r).kind][job[r].addr] = r]
    /\ Advance(r) /\ UNCHANGED res

\* The cloud refuses a name that is taken.
Refused(r) ==
    /\ Taken(StepOf(r).kind, job[r].addr)
    /\ Finish(r, "failed") /\ UNCHANGED cloud

\* A refusal that is not noticed.
MakeUnchecked(r) ==
    /\ Doing(r, "create", "Make")
    /\ \/ MakeNew(r)
       \/ Taken(StepOf(r).kind, job[r].addr) /\ Advance(r) /\ UNCHANGED <<cloud, res>>
    /\ UNCHANGED <<bp, found, history>>

Make(r) ==
    /\ Doing(r, "create", "Make")
    /\ MakeNew(r) \/ Refused(r)
    /\ UNCHANGED <<bp, found, history>>

\* A refusal that is caught and only logged: the script reports success.
TryMake(r) ==
    /\ Doing(r, "create", "TryMake")
    /\ MakeNew(r) \/ (Finish(r, "active") /\ UNCHANGED cloud)
    /\ UNCHANGED <<bp, found, history>>

\* create_or_update: an object found at this address is taken over.
Upsert(r) ==
    /\ Doing(r, "create", "Upsert")
    /\ \/ MakeNew(r)
       \/ Object(r) = Nobody /\ Refused(r)
       \/ Object(r) # Nobody /\ Advance(r) /\ UNCHANGED <<cloud, res>>
    /\ UNCHANGED <<bp, found, history>>

Built(r) ==
    /\ job[r].pc = "create" /\ AtEnd(r)
    /\ Finish(r, "active")
    /\ UNCHANGED <<bp, cloud, found, history>>

(* Steps of delete.py *)

\* The user asks for the teardown, also of a build or a teardown that failed.
Delete(r) ==
    /\ res[r].state \in {"active", "failed"} /\ job[r].pc = "idle"
    /\ job' = [job EXCEPT ![r].pc = "delete", ![r].at = 1]
    /\ UNCHANGED <<bp, cloud, res, found, history>>

\* The script reads the fields it needs; one that is missing raises, or is taken
\* to mean that there is nothing to delete.
Need(r) ==
    /\ \E op \in {"Need", "NeedOrQuit"} : Doing(r, "delete", op)
    /\ IF StepOf(r).keys \subseteq res[r].keys
       THEN /\ job' = [job EXCEPT ![r].at = @ + 1, ![r].addr = res[r].addr]
            /\ UNCHANGED res
       ELSE Finish(r, IF StepOf(r).op = "Need" THEN "failed" ELSE "gone")
    /\ UNCHANGED <<bp, cloud, found, history>>

\* The cloud deletes the objects at these addresses, whoever made them.
RemoveAt(r, as) ==
    LET k == StepOf(r).kind
    IN  /\ cloud' = [cloud EXCEPT ![k] =
                       [a \in Addresses |-> IF a \in as THEN Nobody ELSE @[a]]]
        /\ robbed' = robbed \cup ({cloud[k][a] : a \in as} \cap Resources)
        /\ Advance(r) /\ UNCHANGED <<res, imported, moved>>

Remove(r) == RemoveAt(r, Reached(r))

\* An error of the cloud that is caught and forgotten.
DropCarelessly(r) ==
    /\ \E op \in {"Drop", "DropIfThere"} : Doing(r, "delete", op)
    /\ \/ Remove(r)
       \/ Advance(r) /\ UNCHANGED <<cloud, res, history>>
    /\ UNCHANGED <<bp, found>>

\* AWS raises when there is no such object, Azure does not.
Drop(r) ==
    /\ \/ /\ Doing(r, "delete", "Drop") /\ Object(r) = Nobody
          /\ Finish(r, "failed") /\ UNCHANGED <<cloud, history>>
       \/ Doing(r, "delete", "Drop") /\ Object(r) # Nobody /\ Remove(r)
       \/ Doing(r, "delete", "DropIfThere") /\ Remove(r)
    /\ UNCHANGED <<bp, found>>

\* An error of the cloud is caught and only logged.
TryDrop(r) ==
    /\ Doing(r, "delete", "TryDrop")
    /\ Remove(r) \/ (Advance(r) /\ UNCHANGED <<cloud, res, history>>)
    /\ UNCHANGED <<bp, found>>

\* The first object of the place, from a name on: the one of that name, or in
\* its absence another, or none.
Nearest(r) ==
    LET there == {a \in Addresses : /\ a.place = job[r].addr.place
                                    /\ cloud[StepOf(r).kind][a] # Nobody}
    IN  IF job[r].addr \in there THEN {job[r].addr} ELSE there

\* What a listing that starts at the name returns first is deleted, unchecked;
\* taking the first of an empty list raises.
DropNearest(r) ==
    /\ Doing(r, "delete", "DropNearest")
    /\ \/ \E a \in Nearest(r) : RemoveAt(r, {a})
       \/ /\ Object(r) = Nobody
          /\ Finish(r, "failed") /\ UNCHANGED <<cloud, history>>
    /\ UNCHANGED <<bp, found>>

Deleted(r) ==
    /\ job[r].pc = "delete" /\ AtEnd(r)
    /\ Finish(r, "gone")
    /\ UNCHANGED <<bp, cloud, found, history>>

\* An exception, an error of the cloud or the end of the worker.
Die(r) ==
    /\ job[r].pc # "idle"
    /\ Finish(r, "failed")
    /\ UNCHANGED <<bp, cloud, found, history>>

(* sync.py and the discovery job of the platform *)

\* discover_resources() lists the cloud; what an error makes it skip is what the
\* discovery job has not handled when it is abandoned.
Discover ==
    /\ found = {} /\ bp.finds # {}
    /\ found' = {a \in Addresses : cloud["item"][a] # Nobody}
    /\ found' # {}
    /\ UNCHANGED <<bp, cloud, res, job, history>>

ByTitle == "title" \in bp.ident
Identifying == bp.ident \cap Keys

\* Only those whose build has ended well.
MatchesBuilt(a) ==
    {r \in Resources :
       /\ res[r].state = "active" /\ Identifying \subseteq res[r].keys
       /\ "place" \in bp.ident => res[r].addr.place = a.place
       /\ bp.ident \cap {"name", "alias"} # {} => res[r].addr.name = a.name}

\* The resources whose identifying fields have the values found.
Matches(a) ==
    {r \in Resources :
       /\ Live(r) \/ (ByTitle /\ res[r].state = "gone")
       /\ "active" \in bp.ident => res[r].state = "active"
       /\ Identifying \subseteq res[r].keys
       /\ "place" \in bp.ident => res[r].addr.place = a.place
       /\ bp.ident \cap {"name", "alias", "misnamed"} # {} => res[r].addr.name = a.name}

\* The place written where the whole address belongs.
RefreshMisplaced(r, a) ==
    /\ r \in Matches(a)
    /\ res' = [res EXCEPT ![r].keys = @ \cup bp.finds,
                 ![r].addr = IF "place" \in bp.finds THEN a.place ELSE @]
    /\ UNCHANGED <<job, imported, moved>>

\* The fields of what was found are written to a resource that matches.
Refresh(r, a) ==
    /\ r \in Matches(a)
    /\ res' = [res EXCEPT ![r].keys = @ \cup bp.finds,
                 ![r].state = IF ByTitle THEN "active" ELSE @,
                 ![r].addr.place = IF "place" \in bp.finds THEN a.place ELSE @,
                 ![r].addr.name = IF "name" \in bp.finds THEN a.name ELSE @]
    /\ moved' = moved \cup {q \in {r} : res'[q].addr # res[q].addr}
    /\ UNCHANGED <<job, imported>>

\* A resource is made of it, its fields are not saved.
ImportUnsaved(r, a) ==
    /\ Matches(a) = {} /\ res[r].state = "none"
    /\ res' = [res EXCEPT ![r] = [state |-> "active", keys |-> {}, addr |-> a]]
    /\ imported' = imported \cup {r} /\ UNCHANGED <<job, moved>>

\* What no resource matches becomes a resource.
Import(r, a) ==
    /\ Matches(a) = {} /\ res[r].state = "none"
    /\ res' = [res EXCEPT ![r] = [state |-> "active", keys |-> bp.finds, addr |-> a]]
    /\ imported' = imported \cup {r} /\ UNCHANGED <<job, moved>>

Handle(r, a) ==
    /\ a \in found /\ found' = found \ {a}
    /\ Refresh(r, a) \/ Import(r, a)
    /\ UNCHANGED <<bp, cloud, robbed>>

\* The discovery job fails half-way.
Abandon ==
    /\ found # {} /\ found' = {}
    /\ UNCHANGED <<bp, cloud, res, job, history>>
-----------------------------------------------------------------------------
\* There may be an object that somebody made elsewhere; where all places are
\* alike, or there is one, it is at Home.
Init ==
    /\ bp \in Blueprints
    /\ \E before \in SUBSET Addresses :
         /\ Cardinality(before) <= 1
         /\ bp.scope # "home" => \A a \in before : a.place = Home
         /\ cloud = [k \in Kinds |-> [a \in Addresses |->
                       IF a \in before THEN Outside ELSE Nobody]]
    /\ res = [r \in Resources |-> [state |-> "none", keys |-> {}, addr |-> Nowhere]]
    /\ job = [r \in Resources |-> NoJob]
    /\ found = {} /\ imported = {} /\ moved = {} /\ robbed = {}

Create(r) == GiveUp(r) \/ Forget(r) \/ Save(r) \/ Check(r) \/ Make(r)
             \/ TryMake(r) \/ Upsert(r) \/ Built(r)
Teardown(r) == Delete(r) \/ Need(r) \/ Drop(r) \/ TryDrop(r) \/ DropNearest(r) \/ Deleted(r)

Next ==
    \/ \E r \in Resources, a \in Addresses : Order(r, a) \/ Handle(r, a)
    \/ \E r \in Resources : Create(r) \/ Teardown(r) \/ Die(r)
    \/ Discover \/ Abandon

Spec == Init /\ [][Next]_vars
-----------------------------------------------------------------------------
(* Properties *)

\* Nothing is lost: if the fields are saved first and neither script gives up
\* in silence, then whatever a resource made is at the address that the resource,
\* still there, has recorded - however often its jobs die.  Only discovery may
\* have overwritten the address.
NothingIsLost ==
    RecordsFirst(bp, NeededKeys(bp)) /\ ~GivesUp(bp.create) /\ ~GivesUp(bp.delete) =>
      \A k \in Kinds, a \in Addresses : \A r \in Resources \ moved :
        cloud[k][a] = r =>
          Live(r) /\ NeededKeys(bp) \subseteq res[r].keys /\ res[r].addr = a

\* No twin: if the identifying fields are saved first, and not only active rows are
\* compared (as sync_gke_cluster.py:67 does), discovery never makes a
\* second resource out of what a living one made.
NoImportedTwin ==
    [][imported' # imported /\ RecordsFirst(bp, Identifying) /\ "active" \notin bp.ident =>
        \A r \in imported' \ imported : \A a \in found \ found' :
          \A q \in Resources \ moved : cloud["item"][a] = q => ~Live(q)]_vars

\* Gone is gone: a teardown that ends well, of a script that neither gives up nor
\* takes another object, leaves nothing of the resource in the cloud: what it made,
\* or what discovery imported it for - unless discovery is known to return too
\* little for that (azure_virtual_networking/sync.py:39 joins the resource group to
\* the name), or has changed its address.
GoneIsGone ==
    [][\A r \in Resources \ moved' :
          /\ job[r].pc = "delete" /\ res'[r].state = "gone"
          /\ DropsByAddress(bp) /\ ~GivesUp(bp.delete)
          /\ r \in imported => ~bp.gap
          => /\ \A a \in Addresses : cloud'["item"][a] # r
             /\ r \in imported => cloud'["item"][res[r].addr] # Outside]_vars

\* What is not ours is spared: if nothing is saved before it was made, or the
\* address is generated, and delete.py goes by that address, no teardown removes
\* somebody else's object - unless discovery made or moved the resource, or its
\* own object was taken from it.
ForeignIsSpared ==
    [][cloud' # cloud /\ (RecordsLast(bp) \/ bp.scope = "fresh") /\ DropsByAddress(bp) =>
        \A r \in Resources \ (imported \cup moved \cup robbed) :
          \A k \in Kinds, a \in Addresses :
            job[r].pc = "delete" /\ job'[r] # job[r] /\ cloud'[k][a] # cloud[k][a]
            => cloud[k][a] = r]_vars

\* "to make sure we have the correct data" (aws_route53/delete.py:27): what a
\* teardown removes is what the resource has recorded.
RemovesTheRecorded ==
    [][\A r \in Resources : \A k \in Kinds, a \in Addresses :
         job[r].pc = "delete" /\ job'[r] # job[r] /\ cloud'[k][a] # cloud[k][a]
         => a = res[r].addr]_vars

\* What the platform calls a success can be torn down: an active resource has
\* every field delete.py reads, unless its create.py may give up in silence, or
\* discovery imported it and is known to return too little (the blueprints with
\* a gap: azure_storage/sync.py:55, azure_queue/sync.py:64 and their like).
SuccessIsDeletable ==
    ~GivesUp(bp.create) =>
      \A r \in Resources :
        /\ res[r].state = "active"
        /\ r \in imported => ~bp.gap
        => NeededKeys(bp) \subseteq res[r].keys
=============================================================================
