------------------------------ MODULE Contents ------------------------------
(***************************************************************************)
(* The management actions of the blueprints (the management directories    *)
(* below src/blueprints): what a user does with the contents of a          *)
(* resource - the objects of a bucket, the snapshots of a database, the    *)
(* volumes of an instance.  Each is a job of the platform; two jobs may    *)
(* run at once, and either may die between any two of its calls.           *)
(*                                                                         *)
(* An action is data: the steps of its script that change or consult the   *)
(* store or CloudBolt's rows for what is in it, in their order.            *)
(***************************************************************************)
EXTENDS Naturals, Sequences

CONSTANTS
    Families,     \* the blueprints: sets of ActionType
    Jobs,         \* bound: requests
    Containers,   \* buckets, databases, instances
    Names,
    Filled,       \* bound: at which addresses there are contents, and rows, at first
    MaxRows,      \* bound: rows of one name below one container
    Steve         \* the name one script does not take from its form

VARIABLES
    family,       \* the actions of the blueprint
    store,        \* store[a]: the content at the address, Nothing if none
    rows,         \* rows[a]: the number of rows of that name below the container
    job           \* job[j]: the request, the next step, what the job has listed

vars == <<family, store, rows, job>>

Addresses == Containers \X Names
Nothing == <<>>

Ops == {"Need", "Free", "Copy", "Put", "New", "NewUnique", "TryNewUnique",
        "Remove", "RemoveAny", "RemoveOther", "TryRemove",
        "NeedRow", "NewRow", "AddRowOnce", "MoveRow", "DropRow", "DropAnyRow",
        "List", "ShowAll", "ShowNew", "ShowOnce", "ShowMoved"}
\* dest: where the result goes - nowhere else, under the same name into another
\* container, into any, under any name of the same one, or from Steve to anywhere.
ActionType == [steps : Seq(Ops), dest : {"here", "other", "any", "name", "steve"}]

Idle == [pc |-> 0, action |-> [steps |-> <<>>, dest |-> "here"], from |-> <<>>, to |-> <<>>,
         held |-> {}, disturbed |-> FALSE, result |-> "none"]

\* A job's own upload is the content named by the job, what was there before the
\* one named by its address.
TypeOK ==
    /\ family \in Families
    /\ store \in [Addresses -> Addresses \cup {<<j>> : j \in Jobs} \cup {Nothing}]
    /\ rows \in [Addresses -> 0..MaxRows]
    /\ \A j \in Jobs :
         /\ job[j].pc \in 0..(Len(job[j].action.steps) + 1)
         /\ job[j].held \subseteq Names
         /\ job[j].result \in {"none", "SUCCESS", "FAILURE"}
-----------------------------------------------------------------------------
From(j) == job[j].from
To(j) == job[j].to
There(a) == store[a] # Nothing

AtEnd(j) == job[j].pc > Len(job[j].action.steps)
Running(j) == job[j].pc > 0
Doing(j, op) == Running(j) /\ ~AtEnd(j) /\ job[j].action.steps[job[j].pc] = op

\* The other jobs on the same containers are disturbed by what j does.
Shared(j, k) == {From(j)[1], To(j)[1]} \cap {From(k)[1], To(k)[1]} # {}
Disturb(j) ==
    [k \in Jobs |-> IF k # j /\ Running(k) /\ Shared(j, k)
                    THEN [job[k] EXCEPT !.disturbed = TRUE] ELSE job[k]]

Step(j) == job' = [job EXCEPT ![j].pc = @ + 1]
StepDisturbing(j) == job' = [Disturb(j) EXCEPT ![j].pc = @ + 1]
End(j, result) == job' = [job EXCEPT ![j] = [Idle EXCEPT !.result = result]]
Fail(j) == End(j, "FAILURE") /\ UNCHANGED <<store, rows>>

Destinations(action, from) ==
    CASE action.dest = "here" -> {from}
      [] action.dest = "other" -> (Containers \ {from[1]}) \X {from[2]}
      [] action.dest = "any" -> Containers \X {from[2]}
      [] action.dest = "name" -> {from[1]} \X Names
      [] OTHER -> Addresses

Request(j, action, from) ==
    /\ job[j] = Idle
    /\ action.dest = "steve" => from[2] = Steve
    /\ \E to \in Destinations(action, from) :
         job' = [job EXCEPT ![j] = [Idle EXCEPT !.pc = 1, !.action = action,
                                                !.from = from, !.to = to]]
    /\ UNCHANGED <<family, store, rows>>

(* Steps that look *)

\* exists(), get_object(), or a look at the row; if in vain, the script ends.
Look(j) ==
    /\ Running(j)
    /\ \E look \in {<<"Need", There(From(j))>>, <<"Free", ~There(To(j))>>,
                    <<"NeedRow", rows[From(j)] > 0>>} :
         Doing(j, look[1]) /\ IF look[2] THEN Step(j) /\ UNCHANGED <<store, rows>> ELSE Fail(j)
    /\ UNCHANGED family

List(j) ==
    /\ Doing(j, "List")
    /\ job' = [job EXCEPT ![j].held = {n \in Names : There(<<From(j)[1], n>>)}, ![j].pc = @ + 1]
    /\ UNCHANGED <<family, store, rows>>

(* Steps on the store *)

Write(j, a, content) ==
    /\ store' = [store EXCEPT ![a] = content]
    /\ StepDisturbing(j) /\ UNCHANGED rows

CopyQuietly(j) ==
    /\ Doing(j, "Copy")
    /\ Write(j, To(j), store[From(j)]) \/ (Step(j) /\ UNCHANGED <<store, rows>>)
    /\ UNCHANGED family

\* The provider copies on its side; there has to be something to copy.
Copy(j) ==
    /\ Doing(j, "Copy")
    /\ IF There(From(j)) THEN Write(j, To(j), store[From(j)]) ELSE Fail(j)
    /\ UNCHANGED family

\* An upload replaces what has its name.
Put(j) ==
    /\ Doing(j, "Put") /\ Write(j, To(j), <<j>>)
    /\ UNCHANGED family

\* The provider refuses a name that is taken, in the container or anywhere; the
\* refusal ends the job, as a success if the script has swallowed it.
Refuses(j) ==
    \/ There(To(j))
    \/ ~Doing(j, "New") /\ \E c \in Containers : There(<<c, To(j)[2]>>)
New(j) ==
    /\ \E op \in {"New", "NewUnique", "TryNewUnique"} : Doing(j, op)
    /\ IF ~Refuses(j) THEN Write(j, To(j), <<j>>)
       ELSE IF Doing(j, "TryNewUnique") THEN End(j, "SUCCESS") /\ UNCHANGED <<store, rows>>
       ELSE Fail(j)
    /\ UNCHANGED family

\* The error of the provider is swallowed.
RemoveQuietly(j) ==
    /\ \E op \in {"Remove", "RemoveAny", "TryRemove"} : Doing(j, op)
    /\ \/ Write(j, From(j), Nothing)
       \/ End(j, "SUCCESS") /\ UNCHANGED <<store, rows>>
    /\ UNCHANGED family

\* Most providers raise when there is nothing to delete; renaming an object to the
\* name it has deletes nothing, in the one library that looks.
Remove(j) ==
    /\ \/ /\ Doing(j, "Remove")
          /\ IF There(From(j)) THEN Write(j, From(j), Nothing) ELSE Fail(j)
       \/ Doing(j, "RemoveAny") /\ Write(j, From(j), Nothing)
       \/ /\ Doing(j, "TryRemove")
          /\ Write(j, From(j), Nothing) \/ (End(j, "SUCCESS") /\ UNCHANGED <<store, rows>>)
       \/ /\ Doing(j, "RemoveOther")
          /\ IF From(j) = To(j) THEN Step(j) /\ UNCHANGED <<store, rows>>
             ELSE There(From(j)) /\ Write(j, From(j), Nothing)
    /\ UNCHANGED family

(* Steps on the rows *)

Named(n) == {a \in Addresses : a[2] = n /\ rows[a] > 0}
WriteRows(j, new) == rows' = new /\ StepDisturbing(j) /\ UNCHANGED <<family, store>>

\* get_or_create by the name alone: a row of another container is found, and moved
\* here if the script then sets the parent.
Once(r, a) == IF \E b \in Addresses : b[2] = a[2] /\ r[b] > 0 THEN r ELSE [r EXCEPT ![a] = 1]
Moved(r, a) == [b \in Addresses |-> IF b[2] # a[2] THEN r[b] ELSE IF b = a THEN 1 ELSE 0]

AddRow(j) ==
    \/ Doing(j, "AddRowOnce") /\ WriteRows(j, Once(rows, To(j)))
    \/ Doing(j, "MoveRow") /\ WriteRows(j, Moved(rows, To(j)))
    \/ Doing(j, "NewRow") /\ rows[To(j)] < MaxRows /\ WriteRows(j, [rows EXCEPT ![To(j)] = @ + 1])

DropRowBlindly(j) ==
    /\ UNCHANGED family
    /\ Running(j) /\ \E op \in {"DropRow", "DropAnyRow"} : Doing(j, op)
    /\ WriteRows(j, [rows EXCEPT ![From(j)] = @ - 1])

\* The row of this container, or the first of that name; without one the script
\* raises.
DropRow(j) ==
    /\ Running(j) /\ UNCHANGED family
    /\ \E found \in {<<"DropRow", {From(j)} \cap Named(From(j)[2])>>, <<"DropAnyRow", Named(From(j)[2])>>} :
         /\ Doing(j, found[1])
         /\ IF found[2] = {} THEN Fail(j)
            ELSE \E a \in found[2] : WriteRows(j, [rows EXCEPT ![a] = @ - 1])

\* The rows are made to agree with the listing: all of them, or those missing are
\* added, by their own name and container or by name alone.
HeldAddresses(j) == {From(j)[1]} \X job[j].held
ShowAllOfAnyContainer(j) ==
    [a \in Addresses |-> IF a \in HeldAddresses(j) THEN (IF rows[a] = 0 THEN 1 ELSE rows[a])
                         ELSE IF a[2] \in job[j].held THEN rows[a] ELSE 0]
ShowAllAndOld(j) ==
    [a \in Addresses |-> IF a \in HeldAddresses(j) /\ rows[a] = 0 THEN 1 ELSE rows[a]]
ShowAll(j) ==
    [a \in Addresses |-> IF a[1] # From(j)[1] THEN rows[a]
                         ELSE IF a \in HeldAddresses(j) THEN (IF rows[a] = 0 THEN 1 ELSE rows[a])
                         ELSE 0]
ShowNew(j) == [a \in Addresses |-> IF a \in HeldAddresses(j) /\ rows[a] = 0 THEN 1 ELSE rows[a]]
ShowOnce(j) ==
    [a \in Addresses |-> IF a \in HeldAddresses(j) /\ Named(a[2]) = {} THEN 1 ELSE rows[a]]
ShowMoved(j) ==
    [a \in Addresses |-> IF a[2] \notin job[j].held THEN rows[a]
                         ELSE IF a[1] = From(j)[1] THEN 1 ELSE 0]

Show(j) ==
    \/ Doing(j, "ShowAll") /\ WriteRows(j, ShowAll(j))
    \/ Doing(j, "ShowNew") /\ WriteRows(j, ShowNew(j))
    \/ Doing(j, "ShowOnce") /\ WriteRows(j, ShowOnce(j))
    \/ Doing(j, "ShowMoved") /\ WriteRows(j, ShowMoved(j))

Succeed(j) ==
    /\ Running(j) /\ AtEnd(j)
    /\ End(j, "SUCCESS") /\ UNCHANGED <<family, store, rows>>

Die(j) == Running(j) /\ Fail(j) /\ UNCHANGED family
-----------------------------------------------------------------------------
\* What is there at first, with and without a row.
Init ==
    /\ family \in Families
    /\ \E at \in Filled :
         /\ store = [a \in Addresses |-> IF a \in at.contents THEN a ELSE Nothing]
         /\ rows = [a \in Addresses |-> IF a \in at.rows THEN 1 ELSE 0]
    /\ job = [j \in Jobs |-> Idle]

Next == \E j \in Jobs :
    \/ \E action \in family, from \in Addresses : Request(j, action, from)
    \/ Look(j) \/ List(j) \/ Copy(j) \/ Put(j) \/ New(j) \/ Remove(j)
    \/ AddRow(j) \/ DropRow(j) \/ Show(j) \/ Succeed(j) \/ Die(j)

Spec == Init /\ [][Next]_vars
-----------------------------------------------------------------------------
(* Properties *)

Has(j, ops) == \E i \in DOMAIN job[j].action.steps : job[j].action.steps[i] \in ops
Removes == {"Remove", "RemoveAny", "TryRemove"}
KeepsRuns == \E action \in family : \E i \in DOMAIN action.steps : action.steps[i] = "NewRow"
Steps(j) == Running(j) /\ job'[j].pc # job[j].pc
Succeeds(j) == Running(j) /\ job'[j].result = "SUCCESS"

\* A move keeps what it moves: when a script that copies takes a content away from
\* one place, it is at another - unless the two are one and the script does not
\* compare them (as gcp_storage's rename_blob.py and move_blob.py do not), or another
\* job was at work there.
MoveKeeps ==
    [][\A j \in Jobs : \A a \in Addresses :
         /\ Steps(j) /\ Has(j, {"Copy"})
         /\ From(j) # To(j) \/ Has(j, {"RemoveOther"})
         /\ ~job[j].disturbed
         /\ store[a] # Nothing /\ store'[a] # store[a]
         /\ a # To(j) \/ From(j) = To(j)
         => \E b \in Addresses : store'[b] = store[a]]_vars

\* What a script reports as deleted is gone, unless it swallows the provider's
\* refusal (maria_db/management/delete_db_snapshot.py:56) or another job has put
\* it back.
DeletedIsGone ==
    [][\A j \in Jobs :
         /\ Succeeds(j) /\ Has(j, {"Remove", "RemoveAny", "RemoveOther"}) /\ ~job[j].disturbed
         /\ Has(j, {"RemoveOther"}) => From(j) # To(j)
         => ~There(From(j))]_vars

\* A row never leads nowhere because of a job that knows its container: a script
\* that deletes content and row, or rewrites the rows from a listing, leaves below
\* its container no row of a content that it found missing - but for the runs of a
\* pipeline, rows with the pipeline's name that stay when it is deleted.
RowsMatchTheStore ==
    [][\A j \in Jobs : Succeeds(j) /\ ~job[j].disturbed =>
         /\ Has(j, Removes) /\ Has(j, {"DropRow"}) /\ ~KeepsRuns => rows[From(j)] = 0 \/ There(From(j))
         /\ Has(j, {"ShowAll"}) => \A n \in Names :
              rows[<<From(j)[1], n>>] > 0 <=> There(<<From(j)[1], n>>)]_vars

\* A job leaves the rows of other containers alone, if its script moves or deletes no
\* row that it has found by its name alone (as list_blobs.py:21 and its like do).
OtherRowsStay ==
    [][\A j \in Jobs : \A a \in Addresses :
         Steps(j) /\ rows'[a] # rows[a]
         /\ ~Has(j, {"MoveRow", "DropAnyRow", "ShowMoved"})
         => a[1] \in {From(j)[1], To(j)[1]}]_vars
=============================================================================
