------------------------------- MODULE Scripts -------------------------------
(***************************************************************************)
(* What the scripts of a blueprint b have to be, for its resources to keep *)
(* a promise: conditions on create.py, delete.py and sync.py that can be   *)
(* read off the scripts, one blueprint at a time.                          *)
(***************************************************************************)
EXTENDS Naturals, Sequences

OpAt(script, i) == script[i].op
MakesAt(b, i) == OpAt(b.create, i) \in {"Make", "TryMake", "Upsert"}
DropsAt(b, j) == OpAt(b.delete, j) \in {"Drop", "DropIfThere"}
NeededKeys(b) == UNION {b.delete[i].keys : i \in DOMAIN b.delete}

\* The fields ks are saved before anything is made.
RecordsFirst(b, ks) ==
    \E i \in DOMAIN b.create :
      /\ OpAt(b.create, i) = "Save" /\ ks \subseteq b.create[i].keys
      /\ \A j \in 1..i : ~MakesAt(b, j)

\* Nothing is saved, nothing taken over, before the script has made its objects.
RecordsLast(b) ==
    \A i \in DOMAIN b.create :
      /\ OpAt(b.create, i) # "Upsert"
      /\ OpAt(b.create, i) = "Save" => \A j \in i..Len(b.create) : ~MakesAt(b, j)

\* The script may end as if it had done its work.
GivesUp(script) ==
    \E i \in DOMAIN script :
      OpAt(script, i) \in {"GiveUp", "Forget", "Warn", "TryMake", "TryDrop"}

\* delete.py deletes by what it has recorded.
DropsByAddress(b) == \A i \in DOMAIN b.delete : OpAt(b.delete, i) # "DropNearest"

\* delete.py reads the record before anything else.
ReadsFirst(b) == b.delete # <<>> /\ OpAt(b.delete, 1) \in {"Need", "NeedOrQuit"}

\* Only discovery writes a name the cloud does not know, and only to what it imported.
KnowsNames(b) ==
    /\ \A i \in DOMAIN b.create : "misnamed" \notin b.create[i].keys
    /\ "misnamed" \in b.finds => b.gap /\ "misnamed" \in b.ident

\* What discovery returns is enough for delete.py.
FindsWhatItNeeds(b) == b.finds # {} /\ ~b.gap => NeededKeys(b) \subseteq b.finds

(* What a promise takes of the scripts it is made for *)

\* Nothing is lost: each kind of object that create.py makes is deleted.
DropsWhatItMakes(b) ==
    /\ ReadsFirst(b) /\ KnowsNames(b) /\ DropsByAddress(b)
    /\ \A i \in DOMAIN b.create : MakesAt(b, i) =>
         \E j \in DOMAIN b.delete : DropsAt(b, j) /\ b.delete[j].kind = b.create[i].kind

\* Success is deletable: create.py saves every field delete.py reads, at one point
\* or another; so does discovery that declares a resource active.
SavesWhatItNeeds(b) ==
    /\ \A k \in NeededKeys(b) : \E i \in DOMAIN b.create :
         OpAt(b.create, i) = "Save" /\ k \in b.create[i].keys
    /\ "title" \in b.ident => NeededKeys(b) \subseteq b.finds
    /\ FindsWhatItNeeds(b)

\* Gone is gone: the item is deleted, and a field whose absence is taken to mean that
\* there is nothing to delete is saved before anything is made.
DropsTheItem(b) ==
    /\ ReadsFirst(b) /\ KnowsNames(b) /\ FindsWhatItNeeds(b)
    /\ \E j \in DOMAIN b.delete : DropsAt(b, j) /\ b.delete[j].kind = "item"
    /\ \A j \in DOMAIN b.delete :
         OpAt(b.delete, j) = "NeedOrQuit" => RecordsFirst(b, b.delete[j].keys)

\* What is not ours is spared: delete.py reads some field, and deletes only what
\* create.py makes; discovery compares some field.
DropsOnlyItsOwn(b) ==
    /\ ReadsFirst(b) /\ b.delete[1].keys # {}
    /\ b.finds # {} => b.ident \ {"title", "active"} # {}
    /\ \A j \in DOMAIN b.delete : DropsAt(b, j) \/ OpAt(b.delete, j) = "TryDrop" =>
         \E i \in DOMAIN b.create : MakesAt(b, i) /\ b.create[i].kind = b.delete[j].kind

\* Scripts that are what their promises take.
IsOrderly(b) ==
    /\ RecordsFirst(b, NeededKeys(b)) /\ ~GivesUp(b.create) /\ ~GivesUp(b.delete)
       => DropsWhatItMakes(b)
    /\ ~GivesUp(b.create) => SavesWhatItNeeds(b)
    /\ DropsByAddress(b) /\ ~GivesUp(b.delete) => DropsTheItem(b)
    /\ DropsByAddress(b) /\ (RecordsLast(b) \/ b.scope = "fresh") => DropsOnlyItsOwn(b)
=============================================================================
