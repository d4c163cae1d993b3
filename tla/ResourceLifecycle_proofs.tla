---------------------- MODULE ResourceLifecycle_proofs ----------------------
(***************************************************************************)
(* What ResourceLifecycle promises for the table of Blueprints on a small  *)
(* instance, proved for any number of resources, names and places, and for *)
(* every table: what a blueprint's scripts have to be is IsOrderly, which  *)
(* can be read off the scripts.                                            *)
(*                                                                         *)
(* A step belongs to one resource.  What the invariant says of a resource  *)
(* (Sound) is about its row, its job, the histories and the objects it     *)
(* made; so another resource disturbs it only by deleting an object of it, *)
(* which makes it robbed (Frame).                                          *)
(***************************************************************************)
EXTENDS ResourceLifecycle, TLAPS

BlueprintsAreOrderly == \A b \in Blueprints : IsOrderly(b)
-----------------------------------------------------------------------------
(* The inductive invariant *)

Exists(r) == res[r].state # "none"
Stays(r) == r \notin moved      \* discovery has not changed its address
Owns(r, k, a) == cloud[k][a] = r

\* What create.py saves before its step i is recorded.
Saved(r, i) ==
    \A j \in DOMAIN bp.create :
      j < i /\ OpAt(bp.create, j) = "Save" => bp.create[j].keys \subseteq res[r].keys

\* A job works for a row that is there.
Working(r) == job[r].pc # "idle" => Live(r) /\ job[r].at # 0

Building(r) ==
    job[r].pc = "create" =>
      /\ r \notin imported /\ Saved(r, job[r].at)
      /\ Stays(r) => job[r].addr = res[r].addr

Tearing(r) ==
    job[r].pc = "delete" /\ job[r].at > 1 /\ ReadsFirst(bp) =>
      /\ bp.delete[1].keys \subseteq res[r].keys
      /\ Stays(r) => job[r].addr = res[r].addr

\* An object was made by a step of create.py, after what the script saves before it.
Owning(r) ==
    \A k \in Kinds, a \in Addresses : Owns(r, k, a) =>
      /\ Exists(r) /\ r \notin imported
      /\ Stays(r) => res[r].addr = a
      /\ \E i \in DOMAIN bp.create :
           MakesAt(bp, i) /\ bp.create[i].kind = k /\ Saved(r, i)

Remembered(r) ==
    /\ r \in imported \cup moved => Exists(r)
    /\ r \in imported => bp.finds \subseteq res[r].keys /\ bp.finds # {}

\* Only imports under a gap have a name the cloud does not know.
Named(r) ==
    KnowsNames(bp) /\ "misnamed" \in res[r].keys => r \in imported /\ bp.gap

\* What delete.py has passed, it has deleted.
Cleared(r) ==
    /\ job[r].pc = "delete" /\ Stays(r)
    /\ ReadsFirst(bp) /\ KnowsNames(bp) /\ DropsByAddress(bp)
    /\ r \in imported => ~bp.gap
    => \A j \in DOMAIN bp.delete : j < job[r].at /\ DropsAt(bp, j) =>
         cloud[bp.delete[j].kind][res[r].addr] \notin {r, Outside}

SavesFirst ==
    RecordsFirst(bp, NeededKeys(bp)) /\ ~GivesUp(bp.create) /\ ~GivesUp(bp.delete)

NotLost(r) ==
    SavesFirst /\ Stays(r) =>
      \A k \in Kinds, a \in Addresses : Owns(r, k, a) => Live(r)

Deletable(r) ==
    /\ ~GivesUp(bp.create)
    /\ res[r].state = "active"
    /\ r \in imported => ~bp.gap
    => NeededKeys(bp) \subseteq res[r].keys

\* create.py saves only what it has made, and discovery compares some field: then, with
\* the first field recorded, all that create.py makes is made, and still there unless
\* somebody deleted it.
RecordsItsOwn == RecordsLast(bp) /\ (bp.finds # {} => Identifying # {})

Owed(r, i) == \A j \in DOMAIN bp.create :
                j < i /\ MakesAt(bp, j) => Owns(r, bp.create[j].kind, res[r].addr)

Earned(r) ==
    RecordsItsOwn /\ r \notin imported \cup moved \cup robbed =>
      /\ job[r].pc = "create" => Owed(r, job[r].at)
      /\ res[r].keys # {} => Owed(r, Len(bp.create) + 1)

Sound(r) ==
    /\ Working(r) /\ Building(r) /\ Tearing(r) /\ Owning(r) /\ Remembered(r)
    /\ Named(r) /\ Cleared(r) /\ NotLost(r) /\ Deletable(r) /\ Earned(r)

\* Generated places are nobody else's.
Apart(r, q) == job[q].pc = "create" => job[q].addr.place # res[r].addr.place
Private(r) ==
    bp.scope = "fresh" /\ Exists(r) /\ r \notin imported \cup moved =>
      /\ \A k \in Kinds, a \in Addresses :
           a.place = res[r].addr.place => cloud[k][a] \in {Nobody, r}
      /\ \A q \in Resources \ {r} : Apart(r, q)

IInv ==
    /\ TypeOK
    /\ found # {} => bp.finds # {}
    /\ \A r \in Resources : Sound(r) /\ Private(r)
-----------------------------------------------------------------------------
(* Steps of one resource *)

Becomes(r, x, y) == res' = [res EXCEPT ![r] = x] /\ job' = [job EXCEPT ![r] = y]
Row(s, ks, a) == [state |-> s, keys |-> ks, addr |-> a]
Task(pc, n, a) == [pc |-> pc, at |-> n, addr |-> a]

LEMMA NoJobTyped == Nowhere \in Addresses /\ NoJob = Task("idle", 0, Nowhere) /\ NoJob \in JobType
<1>1. \E a \in Addresses : a.place = Home
  <2>1. PICK n \in Names : TRUE
    BY NamesExist
  <2>2. [name |-> n, place |-> Home] \in Addresses
    BY <2>1, HomeIsPlace DEF Addresses
  <2> QED
    BY <2>2
<1>2. Nowhere \in Addresses
  BY <1>1 DEF Nowhere
<1> QED
  BY <1>2 DEF NoJob, Task, JobType

LEMMA Typing ==
    ASSUME TypeOK, NEW r \in Resources
    PROVE  /\ bp \in Blueprints /\ bp \in BlueprintType
           /\ bp.create \in Seq(StepType) /\ bp.delete \in Seq(StepType)
           /\ DOMAIN bp.create = 1..Len(bp.create) /\ Len(bp.create) \in Nat
           /\ DOMAIN bp.delete = 1..Len(bp.delete) /\ Len(bp.delete) \in Nat
           /\ bp.finds \in SUBSET Keys /\ bp.ident \in SUBSET (Keys \cup {"title", "active"})
           /\ res[r] \in ResType /\ res[r] = Row(res[r].state, res[r].keys, res[r].addr)
           /\ res[r].state \in States /\ res[r].keys \in SUBSET Keys /\ res[r].addr \in Addresses
           /\ job[r] \in JobType /\ job[r] = Task(job[r].pc, job[r].at, job[r].addr)
           /\ job[r].at \in Nat /\ job[r].addr \in Addresses
           /\ job[r].pc \in {"idle", "create", "delete"}
           /\ \A k \in Kinds : cloud[k] \in [Addresses -> Resources \cup {Nobody, Outside}]
<1>1. bp \in Blueprints /\ bp \in BlueprintType
  BY BlueprintsAreTyped DEF TypeOK
<1>2. /\ bp.create \in Seq(StepType) /\ bp.delete \in Seq(StepType)
      /\ bp.finds \in SUBSET Keys /\ bp.ident \in SUBSET (Keys \cup {"title", "active"})
  BY <1>1 DEF BlueprintType
<1>3. /\ DOMAIN bp.create = 1..Len(bp.create) /\ Len(bp.create) \in Nat
      /\ DOMAIN bp.delete = 1..Len(bp.delete) /\ Len(bp.delete) \in Nat
  BY <1>2
<1>4. res[r] \in ResType /\ job[r] \in JobType
  BY DEF TypeOK
<1>5. /\ res[r] = Row(res[r].state, res[r].keys, res[r].addr)
      /\ res[r].state \in States /\ res[r].keys \in SUBSET Keys /\ res[r].addr \in Addresses
  BY <1>4 DEF ResType, Row
<1>6. /\ job[r] = Task(job[r].pc, job[r].at, job[r].addr)
      /\ job[r].at \in Nat /\ job[r].addr \in Addresses
      /\ job[r].pc \in {"idle", "create", "delete"}
  BY <1>4 DEF JobType, Task
<1>7. \A k \in Kinds : cloud[k] \in [Addresses -> Resources \cup {Nobody, Outside}]
  BY DEF TypeOK
<1> QED
  BY <1>1, <1>2, <1>3, <1>4, <1>5, <1>6, <1>7

LEMMA SumIsNat == \A n, m \in Nat : n + m + 1 \in Nat
  OBVIOUS

LEMMA StepTyped ==
    ASSUME NEW s \in Seq(StepType), NEW i \in 1..Len(s)
    PROVE  s[i] \in StepType /\ s[i].op \in Ops /\ s[i].kind \in Kinds /\ s[i].keys \in SUBSET Keys
<1>1. s[i] \in StepType
  OBVIOUS
<1> QED
  BY <1>1 DEF StepType

\* What a script is about to do.
LEMMA DoingStep ==
    ASSUME TypeOK, NEW r \in Resources, NEW pc \in {"create", "delete"}, NEW op, Doing(r, pc, op),
           Working(r)
    PROVE  /\ job[r].pc = pc /\ Live(r)
           /\ pc = "create" => /\ job[r].at \in DOMAIN bp.create /\ bp.create[job[r].at].op = op
                               /\ StepOf(r) = bp.create[job[r].at]
           /\ pc = "delete" => /\ job[r].at \in DOMAIN bp.delete /\ bp.delete[job[r].at].op = op
                               /\ StepOf(r) = bp.delete[job[r].at]
           /\ StepOf(r).op = op /\ StepOf(r).kind \in Kinds /\ StepOf(r).keys \in SUBSET Keys
<1>1. /\ job[r].pc = pc /\ Live(r) /\ job[r].at \in Nat \ {0} /\ ~(job[r].at > Len(Script(r)))
      /\ StepOf(r) = Script(r)[job[r].at] /\ StepOf(r).op = op
  BY Typing DEF Doing, AtEnd, StepOf, Working
<1>2. Script(r) = IF pc = "create" THEN bp.create ELSE bp.delete
  BY <1>1 DEF Script
<1>3. /\ Script(r) \in Seq(StepType) /\ Len(Script(r)) \in Nat
      /\ job[r].at \in 1..Len(Script(r)) /\ DOMAIN Script(r) = 1..Len(Script(r))
  BY <1>1, <1>2, Typing
<1> QED
  BY <1>1, <1>2, <1>3, StepTyped

LEMMA FinishIs ==
    ASSUME TypeOK, NEW r \in Resources, NEW s, Finish(r, s)
    PROVE  Becomes(r, Row(s, res[r].keys, res[r].addr), NoJob)
<1>1. [res[r] EXCEPT !.state = s] = Row(s, res[r].keys, res[r].addr)
  BY DEF TypeOK, ResType, Row
<1>2. res' = [res EXCEPT ![r] = [res[r] EXCEPT !.state = s]]
  BY DEF Finish
<1> QED
  BY <1>1, <1>2 DEF Finish, Becomes

LEMMA AdvanceIs ==
    ASSUME TypeOK, NEW r \in Resources, Advance(r), UNCHANGED res
    PROVE  Becomes(r, res[r], Task(job[r].pc, job[r].at + 1, job[r].addr))
<1>1. [job[r] EXCEPT !.at = @ + 1] = Task(job[r].pc, job[r].at + 1, job[r].addr)
  BY DEF TypeOK, JobType, Task
<1>2. job' = [job EXCEPT ![r] = [job[r] EXCEPT !.at = @ + 1]]
  BY DEF Advance
<1>3. res' = [res EXCEPT ![r] = res[r]]
  BY DEF TypeOK
<1> QED
  BY <1>1, <1>2, <1>3 DEF Becomes

LEMMA BecomesGives ==
    ASSUME TypeOK, NEW r \in Resources, NEW x, NEW y, Becomes(r, x, y)
    PROVE  /\ res'[r] = x /\ job'[r] = y
           /\ \A q \in Resources : q # r => res'[q] = res[q] /\ job'[q] = job[q]
  BY DEF TypeOK, Becomes

\* The types of what a step of one resource leaves.
LEMMA BecomesTyped ==
    ASSUME TypeOK, NEW r \in Resources, NEW x \in ResType, NEW y \in JobType, Becomes(r, x, y),
           y.at <= Len(bp.create) + Len(bp.delete) + 1, bp' = bp,
           cloud' \in [Kinds -> [Addresses -> Resources \cup {Nobody, Outside}]],
           found' \subseteq Addresses, imported' \subseteq Resources, moved' \subseteq Resources,
           robbed' \subseteq Resources
    PROVE  TypeOK'
<1>1. res' \in [Resources -> ResType] /\ job' \in [Resources -> JobType]
  BY DEF TypeOK, Becomes
<1>2. \A q \in Resources : job'[q].at \in 0..(Len(bp.create) + Len(bp.delete) + 1)
  <2>1. TAKE q \in Resources
  <2>2. CASE q = r
    <3>1. job'[q] = y
      BY <2>2, BecomesGives
    <3>3. y.at \in Nat
      BY DEF JobType
    <3>2. Len(bp.create) \in Nat /\ Len(bp.delete) \in Nat
      BY Typing
    <3> QED
      <4> HIDE DEF TypeOK
      <4>1. y.at \in 0..(Len(bp.create) + Len(bp.delete) + 1)
        <5> DEFINE m == Len(bp.create) + Len(bp.delete) + 1
        <5>1. m \in Nat
          BY <3>2, SumIsNat
        <5>2. y.at <= m
          OBVIOUS
        <5> HIDE DEF m
        <5>3. y.at \in 0..m
          BY <3>3, <5>1, <5>2
        <5> QED
          BY <5>3 DEF m
      <4> QED
        BY <3>1, <4>1
  <2>3. CASE q # r
    BY <2>3, BecomesGives DEF TypeOK
  <2> QED
    BY <2>2, <2>3
<1> QED
  BY <1>1, <1>2 DEF TypeOK
-----------------------------------------------------------------------------
(* What the step of another resource leaves alone *)

\* The blueprint does not change, nor what is said of its scripts.
LEMMA Static ==
    ASSUME bp' = bp
    PROVE  /\ ReadsFirst(bp)' = ReadsFirst(bp) /\ KnowsNames(bp)' = KnowsNames(bp)
           /\ DropsByAddress(bp)' = DropsByAddress(bp) /\ RecordsItsOwn' = RecordsItsOwn
           /\ SavesFirst' = SavesFirst /\ GivesUp(bp.create)' = GivesUp(bp.create)
           /\ NeededKeys(bp)' = NeededKeys(bp)
           /\ \A i : /\ MakesAt(bp, i)' = MakesAt(bp, i) /\ DropsAt(bp, i)' = DropsAt(bp, i)
                     /\ OpAt(bp.create, i)' = OpAt(bp.create, i)
                     /\ OpAt(bp.delete, i)' = OpAt(bp.delete, i)
<1>1. \A i : /\ OpAt(bp.create, i)' = OpAt(bp.create, i)
             /\ OpAt(bp.delete, i)' = OpAt(bp.delete, i)
  BY DEF OpAt
<1>2. \A i : MakesAt(bp, i)' = MakesAt(bp, i) /\ DropsAt(bp, i)' = DropsAt(bp, i)
  BY DEF MakesAt, DropsAt, OpAt
<1>3. ReadsFirst(bp)' = ReadsFirst(bp) /\ KnowsNames(bp)' = KnowsNames(bp)
  BY DEF ReadsFirst, KnowsNames, OpAt
<1>4. DropsByAddress(bp)' = DropsByAddress(bp)
  BY DEF DropsByAddress, OpAt
<1>5. RecordsItsOwn' = RecordsItsOwn
  <2>1. RecordsLast(bp)' = RecordsLast(bp)
    BY DEF RecordsLast, MakesAt, OpAt
  <2> QED
    BY <2>1 DEF RecordsItsOwn, Identifying
<1>6. NeededKeys(bp)' = NeededKeys(bp)
  BY DEF NeededKeys
<1>7. GivesUp(bp.create)' = GivesUp(bp.create) /\ GivesUp(bp.delete)' = GivesUp(bp.delete)
  BY DEF GivesUp, OpAt
<1>8. RecordsFirst(bp, NeededKeys(bp))' = RecordsFirst(bp, NeededKeys(bp))
  BY DEF RecordsFirst, NeededKeys, MakesAt, OpAt
<1> QED
  BY <1>1, <1>2, <1>3, <1>4, <1>5, <1>6, <1>7, <1>8 DEF SavesFirst

\* Another resource may delete what q made, and q is robbed then.
Aside(q) ==
    /\ res'[q] = res[q] /\ job'[q] = job[q] /\ bp' = bp
    /\ (q \in imported' <=> q \in imported) /\ (q \in moved' <=> q \in moved)
    /\ robbed \subseteq robbed'
    /\ \A k \in Kinds, a \in Addresses :
         /\ cloud'[k][a] = q => cloud[k][a] = q
         /\ cloud[k][a] = q => cloud'[k][a] = q \/ q \in robbed'
         /\ cloud'[k][a] = Outside => cloud[k][a] = Outside

LEMMA Frame ==
    ASSUME TypeOK, NEW q \in Resources, Sound(q), Aside(q)
    PROVE  Sound(q)'
<1>1. Working(q)' /\ Remembered(q)' /\ Named(q)' /\ Deletable(q)'
  BY Static DEF Aside, Sound, Working, Live, Remembered, Named, Exists, Deletable
<1>2. \A i : Saved(q, i)' = Saved(q, i)
  BY Static DEF Aside, Saved
<1>3. Stays(q)' = Stays(q) /\ Exists(q)' = Exists(q) /\ Live(q)' = Live(q)
  BY DEF Aside, Stays, Exists, Live
<1>4. Building(q)'
  <2>1. Saved(q, job[q].at)' = Saved(q, job[q].at)
    BY Static DEF Aside, Saved
  <2> QED
    BY <1>3, <2>1 DEF Aside, Sound, Building
<1>5. Tearing(q)'
  BY <1>3, Static DEF Aside, Sound, Tearing
<1>6. Owning(q)'
  <2>1. SUFFICES ASSUME NEW k \in Kinds, NEW a \in Addresses, cloud'[k][a] = q
                 PROVE  /\ Exists(q)' /\ q \notin imported'
                        /\ Stays(q)' => res'[q].addr = a
                        /\ \E i \in DOMAIN bp.create :
                             MakesAt(bp, i) /\ bp.create[i].kind = k /\ Saved(q, i)
    BY <1>2, Static DEF Owning, Owns, Aside
  <2>2. Owns(q, k, a)
    BY <2>1 DEF Aside, Owns
  <2> QED
    BY <2>2, <1>3 DEF Aside, Sound, Owning
<1>7. Cleared(q)'
  <2>1. SUFFICES ASSUME job[q].pc = "delete", Stays(q), ReadsFirst(bp), KnowsNames(bp),
                        DropsByAddress(bp), q \in imported => ~bp.gap,
                        NEW j \in DOMAIN bp.delete, j < job[q].at, DropsAt(bp, j)
                 PROVE  cloud'[bp.delete[j].kind][res[q].addr] \notin {q, Outside}
    BY <1>3, Static DEF Aside, Cleared
  <2>2. cloud[bp.delete[j].kind][res[q].addr] \notin {q, Outside}
    BY <2>1 DEF Sound, Cleared
  <2>3. bp.delete[j].kind \in Kinds /\ res[q].addr \in Addresses
    BY Typing, StepTyped
  <2> QED
    BY <2>2, <2>3 DEF Aside
<1>8. NotLost(q)'
  BY <1>3, Static DEF Aside, Sound, NotLost, Owns
<1>9. Earned(q)'
  <2>1. SUFFICES ASSUME RecordsItsOwn, q \notin imported \cup moved \cup robbed'
                 PROVE  /\ job[q].pc = "create" => Owed(q, job[q].at)'
                        /\ res[q].keys # {} => Owed(q, Len(bp.create) + 1)'
    BY Static DEF Aside, Earned
  <2>2. Owed(q, job[q].at)' <=> \A j \in DOMAIN bp.create :
          j < job[q].at /\ MakesAt(bp, j) => cloud'[bp.create[j].kind][res[q].addr] = q
    BY Static DEF Owed, Owns, Aside
  <2>3. Owed(q, Len(bp.create) + 1)' <=> \A j \in DOMAIN bp.create :
          j < Len(bp.create) + 1 /\ MakesAt(bp, j) => cloud'[bp.create[j].kind][res[q].addr] = q
    BY Static DEF Owed, Owns, Aside
  <2>4. \A j \in DOMAIN bp.create : Owns(q, bp.create[j].kind, res[q].addr) =>
          cloud'[bp.create[j].kind][res[q].addr] = q
    BY <2>1, Typing, StepTyped DEF Owns, Aside
  <2>5. q \notin robbed
    BY <2>1 DEF Aside
  <2> QED
    BY <2>1, <2>2, <2>3, <2>4, <2>5 DEF Sound, Earned, Owed
<1> QED
  BY <1>1, <1>4, <1>5, <1>6, <1>7, <1>8, <1>9 DEF Sound
-----------------------------------------------------------------------------
(* What a step does to its own resource *)

\* Neither the cloud nor a history is touched.
Quiet == UNCHANGED <<bp, cloud, imported, moved, robbed>>

\* What an active row has to have; what a row that goes must not leave behind.
Fit(r) ==
    ~GivesUp(bp.create) /\ (r \in imported => ~bp.gap) => NeededKeys(bp) \subseteq res[r].keys
Bare(r) ==
    SavesFirst /\ Stays(r) => \A k \in Kinds, a \in Addresses : ~Owns(r, k, a)

LEMMA FinishSound ==
    ASSUME TypeOK, NEW r \in Resources, Sound(r), Live(r), NEW s \in {"active", "failed", "gone"},
           Finish(r, s), Quiet,
           s = "active" => Fit(r),
           s = "gone" => Bare(r)
    PROVE  Sound(r)'
<1>1. /\ res'[r].state = s /\ res'[r].keys = res[r].keys /\ res'[r].addr = res[r].addr
      /\ job'[r] = NoJob /\ job'[r].pc = "idle"
  <2>1. res'[r] = Row(s, res[r].keys, res[r].addr) /\ job'[r] = NoJob
    BY FinishIs, BecomesGives
  <2> QED
    BY <2>1, NoJobTyped DEF Row, Task
<1>2. /\ bp' = bp /\ cloud' = cloud /\ imported' = imported /\ moved' = moved /\ robbed' = robbed
  BY DEF Quiet
<1>3. Working(r)' /\ Building(r)' /\ Tearing(r)' /\ Cleared(r)'
  BY <1>1 DEF Working, Building, Tearing, Cleared
<1>4. \A i : Saved(r, i)' = Saved(r, i)
  BY <1>1, <1>2, Static DEF Saved
<1>5. Owning(r)'
  BY <1>1, <1>2, <1>4, Static DEF Sound, Owning, Owns, Exists, Stays
<1>6. Remembered(r)' /\ Named(r)'
  BY <1>1, <1>2, Static DEF Sound, Remembered, Named, Exists
<1>7. NotLost(r)'
  BY <1>1, <1>2, Static DEF Sound, NotLost, Owns, Stays, Live, Bare
<1>8. Deletable(r)'
  BY <1>1, <1>2, Static DEF Deletable, Fit
<1>9. Earned(r)'
  <2>1. Owed(r, Len(bp.create) + 1)' = Owed(r, Len(bp.create) + 1)
    BY <1>1, <1>2, Static DEF Owed, Owns
  <2> QED
    BY <1>1, <1>2, <2>1, Static DEF Sound, Earned
<1> QED
  BY <1>3, <1>5, <1>6, <1>7, <1>8, <1>9 DEF Sound

\* A step that is passed over: no field is saved or read by it, nothing made or deleted.
Idle(r) ==
    /\ job[r].pc = "create" =>
         /\ job[r].at \in DOMAIN bp.create /\ OpAt(bp.create, job[r].at) # "Save"
         /\ MakesAt(bp, job[r].at) => ~RecordsLast(bp)
    /\ job[r].pc = "delete" =>
         /\ job[r].at \in DOMAIN bp.delete /\ ~DropsAt(bp, job[r].at)
         /\ OpAt(bp.delete, job[r].at) \notin {"Need", "NeedOrQuit"}

LEMMA SkipSound ==
    ASSUME TypeOK, NEW r \in Resources, Sound(r), job[r].pc # "idle",
           Idle(r), Advance(r), UNCHANGED res, Quiet
    PROVE  Sound(r)'
<1>1. res'[r] = res[r] /\ job'[r].pc = job[r].pc /\ job'[r].addr = job[r].addr
      /\ job'[r].at = job[r].at + 1
  <2>1. res'[r] = res[r] /\ job'[r] = Task(job[r].pc, job[r].at + 1, job[r].addr)
    BY AdvanceIs, BecomesGives
  <2> QED
    BY <2>1 DEF Task
<1>2. bp' = bp /\ cloud' = cloud /\ imported' = imported /\ moved' = moved /\ robbed' = robbed
  BY DEF Quiet
<1>3. job[r].at \in Nat \ {0}
  BY Typing DEF Sound, Working
<1>4. Working(r)'
  BY <1>1, <1>3 DEF Sound, Working, Live
<1>5. \A i : Saved(r, i)' = Saved(r, i)
  BY <1>1, <1>2, Static DEF Saved
<1>6. Building(r)'
  <2>1. job[r].pc = "create" => Saved(r, job[r].at + 1)
    BY <1>3, Typing DEF Idle, Saved, Sound, Building
  <2>2. Saved(r, job[r].at)' = Saved(r, job[r].at + 1)
    BY <1>1, <1>2, Static DEF Saved
  <2> QED
    BY <1>1, <1>2, <2>1, <2>2 DEF Sound, Building, Stays
<1>7. Tearing(r)'
  <2>1. job[r].pc = "delete" /\ ReadsFirst(bp) => job[r].at > 1
    BY <1>3 DEF Idle, ReadsFirst
  <2> QED
    BY <1>1, <1>2, <2>1, Static DEF Sound, Tearing, Stays
<1>8. Owning(r)' /\ Remembered(r)' /\ Named(r)' /\ NotLost(r)' /\ Deletable(r)'
  BY <1>1, <1>2, <1>5, Static DEF Sound, Owning, Owns, Exists, Stays, Remembered, Named, NotLost,
     Live, Deletable
<1>9. Cleared(r)'
  <2>1. \A j \in DOMAIN bp.delete : job[r].pc = "delete" /\ j < job[r].at + 1 /\ DropsAt(bp, j)
          => j < job[r].at
    BY <1>3, Typing DEF Idle
  <2> QED
    BY <1>1, <1>2, <2>1, Static DEF Sound, Cleared, Stays
<1>10. Earned(r)'
  <2>1. RecordsItsOwn /\ job[r].pc = "create" => \A j \in DOMAIN bp.create :
          j < job[r].at + 1 /\ MakesAt(bp, j) => j < job[r].at
    BY <1>3, Typing DEF Idle, RecordsItsOwn
  <2>2. Owed(r, job[r].at)' <=> \A j \in DOMAIN bp.create :
          j < job[r].at + 1 /\ MakesAt(bp, j) => Owns(r, bp.create[j].kind, res[r].addr)
    BY <1>1, <1>2, Static DEF Owed, Owns
  <2>3. Owed(r, Len(bp.create) + 1)' = Owed(r, Len(bp.create) + 1)
    BY <1>1, <1>2, Static DEF Owed, Owns
  <2>4. RecordsItsOwn /\ job[r].pc = "create" /\ Owed(r, job[r].at) => Owed(r, job[r].at)'
    BY <2>1, <2>2 DEF Owed
  <2> QED
    BY <1>1, <1>2, <2>3, <2>4, Static DEF Sound, Earned
<1> QED
  BY <1>4, <1>6, <1>7, <1>8, <1>9, <1>10 DEF Sound

\* resource.save() in create.py
LEMMA SaveSound ==
    ASSUME TypeOK, NEW r \in Resources, Sound(r), Save(r) PROVE Sound(r)'
<1> DEFINE ks == bp.create[job[r].at].keys
<1>1. /\ job[r].pc = "create" /\ Live(r) /\ job[r].at \in DOMAIN bp.create
      /\ StepOf(r) = bp.create[job[r].at] /\ OpAt(bp.create, job[r].at) = "Save"
  BY DoingStep DEF Sound, Save, OpAt
<1>2. /\ res'[r].state = res[r].state /\ res'[r].keys = res[r].keys \cup ks
      /\ res'[r].addr = job[r].addr
      /\ job'[r].pc = "create" /\ job'[r].addr = job[r].addr /\ job'[r].at = job[r].at + 1
  BY <1>1 DEF Save, Advance, TypeOK, ResType, JobType
<1>3. bp' = bp /\ cloud' = cloud /\ imported' = imported /\ moved' = moved /\ robbed' = robbed
  BY DEF Save, history
<1>4. Stays(r) => res'[r].addr = res[r].addr
  BY <1>1, <1>2 DEF Sound, Building
<1>5. job[r].at \in Nat \ {0}
  BY <1>1, Typing DEF Sound, Working
<1> HIDE DEF ks
<1>6. Working(r)' /\ Tearing(r)' /\ Cleared(r)'
  BY <1>1, <1>2, <1>5 DEF Working, Live, Tearing, Cleared
<1>7. \A i : Saved(r, i) => Saved(r, i)'
  <2>1. \A i : Saved(r, i)' <=> \A j \in DOMAIN bp.create :
          j < i /\ OpAt(bp.create, j) = "Save" => bp.create[j].keys \subseteq res[r].keys \cup ks
    BY <1>2, <1>3, Static DEF Saved
  <2> QED
    BY <2>1 DEF Saved
<1>8. Building(r)'
  <2>1. Saved(r, job[r].at)' <=> \A j \in DOMAIN bp.create :
          j < job[r].at + 1 /\ OpAt(bp.create, j) = "Save" =>
            bp.create[j].keys \subseteq res[r].keys \cup ks
    BY <1>2, <1>3, Static DEF Saved
  <2>2. ASSUME NEW j \in DOMAIN bp.create, j < job[r].at + 1, OpAt(bp.create, j) = "Save"
        PROVE  bp.create[j].keys \subseteq res[r].keys \cup ks
    <3>1. CASE j = job[r].at
      BY <3>1 DEF ks
    <3>2. CASE j < job[r].at
      BY <1>1, <2>2, <3>2 DEF Sound, Building, Saved
    <3> QED
      BY <1>5, <2>2, <3>1, <3>2, Typing
  <2> QED
    BY <1>1, <1>2, <1>3, <2>1, <2>2 DEF Sound, Building
<1>9. Owning(r)'
  BY <1>2, <1>3, <1>4, <1>7, Static DEF Sound, Owning, Owns, Exists, Stays
<1>10. Remembered(r)' /\ NotLost(r)'
  BY <1>2, <1>3, Static DEF Sound, Remembered, Exists, NotLost, Owns, Stays, Live
<1>11. Named(r)'
  <2>1. KnowsNames(bp) => "misnamed" \notin ks
    BY <1>1 DEF KnowsNames, ks
  <2> QED
    BY <1>2, <1>3, <2>1, Static DEF Sound, Named
<1>12. Deletable(r)'
  BY <1>2, <1>3, Static DEF Sound, Deletable
<1>13. Earned(r)'
  <2>1. SUFFICES ASSUME RecordsItsOwn, r \notin imported \cup moved \cup robbed
                 PROVE  Owed(r, job[r].at)' /\ Owed(r, Len(bp.create) + 1)'
    BY <1>2, <1>3, Static DEF Earned
  <2>2. Owed(r, job[r].at)
    BY <1>1, <2>1 DEF Sound, Earned
  <2>3. \A j \in DOMAIN bp.create : MakesAt(bp, j) => j < job[r].at
    <3>1. \A j \in job[r].at..Len(bp.create) : ~MakesAt(bp, j)
      BY <1>1, <2>1 DEF RecordsLast, RecordsItsOwn
    <3> QED
      BY <3>1, <1>5, Typing
  <2>4. \A j \in DOMAIN bp.create : MakesAt(bp, j) => Owns(r, bp.create[j].kind, res[r].addr)
    BY <2>2, <2>3 DEF Owed
  <2>5. \A j \in DOMAIN bp.create : MakesAt(bp, j)' => Owns(r, bp.create[j].kind, res[r].addr)'
    BY <1>3, <1>4, <2>1, <2>4, Static DEF Owns, Stays
  <2>6. \A i : Owed(r, i)'
    BY <1>3, <2>5, Static DEF Owed
  <2> QED
    BY <2>6, <1>2, <1>3 DEF Owed
<1> QED
  BY <1>6, <1>8, <1>9, <1>10, <1>11, <1>12, <1>13 DEF Sound

\* delete.py has read the fields it needs.
LEMMA NeedSound ==
    ASSUME TypeOK, NEW r \in Resources, Sound(r), Need(r), StepOf(r).keys \subseteq res[r].keys
    PROVE  Sound(r)'
<1>1. /\ job[r].pc = "delete" /\ Live(r) /\ job[r].at \in DOMAIN bp.delete
      /\ StepOf(r) = bp.delete[job[r].at] /\ OpAt(bp.delete, job[r].at) \in {"Need", "NeedOrQuit"}
  BY DoingStep DEF Sound, Need, OpAt
<1>2. /\ res' = res /\ job'[r].pc = "delete" /\ job'[r].addr = res[r].addr
      /\ job'[r].at = job[r].at + 1
  BY <1>1 DEF Need, TypeOK, JobType
<1>3. bp' = bp /\ cloud' = cloud /\ imported' = imported /\ moved' = moved /\ robbed' = robbed
  BY DEF Need, history
<1>4. job[r].at \in Nat \ {0}
  BY <1>1, Typing DEF Sound, Working
<1>5. Working(r)' /\ Building(r)'
  BY <1>1, <1>2, <1>4 DEF Working, Live, Building
<1>6. Tearing(r)'
  <2>1. ReadsFirst(bp) => bp.delete[1].keys \subseteq res[r].keys
    <3>1. CASE job[r].at = 1
      BY <1>1, <3>1
    <3>2. CASE job[r].at > 1
      BY <1>1, <3>2 DEF Sound, Tearing
    <3> QED
      BY <1>4, <3>1, <3>2
  <2> QED
    BY <1>2, <1>3, <2>1, Static DEF Tearing
<1>7. \A i : Saved(r, i)' = Saved(r, i)
  BY <1>2, <1>3, Static DEF Saved
<1>8. Owning(r)' /\ Remembered(r)' /\ Named(r)' /\ NotLost(r)' /\ Deletable(r)'
  BY <1>2, <1>3, <1>7, Static DEF Sound, Owning, Owns, Exists, Stays, Remembered, Named, NotLost,
     Live, Deletable
<1>9. Cleared(r)'
  <2>1. \A j \in DOMAIN bp.delete : j < job[r].at + 1 /\ DropsAt(bp, j) => j < job[r].at
    BY <1>1, <1>4, Typing DEF DropsAt
  <2> QED
    BY <1>1, <1>2, <1>3, <2>1, Static DEF Sound, Cleared, Stays
<1>10. Earned(r)'
  <2>1. Owed(r, Len(bp.create) + 1)' = Owed(r, Len(bp.create) + 1)
    BY <1>2, <1>3, Static DEF Owed, Owns
  <2> QED
    BY <1>2, <1>3, <2>1, Static DEF Sound, Earned
<1> QED
  BY <1>5, <1>6, <1>8, <1>9, <1>10 DEF Sound

\* The user asks for the teardown.
LEMMA DeleteSound ==
    ASSUME TypeOK, NEW r \in Resources, Sound(r), Delete(r) PROVE Sound(r)'
<1>1. /\ res' = res /\ job'[r].pc = "delete" /\ job'[r].at = 1 /\ Live(r)
  BY DEF Delete, TypeOK, JobType, Live
<1>2. bp' = bp /\ cloud' = cloud /\ imported' = imported /\ moved' = moved /\ robbed' = robbed
  BY DEF Delete, history
<1>3. Working(r)' /\ Building(r)' /\ Tearing(r)'
  BY <1>1 DEF Working, Live, Building, Tearing
<1>4. Cleared(r)'
  BY <1>1, <1>2, Typing DEF Cleared
<1>5. \A i : Saved(r, i)' = Saved(r, i)
  BY <1>1, <1>2, Static DEF Saved
<1>6. Owning(r)' /\ Remembered(r)' /\ Named(r)' /\ NotLost(r)' /\ Deletable(r)'
  BY <1>1, <1>2, <1>5, Static DEF Sound, Owning, Owns, Exists, Stays, Remembered, Named, NotLost,
     Live, Deletable
<1>7. Earned(r)'
  <2>1. Owed(r, Len(bp.create) + 1)' = Owed(r, Len(bp.create) + 1)
    BY <1>1, <1>2, Static DEF Owed, Owns
  <2> QED
    BY <1>1, <1>2, <2>1, Static DEF Sound, Earned
<1> QED
  BY <1>3, <1>4, <1>6, <1>7 DEF Sound

\* The cloud with another owner at one address.
LEMMA MakeNewIs ==
    ASSUME TypeOK, NEW r \in Resources, MakeNew(r), StepOf(r).kind \in Kinds
    PROVE  /\ cloud[StepOf(r).kind][job[r].addr] = Nobody
           /\ cloud' \in [Kinds -> [Addresses -> Resources \cup {Nobody, Outside}]]
           /\ \A k \in Kinds, a \in Addresses :
                cloud'[k][a] = IF k = StepOf(r).kind /\ a = job[r].addr THEN r ELSE cloud[k][a]
           /\ Becomes(r, res[r], Task(job[r].pc, job[r].at + 1, job[r].addr))
<1> DEFINE k0 == StepOf(r).kind
           a0 == job[r].addr
<1>1. a0 \in Addresses /\ k0 \in Kinds
  BY Typing
<1>2. cloud[k0][a0] = Nobody
  BY <1>1 DEF MakeNew, Taken
<1>3. cloud' = [cloud EXCEPT ![k0][a0] = r]
  BY DEF MakeNew
<1> HIDE DEF k0, a0
<1>4. /\ cloud' \in [Kinds -> [Addresses -> Resources \cup {Nobody, Outside}]]
      /\ \A k \in Kinds, a \in Addresses :
           cloud'[k][a] = IF k = k0 /\ a = a0 THEN r ELSE cloud[k][a]
  BY <1>1, <1>3 DEF TypeOK
<1>5. Becomes(r, res[r], Task(job[r].pc, job[r].at + 1, job[r].addr))
  BY AdvanceIs DEF MakeNew
<1> QED
  BY <1>2, <1>4, <1>5 DEF k0, a0

LEMMA MakeSound ==
    ASSUME TypeOK, NEW r \in Resources, Sound(r), MakeNew(r), job[r].pc = "create",
           job[r].at \in DOMAIN bp.create, StepOf(r) = bp.create[job[r].at],
           MakesAt(bp, job[r].at), UNCHANGED <<bp, imported, moved, robbed>>
    PROVE  Sound(r)'
<1> DEFINE k0 == bp.create[job[r].at].kind
           a0 == job[r].addr
<1>1. k0 \in Kinds /\ a0 \in Addresses /\ Live(r) /\ job[r].at \in Nat \ {0}
  BY Typing, StepTyped DEF Sound, Working
<1>2. res'[r] = res[r] /\ job'[r] = Task(job[r].pc, job[r].at + 1, job[r].addr)
  BY <1>1, MakeNewIs, BecomesGives
<1>3. \A k \in Kinds, a \in Addresses :
        cloud'[k][a] = IF k = k0 /\ a = a0 THEN r ELSE cloud[k][a]
  BY <1>1, MakeNewIs
<1>4. job'[r].pc = "create" /\ job'[r].at = job[r].at + 1 /\ job'[r].addr = job[r].addr
  BY <1>2 DEF Task
<1>5. r \notin imported /\ Saved(r, job[r].at) /\ (Stays(r) => a0 = res[r].addr)
  BY DEF Sound, Building
<1> HIDE DEF k0, a0
<1>6. OpAt(bp.create, job[r].at) # "Save"
  BY DEF MakesAt
<1>7. \A i : Saved(r, i)' = Saved(r, i)
  BY <1>2, Static DEF Saved
<1>8. Working(r)' /\ Tearing(r)' /\ Cleared(r)' /\ Remembered(r)' /\ Named(r)' /\ Deletable(r)'
  <2>1. Working(r)'
    BY <1>1, <1>2, <1>4, Static DEF Sound, Working, Live
  <2>2. Tearing(r)' /\ Cleared(r)'
    BY <1>2, <1>4, Static DEF Tearing, Cleared
  <2>3. Remembered(r)' /\ Named(r)' /\ Deletable(r)'
    BY <1>2, <1>4, Static DEF Sound, Remembered, Exists, Named, Deletable
  <2> QED
    BY <2>1, <2>2, <2>3
<1>9. Building(r)'
  <2>1. Saved(r, job[r].at + 1)
    BY <1>1, <1>5, <1>6, Typing DEF Saved
  <2>2. Saved(r, job[r].at)' = Saved(r, job[r].at + 1)
    BY <1>2, <1>4, Static DEF Saved
  <2> QED
    BY <1>2, <1>4, <1>5, <2>1, <2>2 DEF Building, Stays, a0
<1>10. Owning(r)'
  <2>1. SUFFICES ASSUME NEW k \in Kinds, NEW a \in Addresses, cloud'[k][a] = r
                 PROVE  /\ Exists(r) /\ r \notin imported
                        /\ Stays(r) => res[r].addr = a
                        /\ \E i \in DOMAIN bp.create :
                             MakesAt(bp, i) /\ bp.create[i].kind = k /\ Saved(r, i)
    BY <1>2, <1>7, Static DEF Owning, Owns, Exists, Stays
  <2>2. CASE k = k0 /\ a = a0
    BY <1>1, <1>5, <2>2 DEF Live, Exists, k0
  <2>3. CASE ~(k = k0 /\ a = a0)
    <3>1. Owns(r, k, a)
      BY <1>3, <2>1, <2>3 DEF Owns
    <3> QED
      BY <3>1 DEF Sound, Owning
  <2> QED
    BY <2>2, <2>3
<1>11. NotLost(r)'
  BY <1>1, <1>2 DEF NotLost, Live
<1>12. Earned(r)'
  <2>1. SUFFICES ASSUME RecordsItsOwn, r \notin imported \cup moved \cup robbed
                 PROVE  /\ Owed(r, job[r].at)'
                        /\ res[r].keys # {} => Owed(r, Len(bp.create) + 1)'
    BY <1>2, Static DEF Earned
  <2>2. a0 = res[r].addr /\ res[r].addr \in Addresses
    BY <1>1, <1>5, <2>1 DEF Stays
  <2>3. \A j \in DOMAIN bp.create : Owns(r, bp.create[j].kind, res[r].addr) =>
          cloud'[bp.create[j].kind][res[r].addr] = r
    BY <1>3, <2>2, Typing, StepTyped DEF Owns
  <2>4. cloud'[k0][res[r].addr] = r
    BY <1>1, <1>3, <2>2
  <2>5. Owed(r, job[r].at)
    BY <2>1 DEF Sound, Earned
  <2>6. ASSUME NEW j \in DOMAIN bp.create, j < job[r].at + 1, MakesAt(bp, j)
        PROVE  cloud'[bp.create[j].kind][res[r].addr] = r
    <3>1. CASE j = job[r].at
      BY <2>4, <3>1 DEF k0
    <3>2. CASE j < job[r].at
      BY <2>3, <2>5, <2>6, <3>2 DEF Owed
    <3> QED
      BY <1>1, <2>6, <3>1, <3>2, Typing
  <2>7. Owed(r, job[r].at)' <=> \A j \in DOMAIN bp.create :
          j < job[r].at + 1 /\ MakesAt(bp, j) => cloud'[bp.create[j].kind][res[r].addr] = r
    BY <1>2, <1>4, Static DEF Owed, Owns
  <2>8. Owed(r, Len(bp.create) + 1)' <=> \A j \in DOMAIN bp.create :
          j < Len(bp.create) + 1 /\ MakesAt(bp, j) => cloud'[bp.create[j].kind][res[r].addr] = r
    BY <1>2, Static DEF Owed, Owns
  <2>9. res[r].keys # {} => Owed(r, Len(bp.create) + 1)
    BY <2>1 DEF Sound, Earned
  <2> QED
    BY <2>3, <2>6, <2>7, <2>8, <2>9 DEF Owed
<1> QED
  BY <1>8, <1>9, <1>10, <1>11, <1>12 DEF Sound

\* delete.py deletes the objects at as, which are others' or at the address recorded.
LEMMA RemoveAtIs ==
    ASSUME TypeOK, NEW r \in Resources, NEW as, RemoveAt(r, as), StepOf(r).kind \in Kinds
    PROVE  /\ cloud' \in [Kinds -> [Addresses -> Resources \cup {Nobody, Outside}]]
           /\ \A k \in Kinds, a \in Addresses :
                cloud'[k][a] = IF k = StepOf(r).kind /\ a \in as THEN Nobody ELSE cloud[k][a]
           /\ robbed \subseteq robbed' /\ robbed' \subseteq Resources
           /\ \A a \in as \cap Addresses, q \in Resources : cloud[StepOf(r).kind][a] = q => q \in robbed'
           /\ UNCHANGED <<res, imported, moved>>
           /\ Becomes(r, res[r], Task(job[r].pc, job[r].at + 1, job[r].addr))
<1> DEFINE k0 == StepOf(r).kind
<1>1. cloud' = [cloud EXCEPT ![k0] = [a \in Addresses |-> IF a \in as THEN Nobody ELSE cloud[k0][a]]]
  BY DEF RemoveAt
<1>2. k0 \in Kinds
  OBVIOUS
<1> HIDE DEF k0
<1>3. /\ cloud' \in [Kinds -> [Addresses -> Resources \cup {Nobody, Outside}]]
      /\ \A k \in Kinds, a \in Addresses :
           cloud'[k][a] = IF k = k0 /\ a \in as THEN Nobody ELSE cloud[k][a]
  BY <1>1, <1>2 DEF TypeOK
<1>4. Becomes(r, res[r], Task(job[r].pc, job[r].at + 1, job[r].addr))
  BY AdvanceIs DEF RemoveAt
<1>5. robbed' = robbed \cup ({cloud[k0][a] : a \in as} \cap Resources)
  BY DEF RemoveAt, k0
<1>6. /\ robbed \subseteq robbed' /\ robbed' \subseteq Resources
      /\ \A a \in as \cap Addresses, q \in Resources : cloud[k0][a] = q => q \in robbed'
  BY <1>5 DEF TypeOK
<1>7. UNCHANGED <<res, imported, moved>>
  BY DEF RemoveAt
<1> QED
  BY <1>3, <1>4, <1>6, <1>7 DEF k0

LEMMA RemoveSound ==
    ASSUME TypeOK, NEW r \in Resources, Sound(r), NEW as \in SUBSET Addresses, RemoveAt(r, as), bp' = bp,
           job[r].pc = "delete", job[r].at \in DOMAIN bp.delete, StepOf(r) = bp.delete[job[r].at],
           OpAt(bp.delete, job[r].at) \notin {"Need", "NeedOrQuit"},
           DropsAt(bp, job[r].at) => as = Reached(r)
    PROVE  Sound(r)'
<1> DEFINE k0 == bp.delete[job[r].at].kind
<1>1. k0 \in Kinds /\ StepOf(r).kind = k0 /\ Live(r) /\ job[r].at \in Nat \ {0}
  BY Typing, StepTyped DEF Sound, Working
<1> HIDE DEF k0
<1>2. res'[r] = res[r] /\ job'[r] = Task(job[r].pc, job[r].at + 1, job[r].addr)
  <2>1. Becomes(r, res[r], Task(job[r].pc, job[r].at + 1, job[r].addr))
    BY <1>1, RemoveAtIs
  <2> QED
    BY <2>1, BecomesGives
<1>3. /\ \A k \in Kinds, a \in Addresses :
           cloud'[k][a] = IF k = k0 /\ a \in as THEN Nobody ELSE cloud[k][a]
      /\ robbed \subseteq robbed' /\ (\A a \in as : cloud[k0][a] = r => r \in robbed')
      /\ imported' = imported /\ moved' = moved
  <2>1. StepOf(r).kind = k0 /\ StepOf(r).kind \in Kinds
    BY <1>1
  <2>2. \A k \in Kinds, a \in Addresses :
          cloud'[k][a] = IF k = StepOf(r).kind /\ a \in as THEN Nobody ELSE cloud[k][a]
    BY <2>1, RemoveAtIs, ZenonT(120)
  <2>3. \A a \in as \cap Addresses, q \in Resources :
          cloud[StepOf(r).kind][a] = q => q \in robbed'
    BY <2>1, RemoveAtIs, ZenonT(120)
  <2>4. robbed \subseteq robbed' /\ imported' = imported /\ moved' = moved
    BY <2>1, RemoveAtIs
  <2> QED
    BY <2>1, <2>2, <2>3, <2>4
<1>4. job'[r].pc = "delete" /\ job'[r].at = job[r].at + 1 /\ job'[r].addr = job[r].addr
  BY <1>2 DEF Task
<1>5. \A k \in Kinds, a \in Addresses :
        /\ cloud'[k][a] = r => cloud[k][a] = r
        /\ cloud'[k][a] = Outside => cloud[k][a] = Outside
  BY <1>3, OwnersDiffer
<1>6. Working(r)' /\ Building(r)' /\ Remembered(r)' /\ Named(r)' /\ Deletable(r)'
  BY <1>1, <1>2, <1>3, <1>4, Static DEF Sound, Working, Building, Live, Remembered, Exists, Named,
     Deletable
<1>7. job[r].at > 1 \/ ~ReadsFirst(bp)
  BY <1>1 DEF ReadsFirst
<1>8. Tearing(r)'
  BY <1>2, <1>3, <1>4, <1>7, Static DEF Sound, Tearing, Stays
<1>9. \A i : Saved(r, i)' = Saved(r, i)
  BY <1>2, Static DEF Saved
<1>10. Owning(r)'
  BY <1>2, <1>3, <1>5, <1>9, Static DEF Sound, Owning, Owns, Exists, Stays
<1>11. NotLost(r)'
  BY <1>1, <1>2 DEF NotLost, Live
<1>12. Cleared(r)'
  <2>1. SUFFICES ASSUME Stays(r), ReadsFirst(bp), KnowsNames(bp), DropsByAddress(bp),
                        r \in imported => ~bp.gap,
                        NEW j \in DOMAIN bp.delete, j < job[r].at + 1, DropsAt(bp, j)
                 PROVE  cloud'[bp.delete[j].kind][res[r].addr] \notin {r, Outside}
    BY <1>2, <1>3, <1>4, Static DEF Cleared, Stays
  <2>2. bp.delete[j].kind \in Kinds /\ res[r].addr \in Addresses
    BY Typing, StepTyped
  <2>3. CASE j < job[r].at
    <3>1. cloud[bp.delete[j].kind][res[r].addr] \notin {r, Outside}
      BY <2>1, <2>3 DEF Sound, Cleared
    <3> QED
      BY <1>5, <2>2, <3>1
  <2>4. CASE j = job[r].at
    <3>1. as = Reached(r)
      BY <2>1, <2>4
    <3>2. "misnamed" \notin res[r].keys
      BY <2>1 DEF Sound, Named
    <3>3. job[r].addr = res[r].addr
      BY <1>7, <2>1 DEF Sound, Tearing
    <3>4. res[r].addr \in as
      BY <3>1, <3>2, <3>3 DEF Reached
    <3>5. cloud'[k0][res[r].addr] = Nobody
      BY <1>1, <1>3, <2>2, <3>4
    <3> QED
      BY <2>4, <3>5, OwnersDiffer DEF k0
  <2>5. j \in Nat /\ job[r].at \in Nat
    <3>1. j \in DOMAIN bp.delete /\ Len(bp.delete) \in Nat /\ DOMAIN bp.delete = 1..Len(bp.delete)
      BY <2>1, Typing
    <3> QED
      BY <1>1, <3>1
  <2>6. j < job[r].at \/ j = job[r].at
    <3>1. j < job[r].at + 1
      BY <2>1
    <3> QED
      BY <2>5, <3>1
  <2> QED
    BY <2>3, <2>4, <2>6
<1>13. Earned(r)'
  <2>1. SUFFICES ASSUME RecordsItsOwn, r \notin imported \cup moved \cup robbed', res[r].keys # {}
                 PROVE  Owed(r, Len(bp.create) + 1)'
    BY <1>2, <1>3, <1>4, Static DEF Earned
  <2>2. Owed(r, Len(bp.create) + 1)
    BY <1>3, <2>1 DEF Sound, Earned
  <2>3. \A j \in DOMAIN bp.create : Owns(r, bp.create[j].kind, res[r].addr) =>
          cloud'[bp.create[j].kind][res[r].addr] = r
    <3>1. \A a \in as : cloud[k0][a] # r
      BY <1>3, <2>1
    <3> QED
      <4>1. ASSUME NEW j \in DOMAIN bp.create, Owns(r, bp.create[j].kind, res[r].addr)
            PROVE  cloud'[bp.create[j].kind][res[r].addr] = r
        <5>1. bp.create[j].kind \in Kinds /\ res[r].addr \in Addresses
          BY Typing, StepTyped
        <5>2. cloud[bp.create[j].kind][res[r].addr] = r
          BY <4>1 DEF Owns
        <5> QED
          BY <1>3, <3>1, <5>1, <5>2
      <4> QED
        BY <4>1
  <2>4. Owed(r, Len(bp.create) + 1)' <=> \A j \in DOMAIN bp.create :
          j < Len(bp.create) + 1 /\ MakesAt(bp, j) => cloud'[bp.create[j].kind][res[r].addr] = r
    BY <1>2, Static DEF Owed, Owns
  <2> QED
    BY <2>2, <2>3, <2>4 DEF Owed
<1> QED
  BY <1>6, <1>8, <1>10, <1>11, <1>12, <1>13 DEF Sound

\* A blueprint is ordered.
LEMMA OrderSound ==
    ASSUME TypeOK, NEW r \in Resources, Sound(r), NEW a \in Addresses, Order(r, a)
    PROVE  Sound(r)'
<1>1. res'[r] = [state |-> "new", keys |-> {}, addr |-> a]
      /\ job'[r] = [pc |-> "create", at |-> 1, addr |-> a]
  BY DEF Order, TypeOK
<1>2. bp' = bp /\ cloud' = cloud /\ imported' = imported /\ moved' = moved /\ robbed' = robbed
  BY DEF Order, history
<1>3. r \notin imported /\ r \notin moved /\ \A k \in Kinds, b \in Addresses : cloud[k][b] # r
  BY DEF Order, Sound, Remembered, Owning, Owns, Exists
<1>4. Working(r)' /\ Tearing(r)' /\ Cleared(r)' /\ Deletable(r)'
  BY <1>1 DEF Working, Live, Tearing, Cleared, Deletable
<1>5. Building(r)'
  <2>1. Saved(r, job[r].at)'
    BY <1>1, <1>2, Typing DEF Saved
  <2> QED
    BY <1>1, <1>2, <1>3, <2>1 DEF Building
<1>6. Owning(r)' /\ NotLost(r)' /\ Remembered(r)' /\ Named(r)'
  BY <1>1, <1>2, <1>3 DEF Owning, NotLost, Owns, Remembered, Named
<1>7. Earned(r)'
  <2>1. Owed(r, job[r].at)'
    BY <1>1, <1>2, Typing DEF Owed
  <2> QED
    BY <1>1, <2>1 DEF Earned
<1> QED
  BY <1>4, <1>5, <1>6, <1>7 DEF Sound

\* A row that is not there yet has no job, no history and no object.
LEMMA NothingYet ==
    ASSUME TypeOK, NEW r \in Resources, Sound(r), res[r].state = "none"
    PROVE  /\ job[r].pc = "idle" /\ r \notin imported /\ r \notin moved
           /\ \A k \in Kinds, a \in Addresses : cloud[k][a] # r
  BY DEF Sound, Working, Live, Remembered, Exists, Owning, Owns

\* Discovery makes a resource of what it found.
LEMMA ImportSound ==
    ASSUME TypeOK, IsOrderly(bp), bp.finds # {}, NEW r \in Resources, Sound(r), NEW a \in Addresses,
           Import(r, a), UNCHANGED <<bp, cloud, robbed>>
    PROVE  Sound(r)'
<1>1. /\ res'[r] = [state |-> "active", keys |-> bp.finds, addr |-> a]
      /\ job' = job /\ imported' = imported \cup {r} /\ moved' = moved
  BY DEF Import, TypeOK
<1>2. job[r].pc = "idle" /\ r \notin moved /\ \A k \in Kinds, b \in Addresses : cloud[k][b] # r
  BY NothingYet DEF Import
<1>3. Working(r)' /\ Building(r)' /\ Tearing(r)' /\ Cleared(r)' /\ Earned(r)'
  BY <1>1, <1>2 DEF Working, Building, Tearing, Cleared, Earned
<1>4. Owning(r)' /\ NotLost(r)' /\ Remembered(r)'
  BY <1>1, <1>2 DEF Owning, NotLost, Owns, Remembered, Exists
<1>5. Named(r)'
  BY <1>1, Static DEF Named, KnowsNames
<1>6. Deletable(r)'
  <2>1. ~GivesUp(bp.create) /\ ~bp.gap => NeededKeys(bp) \subseteq bp.finds
    BY DEF IsOrderly, SavesWhatItNeeds, FindsWhatItNeeds
  <2> QED
    BY <1>1, <2>1, Static DEF Deletable
<1> QED
  BY <1>3, <1>4, <1>5, <1>6 DEF Sound

\* What discovery does to a resource it knows.
LEMMA RefreshIs ==
    ASSUME TypeOK, NEW r \in Resources, NEW a \in Addresses, Refresh(r, a)
    PROVE  \E b \in Addresses :
             /\ Becomes(r, Row(IF ByTitle THEN "active" ELSE res[r].state, res[r].keys \cup bp.finds, b),
                        job[r])
             /\ moved' = IF b = res[r].addr THEN moved ELSE moved \cup {r}
<1> DEFINE p == IF "place" \in bp.finds THEN a.place ELSE res[r].addr.place
           n == IF "name" \in bp.finds THEN a.name ELSE res[r].addr.name
           b == [name |-> n, place |-> p]
           s == IF ByTitle THEN "active" ELSE res[r].state
           x == [res[r] EXCEPT !.keys = @ \cup bp.finds, !.state = IF ByTitle THEN "active" ELSE @,
                               !.addr.place = IF "place" \in bp.finds THEN a.place ELSE @,
                               !.addr.name = IF "name" \in bp.finds THEN a.name ELSE @]
<1>1. res' = [res EXCEPT ![r] = x]
  BY ZenonT(80) DEF Refresh
<1>2. b \in Addresses
  BY Typing DEF Addresses
<1>3. x = Row(s, res[r].keys \cup bp.finds, b)
  <2>1. /\ res[r] \in [state : States, keys : SUBSET Keys, addr : [name : Names, place : Places]]
        /\ a \in [name : Names, place : Places] /\ bp.finds \in SUBSET Keys /\ "active" \in States
    BY Typing DEF ResType, Addresses, States
  <2>2. x \in [state : States, keys : SUBSET Keys, addr : [name : Names, place : Places]]
    BY <2>1
  <2>3. x.keys = res[r].keys \cup bp.finds /\ x.state = s
    BY <2>1
  <2>4. x.addr.place = p /\ x.addr.name = n
    BY <2>1
  <2> HIDE DEF x, s, p, n
  <2>5. x = [state |-> x.state, keys |-> x.keys, addr |-> [name |-> x.addr.name, place |-> x.addr.place]]
    BY <2>2
  <2> QED
    BY <2>3, <2>4, <2>5 DEF Row
<1> HIDE DEF x, b, s, p, n
<1>4. res' = [res EXCEPT ![r] = Row(s, res[r].keys \cup bp.finds, b)]
  BY <1>1, <1>3
<1>5. res'[r].addr = b
  BY <1>4 DEF TypeOK, Row
<1>6. moved' = IF b = res[r].addr THEN moved ELSE moved \cup {r}
  BY <1>5 DEF Refresh
<1>7. job' = [job EXCEPT ![r] = job[r]]
  BY DEF Refresh, TypeOK
<1> QED
  BY <1>2, <1>4, <1>6, <1>7 DEF Becomes, s

LEMMA RefreshSound ==
    ASSUME TypeOK, IsOrderly(bp), bp.finds # {}, NEW r \in Resources, Sound(r), NEW a \in Addresses,
           Refresh(r, a), UNCHANGED <<bp, cloud, robbed>>
    PROVE  Sound(r)'
<1>1. PICK b \in Addresses :
        /\ Becomes(r, Row(IF ByTitle THEN "active" ELSE res[r].state, res[r].keys \cup bp.finds, b), job[r])
        /\ moved' = IF b = res[r].addr THEN moved ELSE moved \cup {r}
  BY RefreshIs
<1>2. /\ res'[r] = Row(IF ByTitle THEN "active" ELSE res[r].state, res[r].keys \cup bp.finds, b)
      /\ job'[r] = job[r]
  BY <1>1, BecomesGives
<1>3. /\ res'[r].state = IF ByTitle THEN "active" ELSE res[r].state
      /\ res'[r].keys = res[r].keys \cup bp.finds
      /\ res'[r].addr = b
  BY <1>2 DEF Row
<1>4. Stays(r)' => Stays(r) /\ res'[r].addr = res[r].addr
  BY <1>1, <1>3 DEF Stays
<1>5. imported' = imported /\ moved \subseteq moved' /\ moved' \subseteq moved \cup {r}
  BY <1>1 DEF Refresh
<1>6. Exists(r) /\ Exists(r)' /\ (Live(r) => Live(r)') /\ Identifying \subseteq res[r].keys
  <2>1. r \in Matches(a)
    BY DEF Refresh
  <2>2. Exists(r) /\ Identifying \subseteq res[r].keys
    BY <2>1 DEF Matches, Exists, Live
  <2>3. Exists(r)' /\ (Live(r) => Live(r)')
    BY <1>3, <2>2 DEF Exists, Live
  <2> QED
    BY <2>2, <2>3
<1>7. \A i : Saved(r, i) => Saved(r, i)'
  <2>1. \A i : Saved(r, i)' <=> \A j \in DOMAIN bp.create :
          j < i /\ OpAt(bp.create, j) = "Save" =>
            bp.create[j].keys \subseteq res[r].keys \cup bp.finds
    BY <1>3, Static DEF Saved
  <2> QED
    BY <2>1 DEF Saved
<1>8. Working(r)' /\ NotLost(r)'
  BY <1>2, <1>3, <1>4, <1>5, <1>6, Static DEF Sound, Working, NotLost, Owns
<1>9. Tearing(r)'
  BY <1>2, <1>3, <1>4, Static DEF Sound, Tearing
<1>10. Cleared(r)'
  BY <1>2, <1>3, <1>4, <1>5, Static DEF Sound, Cleared
<1>11. Building(r)'
  <2>1. Saved(r, job[r].at)' <=> \A j \in DOMAIN bp.create :
          j < job[r].at /\ OpAt(bp.create, j) = "Save" =>
            bp.create[j].keys \subseteq res[r].keys \cup bp.finds
    BY <1>2, <1>3, Static DEF Saved
  <2> QED
    BY <1>2, <1>4, <1>5, <2>1 DEF Sound, Building, Saved
<1>12. Owning(r)'
  BY <1>3, <1>4, <1>5, <1>6, <1>7, Static DEF Sound, Owning, Owns
<1>13. Remembered(r)'
  BY <1>3, <1>5, <1>6 DEF Remembered
<1>14. Named(r)'
  <2>1. KnowsNames(bp) /\ "misnamed" \in bp.finds => "misnamed" \in Identifying
    BY DEF KnowsNames, Identifying, Keys
  <2> QED
    BY <1>3, <1>5, <1>6, <2>1, Static DEF Sound, Named
<1>15. Deletable(r)'
  <2>1. ~GivesUp(bp.create) /\ ByTitle => NeededKeys(bp) \subseteq bp.finds
    BY DEF IsOrderly, SavesWhatItNeeds, ByTitle
  <2> QED
    BY <1>3, <1>5, <2>1, Static DEF Sound, Deletable
<1>16. Earned(r)'
  <2>1. SUFFICES ASSUME RecordsItsOwn, r \notin imported \cup moved' \cup robbed
                 PROVE  /\ job[r].pc = "create" => Owed(r, job[r].at)'
                        /\ Owed(r, Len(bp.create) + 1)'
    BY <1>2, <1>5, Static DEF Earned
  <2>2. res[r].keys # {} /\ r \notin moved /\ res'[r].addr = res[r].addr
    BY <1>4, <1>6, <2>1 DEF RecordsItsOwn, Stays
  <2>3. Owed(r, job[r].at)' = Owed(r, job[r].at)
    BY <1>2, <2>2, Static DEF Owed, Owns
  <2>4. Owed(r, Len(bp.create) + 1)' = Owed(r, Len(bp.create) + 1)
    BY <2>2, Static DEF Owed, Owns
  <2> QED
    BY <2>1, <2>2, <2>3, <2>4 DEF Sound, Earned
<1> QED
  BY <1>8, <1>9, <1>10, <1>11, <1>12, <1>13, <1>14, <1>15, <1>16 DEF Sound
-----------------------------------------------------------------------------
(* Each step keeps the invariant *)

\* What a step of r may do to the cloud: leave an address alone, delete what is there,
\* or make an object where there is none.
Touches(r) ==
    \A k \in Kinds, a \in Addresses :
      \/ cloud'[k][a] = cloud[k][a]
      \/ cloud'[k][a] = Nobody /\ (cloud[k][a] \in Resources => cloud[k][a] \in robbed')
      \/ /\ cloud'[k][a] = r /\ cloud[k][a] = Nobody
         /\ job[r].pc = "create" /\ a = job[r].addr

LEMMA OwnStep ==
    ASSUME IInv, NEW r \in Resources, NEW x \in ResType, NEW y \in JobType, Becomes(r, x, y),
           y.at <= Len(bp.create) + Len(bp.delete) + 1, Sound(r)', bp' = bp, found' \subseteq found,
           cloud' \in [Kinds -> [Addresses -> Resources \cup {Nobody, Outside}]], Touches(r),
           imported' \subseteq Resources, moved' \subseteq Resources,
           robbed \subseteq robbed', robbed' \subseteq Resources,
           \A q \in Resources \ {r} : /\ q \in imported' <=> q \in imported
                                      /\ q \in moved' <=> q \in moved,
           x.state # "none" /\ r \notin imported' \cup moved' =>
             Exists(r) /\ r \notin imported \cup moved /\ x.addr = res[r].addr,
           y.pc = "create" => job[r].pc = "create" /\ y.addr = job[r].addr
    PROVE  IInv'
<1>1. TypeOK /\ TypeOK'
  BY BecomesTyped DEF IInv, TypeOK
<1>2. /\ res'[r] = x /\ job'[r] = y
      /\ \A q \in Resources : q # r => res'[q] = res[q] /\ job'[q] = job[q]
  BY <1>1, BecomesGives
<1>3. ASSUME NEW q \in Resources, q # r PROVE Sound(q)'
  <2>1. \A k \in Kinds, a \in Addresses :
          /\ cloud'[k][a] = q => cloud[k][a] = q
          /\ cloud[k][a] = q => cloud'[k][a] = q \/ q \in robbed'
          /\ cloud'[k][a] = Outside => cloud[k][a] = Outside
    BY <1>3, OwnersDiffer DEF Touches
  <2>2. Aside(q)
    BY <1>2, <1>3, <2>1 DEF Aside
  <2> QED
    BY <1>1, <2>2, Frame DEF IInv
<1>4. found' # {} => bp'.finds # {}
  BY DEF IInv
<1>5. ASSUME NEW q \in Resources PROVE Private(q)'
  <2>1. SUFFICES ASSUME bp.scope = "fresh", Exists(q)', q \notin imported' \cup moved'
                 PROVE  /\ \A k \in Kinds, a \in Addresses :
                             a.place = res'[q].addr.place => cloud'[k][a] \in {Nobody, q}
                        /\ \A p \in Resources \ {q} : Apart(q, p)'
    BY DEF Private
  <2>2. Exists(q) /\ q \notin imported \cup moved /\ res'[q].addr = res[q].addr
    BY <1>2, <2>1 DEF Exists
  <2>3. /\ \A k \in Kinds, a \in Addresses :
             a.place = res[q].addr.place => cloud[k][a] \in {Nobody, q}
        /\ \A p \in Resources \ {q} : Apart(q, p)
    BY <2>1, <2>2 DEF IInv, Private
  <2>4. \A p \in Resources \ {q} : Apart(q, p)'
    BY <1>2, <2>2, <2>3 DEF Apart
  <2>5. ASSUME NEW k \in Kinds, NEW a \in Addresses, a.place = res[q].addr.place
        PROVE  cloud'[k][a] \in {Nobody, q}
    <3>1. cloud[k][a] \in {Nobody, q}
      BY <2>3, <2>5
    <3>2. q = r \/ ~(job[r].pc = "create" /\ a = job[r].addr)
      BY <2>3, <2>5 DEF Apart
    <3> QED
      BY <3>1, <3>2 DEF Touches
  <2> QED
    BY <2>2, <2>4, <2>5
<1> QED
  BY <1>1, <1>3, <1>4, <1>5 DEF IInv

\* The end of a job.
LEMMA FinishKept ==
    ASSUME IInv, NEW r \in Resources, NEW s \in {"active", "failed", "gone"}, Finish(r, s),
           job[r].pc # "idle", Quiet, found' = found,
           s = "active" => Fit(r),
           s = "gone" => Bare(r)
    PROVE  IInv'
<1>1. TypeOK /\ Sound(r) /\ Live(r) /\ Exists(r)
  BY DEF IInv, Sound, Working, Live, Exists
<1>2. Sound(r)'
  BY <1>1, FinishSound
<1>3. Becomes(r, Row(s, res[r].keys, res[r].addr), NoJob)
  BY <1>1, FinishIs
<1>4. NoJob \in JobType /\ NoJob.pc = "idle" /\ NoJob.at = 0
  BY NoJobTyped DEF Task
<1>5. Row(s, res[r].keys, res[r].addr) \in ResType
  BY <1>1, Typing DEF Row, ResType, States
<1>6. Row(s, res[r].keys, res[r].addr).addr = res[r].addr
  BY DEF Row
<1>7. 0 <= Len(bp.create) + Len(bp.delete) + 1
  <2>1. \A n, m \in Nat : 0 <= n + m + 1
    OBVIOUS
  <2> QED
    BY <1>1, <2>1, Typing
<1>8. Touches(r) /\ cloud' \in [Kinds -> [Addresses -> Resources \cup {Nobody, Outside}]]
  BY <1>1 DEF Touches, Quiet, TypeOK
<1> QED
  BY <1>1, <1>2, <1>3, <1>4, <1>5, <1>6, <1>7, <1>8, OwnStep DEF Quiet, TypeOK

LEMMA NextAt ==
    ASSUME TypeOK, NEW r \in Resources, job[r].at \in Nat \ {0}, NEW s \in {bp.create, bp.delete},
           job[r].at \in DOMAIN s, NEW a \in Addresses
    PROVE  /\ Task(job[r].pc, job[r].at + 1, a) \in JobType
           /\ Task(job[r].pc, job[r].at + 1, a).at <= Len(bp.create) + Len(bp.delete) + 1
<1>1. Task(job[r].pc, job[r].at + 1, a) \in JobType
  <2>1. job[r].at + 1 \in Nat /\ job[r].pc \in {"idle", "create", "delete"}
    BY Typing
  <2> QED
    BY <2>1 DEF Task, JobType
<1>2. Task(job[r].pc, job[r].at + 1, a).at = job[r].at + 1
  BY DEF Task
<1>3. job[r].at <= Len(s) /\ Len(bp.create) \in Nat /\ Len(bp.delete) \in Nat
      /\ Len(s) \in {Len(bp.create), Len(bp.delete)}
  BY Typing
<1>4. \A i, m, n \in Nat : i <= m \/ i <= n => i + 1 <= m + n + 1
  OBVIOUS
<1> QED
  BY <1>1, <1>2, <1>3, <1>4

\* A step that is passed over.
LEMMA SkipKept ==
    ASSUME IInv, NEW r \in Resources, job[r].pc # "idle", Idle(r), Advance(r), UNCHANGED res,
           Quiet, found' = found
    PROVE  IInv'
<1>1. TypeOK /\ Sound(r) /\ Exists(r) /\ job[r].at \in Nat \ {0} /\ job[r].addr \in Addresses
      /\ res[r] \in ResType
  BY Typing DEF IInv, Sound, Working, Live, Exists
<1>2. Sound(r)'
  BY <1>1, SkipSound
<1> DEFINE y == Task(job[r].pc, job[r].at + 1, job[r].addr)
<1>3. Becomes(r, res[r], y)
  BY <1>1, AdvanceIs
<1>4. job[r].at \in DOMAIN bp.create \/ job[r].at \in DOMAIN bp.delete
  BY <1>1, Typing DEF Idle
<1>5. y \in JobType /\ y.at <= Len(bp.create) + Len(bp.delete) + 1
  BY <1>1, <1>4, NextAt
<1>6. y.pc = job[r].pc /\ y.addr = job[r].addr
  BY DEF Task
<1>7. Touches(r) /\ cloud' \in [Kinds -> [Addresses -> Resources \cup {Nobody, Outside}]]
  BY <1>1 DEF Touches, Quiet, TypeOK
<1> HIDE DEF y
<1> QED
  BY <1>1, <1>2, <1>3, <1>5, <1>6, <1>7, OwnStep DEF Quiet, TypeOK

\* What the assignments to several fields of a record leave.
LEMMA RowSet ==
    ASSUME NEW y \in ResType, NEW ks \in SUBSET Keys, NEW a \in Addresses
    PROVE  [y EXCEPT !.keys = @ \cup ks, !.addr = a] = Row(y.state, y.keys \cup ks, a)
<1> DEFINE x == [y EXCEPT !.keys = @ \cup ks, !.addr = a]
<1>1. x \in [state : States, keys : SUBSET Keys, addr : Addresses]
  BY DEF ResType
<1>2. x.state = y.state /\ x.keys = y.keys \cup ks /\ x.addr = a
  BY DEF ResType
<1> HIDE DEF x
<1>3. x = [state |-> x.state, keys |-> x.keys, addr |-> x.addr]
  BY <1>1
<1>4. x = Row(y.state, y.keys \cup ks, a)
  BY <1>2, <1>3 DEF Row
<1> QED
  BY <1>4 DEF x

LEMMA TaskSet ==
    ASSUME NEW j \in JobType, NEW a \in Addresses
    PROVE  [j EXCEPT !.at = @ + 1, !.addr = a] = Task(j.pc, j.at + 1, a)
<1> DEFINE x == [j EXCEPT !.at = @ + 1, !.addr = a]
<1>1. j \in [pc : {"idle", "create", "delete"}, at : Nat, addr : Addresses]
  BY DEF JobType
<1>2. j.at + 1 \in Nat
  BY <1>1
<1>3. x \in [pc : {"idle", "create", "delete"}, at : Nat, addr : Addresses]
  BY <1>1, <1>2
<1>4. x.pc = j.pc /\ x.at = j.at + 1 /\ x.addr = a
  BY <1>1
<1> HIDE DEF x
<1>5. x = [pc |-> x.pc, at |-> x.at, addr |-> x.addr]
  BY <1>3
<1>6. x = Task(j.pc, j.at + 1, a)
  BY <1>4, <1>5 DEF Task
<1> QED
  BY <1>6 DEF x

LEMMA TaskBegun ==
    ASSUME NEW j \in JobType
    PROVE  [j EXCEPT !.pc = "delete", !.at = 1] = Task("delete", 1, j.addr)
<1> DEFINE x == [j EXCEPT !.pc = "delete", !.at = 1]
<1>1. x \in [pc : {"idle", "create", "delete"}, at : Nat, addr : Addresses]
  BY DEF JobType
<1>2. x.pc = "delete" /\ x.at = 1 /\ x.addr = j.addr
  BY DEF JobType
<1> HIDE DEF x
<1>3. x = [pc |-> x.pc, at |-> x.at, addr |-> x.addr]
  BY <1>1
<1>4. x = Task("delete", 1, j.addr)
  BY <1>2, <1>3 DEF Task
<1> QED
  BY <1>4 DEF x

LEMMA GivesUpAt ==
    ASSUME NEW s, NEW i \in DOMAIN s,
           s[i].op \in {"GiveUp", "Forget", "Warn", "TryMake", "TryDrop"}
    PROVE  GivesUp(s)
  BY DEF GivesUp, OpAt

LEMMA GiveUpKept == ASSUME IInv, NEW r \in Resources, GiveUp(r) PROVE IInv'
<1>1. PICK pc \in {"create", "delete"} : Doing(r, pc, "GiveUp")
  BY DEF GiveUp
<1>2. TypeOK /\ Working(r) /\ Quiet /\ found' = found
  BY DEF IInv, Sound, GiveUp, Quiet, history
<1>3. /\ job[r].pc = pc /\ job[r].pc # "idle"
      /\ pc = "create" => job[r].at \in DOMAIN bp.create /\ bp.create[job[r].at].op = "GiveUp"
      /\ pc = "delete" => job[r].at \in DOMAIN bp.delete /\ bp.delete[job[r].at].op = "GiveUp"
  BY <1>1, <1>2, DoingStep
<1>4. CASE Finish(r, IF job[r].pc = "create" THEN "active" ELSE "gone")
  <2>1. CASE pc = "create"
    <3>1. Fit(r)
      BY <1>3, <2>1, GivesUpAt DEF Fit
    <3>2. Finish(r, "active")
      BY <1>3, <1>4, <2>1
    <3> QED
      BY <1>2, <1>3, <3>1, <3>2, FinishKept
  <2>2. CASE pc = "delete"
    <3>1. Bare(r)
      BY <1>3, <2>2, GivesUpAt DEF Bare, SavesFirst
    <3>2. Finish(r, "gone")
      BY <1>3, <1>4, <2>2
    <3> QED
      BY <1>2, <1>3, <3>1, <3>2, FinishKept
  <2> QED
    BY <2>1, <2>2
<1>5. CASE Advance(r) /\ UNCHANGED res
  <2>1. Idle(r)
    BY <1>3 DEF Idle, OpAt, MakesAt, DropsAt
  <2> QED
    BY <1>2, <1>3, <1>5, <2>1, SkipKept
<1> QED
  BY <1>4, <1>5 DEF GiveUp

LEMMA ForgetKept == ASSUME IInv, NEW r \in Resources, Forget(r) PROVE IInv'
<1>1. TypeOK /\ Working(r) /\ Quiet /\ found' = found /\ Doing(r, "create", "Forget")
  BY DEF IInv, Sound, Forget, Quiet, history
<1>2. /\ job[r].pc = "create" /\ job[r].at \in DOMAIN bp.create
      /\ bp.create[job[r].at].op = "Forget"
  BY <1>1, DoingStep
<1>3. CASE Finish(r, "gone")
  <2>1. Bare(r)
    BY <1>2, GivesUpAt DEF Bare, SavesFirst
  <2> QED
    BY <1>1, <1>2, <1>3, <2>1, FinishKept
<1>4. CASE Advance(r) /\ UNCHANGED res
  <2>1. Idle(r)
    BY <1>2 DEF Idle, OpAt, MakesAt
  <2> QED
    BY <1>1, <1>2, <1>4, <2>1, SkipKept
<1> QED
  BY <1>3, <1>4 DEF Forget

LEMMA SaveKept == ASSUME IInv, NEW r \in Resources, Save(r) PROVE IInv'
<1> DEFINE x == Row(res[r].state, res[r].keys \cup StepOf(r).keys, job[r].addr)
           y == Task("create", job[r].at + 1, job[r].addr)
<1>1. TypeOK /\ Sound(r) /\ Working(r) /\ Doing(r, "create", "Save")
  BY DEF IInv, Sound, Save
<1>2. /\ job[r].pc = "create" /\ Live(r) /\ job[r].at \in DOMAIN bp.create
      /\ StepOf(r).keys \in SUBSET Keys /\ job[r].at \in Nat \ {0} /\ job[r].addr \in Addresses
  BY <1>1, DoingStep, Typing DEF Working
<1>3. Becomes(r, x, y)
  <2>1. res' = [res EXCEPT ![r] = [res[r] EXCEPT !.keys = @ \cup StepOf(r).keys, !.addr = job[r].addr]]
    BY DEF Save
  <2>2. [res[r] EXCEPT !.keys = @ \cup StepOf(r).keys, !.addr = job[r].addr] = x
    <3>1. res[r] \in ResType /\ job[r] \in JobType
      BY <1>1, Typing
    <3>2. [res[r] EXCEPT !.keys = @ \cup StepOf(r).keys, !.addr = job[r].addr]
            = Row(res[r].state, res[r].keys \cup StepOf(r).keys, job[r].addr)
      BY <1>2, <3>1, RowSet
    <3> QED
      BY <3>2
  <2>3. job' = [job EXCEPT ![r] = [job[r] EXCEPT !.at = @ + 1]]
    BY DEF Save, Advance
  <2>4. [job[r] EXCEPT !.at = @ + 1] = y
    BY <1>1, <1>2 DEF TypeOK, JobType, Task
  <2> QED
    BY <2>1, <2>2, <2>3, <2>4 DEF Becomes
<1>4. x \in ResType
  BY <1>1, <1>2, Typing DEF Row, ResType
<1>5. y \in JobType /\ y.at <= Len(bp.create) + Len(bp.delete) + 1
  BY <1>1, <1>2, NextAt
<1>6. y.pc = "create" /\ y.addr = job[r].addr /\ x.addr = job[r].addr
  BY DEF Task, Row
<1>7. Stays(r) => x.addr = res[r].addr
  BY <1>1, <1>2, <1>6 DEF Sound, Building
<1>8. Sound(r)'
  BY <1>1, SaveSound
<1>9. Touches(r) /\ UNCHANGED <<bp, cloud, found, imported, moved, robbed>>
  BY DEF Touches, Save, history
<1>10. Exists(r)
  BY <1>2 DEF Live, Exists
<1> HIDE DEF x, y
<1> QED
  BY <1>1, <1>2, <1>3, <1>4, <1>5, <1>6, <1>7, <1>8, <1>9, <1>10, OwnStep DEF TypeOK, Stays

LEMMA CheckKept == ASSUME IInv, NEW r \in Resources, Check(r) PROVE IInv'
<1>1. PICK op \in {"Check", "Warn"} : Doing(r, "create", op)
  BY DEF Check
<1>2. TypeOK /\ Working(r) /\ Quiet /\ found' = found
  BY DEF IInv, Sound, Check, Quiet, history
<1>3. /\ job[r].pc = "create" /\ job[r].at \in DOMAIN bp.create
      /\ bp.create[job[r].at].op = op /\ StepOf(r).op = op
  BY <1>1, <1>2, DoingStep
<1>4. CASE Advance(r) /\ UNCHANGED res
  <2>1. Idle(r)
    BY <1>3 DEF Idle, OpAt, MakesAt
  <2> QED
    BY <1>2, <1>3, <1>4, <2>1, SkipKept
<1>5. CASE Finish(r, IF StepOf(r).op = "Check" THEN "failed" ELSE "active")
  <2>1. CASE op = "Check"
    <3>1. Finish(r, "failed")
      BY <1>3, <1>5, <2>1
    <3> QED
      BY <1>2, <1>3, <3>1, FinishKept
  <2>2. CASE op = "Warn"
    <3>1. Fit(r)
      BY <1>3, <2>2, GivesUpAt DEF Fit
    <3>2. Finish(r, "active")
      BY <1>3, <1>5, <2>2
    <3> QED
      BY <1>2, <1>3, <3>1, <3>2, FinishKept
  <2> QED
    BY <2>1, <2>2
<1> QED
  BY <1>4, <1>5 DEF Check

LEMMA MakeNewKept ==
    ASSUME IInv, NEW r \in Resources, NEW op \in {"Make", "TryMake", "Upsert"},
           Doing(r, "create", op), MakeNew(r), UNCHANGED <<bp, found, history>>
    PROVE  IInv'
<1> DEFINE y == Task(job[r].pc, job[r].at + 1, job[r].addr)
<1>1. TypeOK /\ Sound(r) /\ Working(r)
  BY DEF IInv, Sound
<1>2. /\ job[r].pc = "create" /\ Live(r) /\ job[r].at \in DOMAIN bp.create
      /\ StepOf(r) = bp.create[job[r].at] /\ bp.create[job[r].at].op = op
      /\ StepOf(r).kind \in Kinds
      /\ job[r].at \in Nat \ {0} /\ job[r].addr \in Addresses /\ res[r] \in ResType
  BY <1>1, DoingStep, Typing DEF Working
<1>3. UNCHANGED <<bp, found, imported, moved, robbed>>
  BY DEF history
<1>4. Sound(r)'
  <2>1. MakesAt(bp, job[r].at)
    BY <1>2 DEF MakesAt, OpAt
  <2> QED
    BY <1>1, <1>2, <1>3, <2>1, MakeSound
<1>5. /\ cloud[StepOf(r).kind][job[r].addr] = Nobody
      /\ cloud' \in [Kinds -> [Addresses -> Resources \cup {Nobody, Outside}]]
      /\ Becomes(r, res[r], y)
  BY <1>1, <1>2, MakeNewIs
<1>6. \A k \in Kinds, a \in Addresses :
        cloud'[k][a] = IF k = StepOf(r).kind /\ a = job[r].addr THEN r ELSE cloud[k][a]
  BY <1>1, <1>2, MakeNewIs, ZenonT(120)
<1>7. Touches(r)
  BY <1>2, <1>5, <1>6 DEF Touches
<1>8. y \in JobType /\ y.at <= Len(bp.create) + Len(bp.delete) + 1
  BY <1>1, <1>2, NextAt
<1>9. y.pc = "create" /\ y.addr = job[r].addr
  BY <1>2 DEF Task
<1>10. Exists(r)
  BY <1>2 DEF Live, Exists
<1> HIDE DEF y
<1> QED
  BY <1>1, <1>2, <1>3, <1>4, <1>5, <1>7, <1>8, <1>9, <1>10, OwnStep DEF TypeOK

LEMMA RefusedKept ==
    ASSUME IInv, NEW r \in Resources, job[r].pc = "create", Refused(r),
           UNCHANGED <<bp, found, history>>
    PROVE  IInv'
<1>1. Finish(r, "failed") /\ Quiet /\ found' = found
  BY DEF Refused, Quiet, history
<1> QED
  BY <1>1, FinishKept

LEMMA MakeKept == ASSUME IInv, NEW r \in Resources, Make(r) PROVE IInv'
<1>1. Doing(r, "create", "Make") /\ job[r].pc = "create" /\ UNCHANGED <<bp, found, history>>
  BY DEF Make, Doing
<1>2. CASE MakeNew(r)
  BY <1>1, <1>2, MakeNewKept
<1>3. CASE Refused(r)
  BY <1>1, <1>3, RefusedKept
<1> QED
  BY <1>2, <1>3 DEF Make

LEMMA TryMakeKept == ASSUME IInv, NEW r \in Resources, TryMake(r) PROVE IInv'
<1>1. Doing(r, "create", "TryMake") /\ UNCHANGED <<bp, found, history>>
  BY DEF TryMake
<1>2. CASE MakeNew(r)
  BY <1>1, <1>2, MakeNewKept
<1>3. CASE Finish(r, "active") /\ UNCHANGED cloud
  <2>1. TypeOK /\ Working(r) /\ Quiet /\ found' = found
    BY <1>1, <1>3 DEF IInv, Sound, Quiet, history
  <2>2. job[r].pc = "create" /\ job[r].at \in DOMAIN bp.create /\ bp.create[job[r].at].op = "TryMake"
    BY <1>1, <2>1, DoingStep
  <2>3. Fit(r)
    BY <2>2, GivesUpAt DEF Fit
  <2> QED
    BY <1>3, <2>1, <2>2, <2>3, FinishKept
<1> QED
  BY <1>2, <1>3 DEF TryMake

LEMMA UpsertKept == ASSUME IInv, NEW r \in Resources, Upsert(r) PROVE IInv'
<1>1. /\ Doing(r, "create", "Upsert") /\ job[r].pc = "create"
      /\ UNCHANGED <<bp, found, history>>
  BY DEF Upsert, Doing
<1>2. CASE MakeNew(r)
  BY <1>1, <1>2, MakeNewKept
<1>3. CASE Object(r) = Nobody /\ Refused(r)
  BY <1>1, <1>3, RefusedKept
<1>4. CASE Object(r) # Nobody /\ Advance(r) /\ UNCHANGED <<cloud, res>>
  <2>1. TypeOK /\ Working(r) /\ Quiet /\ found' = found
    BY <1>1, <1>4 DEF IInv, Sound, Quiet, history
  <2>2. job[r].at \in DOMAIN bp.create /\ bp.create[job[r].at].op = "Upsert"
    BY <1>1, <2>1, DoingStep
  <2>3. Idle(r)
    BY <1>1, <2>2 DEF Idle, OpAt, RecordsLast
  <2> QED
    BY <1>1, <1>4, <2>1, <2>3, SkipKept
<1> QED
  BY <1>2, <1>3, <1>4 DEF Upsert

\* create.py has come to its end.
LEMMA BuiltKept ==
    ASSUME IInv, IsOrderly(bp), NEW r \in Resources, Built(r) PROVE IInv'
<1>1. TypeOK /\ Sound(r) /\ job[r].pc = "create" /\ Finish(r, "active") /\ Quiet /\ found' = found
  BY DEF IInv, Built, Quiet, history
<1>2. job[r].at > Len(bp.create)
  BY <1>1 DEF Built, AtEnd, Script
<1>3. Fit(r)
  <2>1. SUFFICES ASSUME ~GivesUp(bp.create), NEW k \in NeededKeys(bp) PROVE k \in res[r].keys
    BY DEF Fit
  <2>2. PICK i \in DOMAIN bp.create : OpAt(bp.create, i) = "Save" /\ k \in bp.create[i].keys
    BY <2>1 DEF IsOrderly, SavesWhatItNeeds
  <2>3. i < job[r].at
    BY <1>1, <1>2, Typing
  <2> QED
    BY <1>1, <2>2, <2>3 DEF Sound, Building, Saved
<1> QED
  BY <1>1, <1>3, FinishKept

LEMMA DeleteKept == ASSUME IInv, NEW r \in Resources, Delete(r) PROVE IInv'
<1> DEFINE y == Task("delete", 1, job[r].addr)
<1>1. TypeOK /\ Sound(r) /\ Exists(r)
  BY DEF IInv, Sound, Delete, Exists
<1>2. Becomes(r, res[r], y)
  <2>1. job' = [job EXCEPT ![r] = [job[r] EXCEPT !.pc = "delete", !.at = 1]]
    BY DEF Delete
  <2>2. [job[r] EXCEPT !.pc = "delete", !.at = 1] = y
    BY <1>1, TaskBegun, Typing
  <2>3. res' = [res EXCEPT ![r] = res[r]]
    BY <1>1 DEF Delete, TypeOK
  <2> QED
    BY <2>1, <2>2, <2>3 DEF Becomes
<1>3. y \in JobType /\ y.at = 1 /\ y.pc = "delete"
  BY <1>1, Typing DEF Task, JobType
<1>4. 1 <= Len(bp.create) + Len(bp.delete) + 1
  <2>1. \A n, m \in Nat : 1 <= n + m + 1
    OBVIOUS
  <2> QED
    BY <1>1, <2>1, Typing
<1>5. Sound(r)'
  BY <1>1, DeleteSound
<1>6. Touches(r) /\ UNCHANGED <<bp, cloud, found, imported, moved, robbed>>
  BY DEF Touches, Delete, history
<1>7. res[r] \in ResType
  BY <1>1, Typing
<1> HIDE DEF y
<1> QED
  BY <1>1, <1>2, <1>3, <1>4, <1>5, <1>6, <1>7, OwnStep DEF TypeOK

\* What is saved before anything is made is recorded by whoever made something.
LEMMA SavedFirst ==
    ASSUME TypeOK, NEW r \in Resources, Sound(r), NEW ks, RecordsFirst(bp, ks),
           NEW k \in Kinds, NEW a \in Addresses, cloud[k][a] = r
    PROVE  ks \subseteq res[r].keys
<1>1. PICK i \in DOMAIN bp.create : MakesAt(bp, i) /\ Saved(r, i)
  BY DEF Sound, Owning, Owns
<1>2. PICK j \in DOMAIN bp.create :
        /\ OpAt(bp.create, j) = "Save" /\ ks \subseteq bp.create[j].keys
        /\ \A n \in 1..j : ~MakesAt(bp, n)
  BY DEF RecordsFirst
<1>3. j < i
  BY <1>1, <1>2, Typing
<1> QED
  BY <1>1, <1>2, <1>3 DEF Saved

LEMMA NeedKept == ASSUME IInv, NEW r \in Resources, Need(r) PROVE IInv'
<1>1. PICK op \in {"Need", "NeedOrQuit"} : Doing(r, "delete", op)
  BY DEF Need
<1>2. /\ TypeOK /\ Sound(r) /\ Working(r)
      /\ UNCHANGED <<bp, cloud, found, imported, moved, robbed>>
  BY DEF IInv, Sound, Need, history
<1>3. /\ job[r].pc = "delete" /\ Live(r) /\ job[r].at \in DOMAIN bp.delete
      /\ StepOf(r) = bp.delete[job[r].at] /\ StepOf(r).op = op
      /\ job[r].at \in Nat \ {0} /\ res[r].addr \in Addresses /\ res[r] \in ResType
  BY <1>1, <1>2, DoingStep, Typing DEF Working
<1>4. CASE StepOf(r).keys \subseteq res[r].keys
  <2> DEFINE y == Task("delete", job[r].at + 1, res[r].addr)
  <2>1. Becomes(r, res[r], y)
    <3>1. job' = [job EXCEPT ![r] = [job[r] EXCEPT !.at = @ + 1, !.addr = res[r].addr]] /\ res' = res
      BY <1>4 DEF Need
    <3>2. [job[r] EXCEPT !.at = @ + 1, !.addr = res[r].addr] = y
      <4>1. res[r] \in ResType /\ job[r] \in JobType
        BY <1>2, Typing
      <4>2. [job[r] EXCEPT !.at = @ + 1, !.addr = res[r].addr]
              = Task(job[r].pc, job[r].at + 1, res[r].addr)
        BY <1>3, <4>1, TaskSet
      <4> QED
        BY <1>3, <4>2
    <3>3. res' = [res EXCEPT ![r] = res[r]]
      BY <1>2, <3>1 DEF TypeOK
    <3> QED
      BY <3>1, <3>2, <3>3 DEF Becomes
  <2>2. y \in JobType /\ y.at <= Len(bp.create) + Len(bp.delete) + 1
    BY <1>2, <1>3, NextAt
  <2>3. y.pc = "delete"
    BY DEF Task
  <2>4. Sound(r)'
    BY <1>2, <1>4, NeedSound
  <2>5. Touches(r) /\ Exists(r)
    BY <1>2, <1>3 DEF Touches, Live, Exists
  <2> HIDE DEF y
  <2> QED
    BY <1>2, <1>3, <2>1, <2>2, <2>3, <2>4, <2>5, OwnStep DEF TypeOK
<1>5. CASE ~(StepOf(r).keys \subseteq res[r].keys)
  <2>1. Finish(r, IF StepOf(r).op = "Need" THEN "failed" ELSE "gone") /\ Quiet
    BY <1>2, <1>5 DEF Need, Quiet
  <2>2. Bare(r)
    <3>1. SUFFICES ASSUME SavesFirst, NEW k \in Kinds, NEW a \in Addresses, cloud[k][a] = r
                   PROVE FALSE
      BY DEF Bare, Owns
    <3>2. NeededKeys(bp) \subseteq res[r].keys
      BY <1>2, <3>1, SavedFirst DEF SavesFirst
    <3>3. StepOf(r).keys \subseteq NeededKeys(bp)
      BY <1>3 DEF NeededKeys
    <3> QED
      BY <1>5, <3>2, <3>3
  <2>3. CASE op = "Need"
    <3>1. Finish(r, "failed")
      BY <1>3, <2>1, <2>3
    <3> QED
      BY <1>2, <1>3, <2>1, <3>1, FinishKept
  <2>4. CASE op = "NeedOrQuit"
    <3>1. Finish(r, "gone")
      BY <1>3, <2>1, <2>4
    <3> QED
      BY <1>2, <1>3, <2>1, <2>2, <3>1, FinishKept
  <2> QED
    BY <2>3, <2>4
<1> QED
  BY <1>4, <1>5

\* A deletion by one of the scripts' steps.
LEMMA RemoveAtKept ==
    ASSUME IInv, NEW r \in Resources, NEW op \in {"Drop", "DropIfThere", "TryDrop", "DropNearest"},
           Doing(r, "delete", op), NEW as \in SUBSET Addresses, RemoveAt(r, as),
           op # "DropNearest" => as = Reached(r), UNCHANGED <<bp, found>>
    PROVE  IInv'
<1> DEFINE y == Task(job[r].pc, job[r].at + 1, job[r].addr)
<1>1. TypeOK /\ Sound(r) /\ Working(r)
  BY DEF IInv, Sound
<1>2. /\ job[r].pc = "delete" /\ Live(r) /\ job[r].at \in DOMAIN bp.delete
      /\ StepOf(r) = bp.delete[job[r].at] /\ bp.delete[job[r].at].op = op
      /\ StepOf(r).kind \in Kinds
      /\ job[r].at \in Nat \ {0} /\ job[r].addr \in Addresses /\ res[r] \in ResType
  BY <1>1, DoingStep, Typing DEF Working
<1>3. Sound(r)'
  <2>1. /\ OpAt(bp.delete, job[r].at) \notin {"Need", "NeedOrQuit"}
        /\ DropsAt(bp, job[r].at) => as = Reached(r)
    BY <1>2 DEF DropsAt, OpAt
  <2> QED
    BY <1>1, <1>2, <2>1, RemoveSound
<1>4. /\ cloud' \in [Kinds -> [Addresses -> Resources \cup {Nobody, Outside}]]
      /\ robbed \subseteq robbed' /\ robbed' \subseteq Resources
      /\ UNCHANGED <<imported, moved>>
      /\ Becomes(r, res[r], y)
  BY <1>1, <1>2, RemoveAtIs
<1>5. \A k \in Kinds, a \in Addresses :
        cloud'[k][a] = IF k = StepOf(r).kind /\ a \in as THEN Nobody ELSE cloud[k][a]
  <2>1. TypeOK /\ StepOf(r).kind \in Kinds
    BY <1>1, <1>2
  <2> QED
    BY <2>1, RemoveAtIs, ZenonT(120)
<1>6. \A a \in as \cap Addresses, q \in Resources :
        cloud[StepOf(r).kind][a] = q => q \in robbed'
  BY <1>1, <1>2, RemoveAtIs, ZenonT(120)
<1>7. Touches(r)
  BY <1>5, <1>6 DEF Touches
<1>8. y \in JobType /\ y.at <= Len(bp.create) + Len(bp.delete) + 1
  BY <1>1, <1>2, NextAt
<1>9. y.pc = "delete"
  BY <1>2 DEF Task
<1>10. Exists(r)
  BY <1>2 DEF Live, Exists
<1> HIDE DEF y
<1> QED
  BY <1>1, <1>2, <1>3, <1>4, <1>7, <1>8, <1>9, <1>10, OwnStep DEF TypeOK

LEMMA DropFails ==
    ASSUME IInv, NEW r \in Resources, job[r].pc = "delete", Finish(r, "failed"),
           UNCHANGED <<bp, found, cloud, history>>
    PROVE  IInv'
<1>1. Quiet /\ found' = found
  BY DEF Quiet, history
<1> QED
  BY <1>1, FinishKept

LEMMA ReachedIsAddress ==
    ASSUME TypeOK, NEW r \in Resources PROVE Reached(r) \in SUBSET Addresses
  BY Typing DEF Reached

LEMMA DropKept == ASSUME IInv, NEW r \in Resources, Drop(r) PROVE IInv'
<1>1. UNCHANGED <<bp, found>> /\ TypeOK
  BY DEF Drop, IInv
<1>2. CASE /\ Doing(r, "delete", "Drop") /\ Object(r) = Nobody
           /\ Finish(r, "failed") /\ UNCHANGED <<cloud, history>>
  BY <1>1, <1>2, DropFails DEF Doing
<1>3. ASSUME NEW op \in {"Drop", "DropIfThere"}, Doing(r, "delete", op), Remove(r) PROVE IInv'
  BY <1>1, <1>3, RemoveAtKept, ReachedIsAddress DEF Remove
<1> QED
  BY <1>2, <1>3 DEF Drop

LEMMA TryDropKept == ASSUME IInv, NEW r \in Resources, TryDrop(r) PROVE IInv'
<1>1. TypeOK /\ Working(r) /\ UNCHANGED <<bp, found>> /\ Doing(r, "delete", "TryDrop")
  BY DEF TryDrop, IInv, Sound
<1>2. CASE Remove(r)
  BY <1>1, <1>2, RemoveAtKept, ReachedIsAddress DEF Remove
<1>3. CASE Advance(r) /\ UNCHANGED <<cloud, res, history>>
  <2>1. /\ job[r].pc = "delete" /\ job[r].at \in DOMAIN bp.delete
        /\ bp.delete[job[r].at].op = "TryDrop"
    BY <1>1, DoingStep
  <2>2. Idle(r) /\ Quiet
    BY <1>1, <1>3, <2>1 DEF Idle, OpAt, DropsAt, Quiet, history
  <2> QED
    BY <1>1, <1>3, <2>1, <2>2, SkipKept
<1> QED
  BY <1>2, <1>3 DEF TryDrop

LEMMA DropNearestKept == ASSUME IInv, NEW r \in Resources, DropNearest(r) PROVE IInv'
<1>1. TypeOK /\ UNCHANGED <<bp, found>> /\ Doing(r, "delete", "DropNearest")
  BY DEF DropNearest, IInv
<1>2. ASSUME NEW a \in Nearest(r), RemoveAt(r, {a}) PROVE IInv'
  <2>1. {a} \in SUBSET Addresses
    BY <1>1, Typing DEF Nearest
  <2> QED
    BY <1>1, <1>2, <2>1, RemoveAtKept
<1>3. CASE Object(r) = Nobody /\ Finish(r, "failed") /\ UNCHANGED <<cloud, history>>
  BY <1>1, <1>3, DropFails DEF Doing
<1> QED
  BY <1>2, <1>3 DEF DropNearest

\* At the end of a delete.py that goes by the record, what it has a step for is gone.
LEMMA AllCleared ==
    ASSUME TypeOK, NEW r \in Resources, Sound(r), job[r].pc = "delete", AtEnd(r), Stays(r),
           ReadsFirst(bp), KnowsNames(bp), DropsByAddress(bp), r \in imported => ~bp.gap,
           NEW j \in DOMAIN bp.delete, DropsAt(bp, j)
    PROVE  cloud[bp.delete[j].kind][res[r].addr] \notin {r, Outside}
<1>1. j < job[r].at
  BY Typing DEF AtEnd, Script
<1> QED
  BY <1>1 DEF Sound, Cleared

LEMMA DeletedKept ==
    ASSUME IInv, IsOrderly(bp), NEW r \in Resources, Deleted(r) PROVE IInv'
<1>1. /\ TypeOK /\ Sound(r) /\ job[r].pc = "delete" /\ AtEnd(r)
      /\ Finish(r, "gone") /\ Quiet /\ found' = found
  BY DEF IInv, Deleted, Quiet, history
<1>2. Bare(r)
  <2>1. SUFFICES ASSUME SavesFirst, Stays(r), NEW k \in Kinds, NEW a \in Addresses, cloud[k][a] = r
                 PROVE FALSE
    BY DEF Bare, Owns
  <2>2. DropsWhatItMakes(bp)
    BY <2>1 DEF IsOrderly, SavesFirst
  <2>3. PICK i \in DOMAIN bp.create : MakesAt(bp, i) /\ bp.create[i].kind = k
    BY <1>1, <2>1 DEF Sound, Owning, Owns
  <2>4. PICK j \in DOMAIN bp.delete : DropsAt(bp, j) /\ bp.delete[j].kind = k
    BY <2>2, <2>3 DEF DropsWhatItMakes
  <2>5. r \notin imported /\ res[r].addr = a
    BY <1>1, <2>1 DEF Sound, Owning, Owns
  <2>6. cloud[k][a] \notin {r, Outside}
    BY <1>1, <2>1, <2>2, <2>4, <2>5, AllCleared DEF DropsWhatItMakes
  <2> QED
    BY <2>1, <2>6
<1> QED
  BY <1>1, <1>2, FinishKept

LEMMA DieKept == ASSUME IInv, NEW r \in Resources, Die(r) PROVE IInv'
<1>1. job[r].pc # "idle" /\ Finish(r, "failed") /\ Quiet /\ found' = found
  BY DEF Die, Quiet, history
<1> QED
  BY <1>1, FinishKept

LEMMA OrderKept ==
    ASSUME IInv, NEW r \in Resources, NEW a \in Addresses, Order(r, a) PROVE IInv'
<1> DEFINE x == Row("new", {}, a)
           y == Task("create", 1, a)
<1>1. TypeOK /\ Sound(r) /\ res[r].state = "none"
  BY DEF IInv, Order
<1>2. Becomes(r, x, y) /\ UNCHANGED <<bp, cloud, found, imported, moved, robbed>>
  BY DEF Order, Becomes, Row, Task, history
<1>3. /\ x \in ResType /\ y \in JobType /\ y.at = 1 /\ y.pc = "create" /\ y.addr = a
      /\ x.addr = a /\ x.state = "new"
  BY DEF Row, Task, ResType, JobType, States
<1>4. 1 <= Len(bp.create) + Len(bp.delete) + 1
  <2>1. \A n, m \in Nat : 1 <= n + m + 1
    OBVIOUS
  <2> QED
    BY <1>1, <2>1, Typing
<1> HIDE DEF x, y
<1>5. TypeOK'
  BY <1>1, <1>2, <1>3, <1>4, BecomesTyped DEF TypeOK
<1>6. /\ res'[r] = x /\ job'[r] = y
      /\ \A q \in Resources : q # r => res'[q] = res[q] /\ job'[q] = job[q]
  BY <1>1, <1>2, BecomesGives
<1>7. ASSUME NEW q \in Resources PROVE Sound(q)'
  <2>1. CASE q = r
    BY <1>1, <2>1, OrderSound
  <2>2. CASE q # r
    <3>1. Aside(q)
      BY <1>2, <1>6, <2>2 DEF Aside
    <3> QED
      BY <1>1, <3>1, Frame DEF IInv
  <2> QED
    BY <2>1, <2>2
<1>8. ASSUME NEW q \in Resources PROVE Private(q)'
  <2>1. SUFFICES ASSUME bp.scope = "fresh", Exists(q)', q \notin imported \cup moved
                 PROVE  /\ \A k \in Kinds, b \in Addresses :
                             b.place = res'[q].addr.place => cloud[k][b] \in {Nobody, q}
                        /\ \A p \in Resources \ {q} : Apart(q, p)'
    BY <1>2 DEF Private
  <2>2. Unused(a.place)
    BY <1>2, <2>1 DEF Order
  <2>3. CASE q = r
    <3>1. res'[q].addr = a
      BY <1>3, <1>6, <2>3
    <3>2. \A p \in Resources \ {q} : Apart(q, p)'
      BY <1>6, <2>2, <2>3, <3>1 DEF Apart, Unused
    <3> QED
      BY <2>2, <3>1, <3>2 DEF Unused
  <2>4. CASE q # r
    <3>1. res'[q] = res[q] /\ Exists(q)
      BY <1>6, <2>1, <2>4 DEF Exists
    <3>2. /\ \A k \in Kinds, b \in Addresses :
               b.place = res[q].addr.place => cloud[k][b] \in {Nobody, q}
          /\ \A p \in Resources \ {q} : Apart(q, p)
      BY <2>1, <3>1 DEF IInv, Private
    <3>3. res[q].addr.place # a.place
      BY <2>2, <3>1 DEF Unused, Exists
    <3>4. \A p \in Resources \ {q} : Apart(q, p)'
      BY <1>3, <1>6, <3>1, <3>2, <3>3 DEF Apart
    <3> QED
      BY <3>1, <3>2, <3>4
  <2> QED
    BY <2>3, <2>4
<1> QED
  BY <1>2, <1>5, <1>7, <1>8 DEF IInv

\* The discovery job handles one address.
LEMMA RefreshKept ==
    ASSUME IInv, IsOrderly(bp), NEW r \in Resources, NEW a \in Addresses, bp.finds # {},
           Refresh(r, a), found' \subseteq found, UNCHANGED <<bp, cloud, robbed>>
    PROVE  IInv'
<1>1. TypeOK /\ Sound(r)
  BY DEF IInv
<1>2. PICK b \in Addresses :
        /\ Becomes(r, Row(IF ByTitle THEN "active" ELSE res[r].state, res[r].keys \cup bp.finds, b), job[r])
        /\ moved' = IF b = res[r].addr THEN moved ELSE moved \cup {r}
  BY <1>1, RefreshIs
<1> DEFINE x == Row(IF ByTitle THEN "active" ELSE res[r].state, res[r].keys \cup bp.finds, b)
<1>3. x \in ResType /\ x.addr = b
  BY <1>1, Typing DEF Row, ResType, States
<1>4. Sound(r)'
  BY <1>1, RefreshSound
<1>5. job[r] \in JobType /\ job[r].at <= Len(bp.create) + Len(bp.delete) + 1
  <2>1. job[r] \in JobType /\ job[r].at \in 0..(Len(bp.create) + Len(bp.delete) + 1)
    BY <1>1 DEF TypeOK
  <2>2. \A n : job[r].at \in 0..n => job[r].at <= n
    OBVIOUS
  <2> QED
    BY <2>1, <2>2
<1>6. Exists(r) /\ imported' = imported
  BY DEF Refresh, Matches, Live, Exists
<1>7. /\ cloud' \in [Kinds -> [Addresses -> Resources \cup {Nobody, Outside}]]
      /\ Touches(r) /\ imported' \subseteq Resources /\ moved' \subseteq Resources
      /\ robbed \subseteq robbed' /\ robbed' \subseteq Resources
  BY <1>1, <1>2, <1>6 DEF Touches, TypeOK
<1>8. \A q \in Resources \ {r} : /\ q \in imported' <=> q \in imported
                                 /\ q \in moved' <=> q \in moved
  BY <1>2, <1>6
<1>9. r \notin imported' \cup moved' => r \notin imported \cup moved /\ b = res[r].addr
  BY <1>2, <1>6
<1>10. Becomes(r, x, job[r])
  BY <1>2
<1> HIDE DEF x
<1> QED
  BY <1>3, <1>4, <1>5, <1>6, <1>7, <1>8, <1>9, <1>10, OwnStep

LEMMA ImportKept ==
    ASSUME IInv, IsOrderly(bp), NEW r \in Resources, NEW a \in Addresses, bp.finds # {},
           Import(r, a), found' \subseteq found, UNCHANGED <<bp, cloud, robbed>>
    PROVE  IInv'
<1> DEFINE x == Row("active", bp.finds, a)
<1>1. TypeOK /\ Sound(r)
  BY DEF IInv
<1>2. Becomes(r, x, job[r])
  <2>1. job' = [job EXCEPT ![r] = job[r]]
    BY <1>1 DEF Import, TypeOK
  <2> QED
    BY <2>1 DEF Import, Becomes, Row
<1>3. x \in ResType
  BY <1>1, Typing DEF Row, ResType, States
<1>4. Sound(r)'
  BY <1>1, ImportSound
<1>5. job[r] \in JobType /\ job[r].at <= Len(bp.create) + Len(bp.delete) + 1
  <2>1. job[r] \in JobType /\ job[r].at \in 0..(Len(bp.create) + Len(bp.delete) + 1)
    BY <1>1 DEF TypeOK
  <2>2. \A n : job[r].at \in 0..n => job[r].at <= n
    OBVIOUS
  <2> QED
    BY <2>1, <2>2
<1>6. imported' = imported \cup {r} /\ moved' = moved
  BY DEF Import
<1>7. /\ cloud' \in [Kinds -> [Addresses -> Resources \cup {Nobody, Outside}]]
      /\ Touches(r) /\ imported' \subseteq Resources /\ moved' \subseteq Resources
      /\ robbed \subseteq robbed' /\ robbed' \subseteq Resources
  BY <1>1, <1>6 DEF Touches, TypeOK
<1>8. \A q \in Resources \ {r} : /\ q \in imported' <=> q \in imported
                                 /\ q \in moved' <=> q \in moved
  BY <1>6
<1>9. r \in imported'
  BY <1>6
<1> HIDE DEF x
<1> QED
  BY <1>2, <1>3, <1>4, <1>5, <1>7, <1>8, <1>9, OwnStep

LEMMA HandleKept ==
    ASSUME IInv, IsOrderly(bp), NEW r \in Resources, NEW a \in Addresses, Handle(r, a)
    PROVE  IInv'
<1>1. a \in found /\ found' \subseteq found /\ UNCHANGED <<bp, cloud, robbed>> /\ bp.finds # {}
  BY DEF Handle, IInv
<1>2. CASE Refresh(r, a)
  BY <1>1, <1>2, RefreshKept
<1>3. CASE Import(r, a)
  BY <1>1, <1>3, ImportKept
<1> QED
  BY <1>2, <1>3 DEF Handle

\* What only changes what is left to handle keeps the invariant.
LEMMA FoundKept ==
    ASSUME IInv, found' \subseteq Addresses, found' # {} => bp.finds # {},
           UNCHANGED <<bp, cloud, res, job, history>>
    PROVE  IInv'
<1>1. UNCHANGED <<bp, cloud, res, job, imported, moved, robbed>>
  BY DEF history
<1>2. TypeOK'
  BY <1>1 DEF IInv, TypeOK
<1>3. ASSUME NEW q \in Resources PROVE Sound(q)'
  <2>1. Aside(q)
    BY <1>1 DEF Aside
  <2> QED
    BY <2>1, Frame DEF IInv
<1>4. ASSUME NEW q \in Resources PROVE Private(q)'
  <2>1. \A p \in Resources : Apart(q, p)' = Apart(q, p)
    BY <1>1 DEF Apart
  <2> QED
    BY <1>1, <2>1 DEF IInv, Private, Exists
<1> QED
  BY <1>1, <1>2, <1>3, <1>4 DEF IInv

LEMMA InitKept == Init => IInv
<1> SUFFICES ASSUME Init PROVE IInv
  OBVIOUS
<1>1. /\ \A r \in Resources : res[r] = [state |-> "none", keys |-> {}, addr |-> Nowhere]
      /\ \A r \in Resources : job[r] = NoJob
      /\ found = {} /\ imported = {} /\ moved = {} /\ robbed = {} /\ bp \in Blueprints
  BY DEF Init
<1>2. \A k \in Kinds, a \in Addresses : cloud[k][a] \in {Nobody, Outside}
  BY DEF Init
<1>3. TypeOK
  <2>1. cloud \in [Kinds -> [Addresses -> Resources \cup {Nobody, Outside}]]
    BY DEF Init
  <2>2. res \in [Resources -> ResType] /\ job \in [Resources -> JobType]
    BY NoJobTyped DEF Init, ResType, States
  <2>3. 0 \in 0..(Len(bp.create) + Len(bp.delete) + 1)
    <3>1. bp.create \in Seq(StepType) /\ bp.delete \in Seq(StepType)
      BY <1>1, BlueprintsAreTyped DEF BlueprintType
    <3>2. Len(bp.create) \in Nat /\ Len(bp.delete) \in Nat
      BY <3>1
    <3>3. \A n, m \in Nat : 0 \in 0..(n + m + 1)
      OBVIOUS
    <3> QED
      BY <3>2, <3>3
  <2>4. \A r \in Resources : job[r].at = 0
    BY <1>1, NoJobTyped DEF Task
  <2> QED
    BY <1>1, <2>1, <2>2, <2>3, <2>4 DEF TypeOK
<1>4. ASSUME NEW r \in Resources PROVE Sound(r) /\ Private(r)
  <2>1. job[r].pc = "idle" /\ res[r].state = "none" /\ res[r].keys = {}
    BY <1>1, NoJobTyped DEF Task
  <2>2. \A k \in Kinds, a \in Addresses : ~Owns(r, k, a)
    BY <1>2, OwnersDiffer DEF Owns
  <2>3. Working(r) /\ Building(r) /\ Tearing(r) /\ Cleared(r) /\ Earned(r)
    BY <2>1 DEF Working, Building, Tearing, Cleared, Earned
  <2>4. Owning(r) /\ Remembered(r) /\ Named(r) /\ NotLost(r) /\ Deletable(r)
    BY <1>1, <2>1, <2>2 DEF Owning, Remembered, Named, NotLost, Deletable
  <2>5. Private(r)
    BY <2>1 DEF Private, Exists
  <2> QED
    BY <2>3, <2>4, <2>5 DEF Sound
<1> QED
  BY <1>1, <1>3, <1>4 DEF IInv

LEMMA StepKept ==
    ASSUME BlueprintsAreOrderly, IInv, [Next]_vars PROVE IInv'
<1>1. IsOrderly(bp)
  BY DEF BlueprintsAreOrderly, IInv, TypeOK
<1>2. ASSUME NEW r \in Resources, NEW a \in Addresses, Order(r, a) \/ Handle(r, a) PROVE IInv'
  BY <1>1, <1>2, OrderKept, HandleKept
<1>3. ASSUME NEW r \in Resources, Create(r) PROVE IInv'
  BY <1>1, <1>3, GiveUpKept, ForgetKept, SaveKept, CheckKept, MakeKept, TryMakeKept, UpsertKept,
     BuiltKept DEF Create
<1>4. ASSUME NEW r \in Resources, Teardown(r) PROVE IInv'
  BY <1>1, <1>4, DeleteKept, NeedKept, DropKept, TryDropKept, DropNearestKept, DeletedKept DEF Teardown
<1>5. CASE Discover
  BY <1>5, FoundKept DEF Discover
<1>6. CASE Abandon
  BY <1>6, FoundKept DEF Abandon
<1>7. CASE UNCHANGED vars
  <2>1. found' = found /\ UNCHANGED <<bp, cloud, res, job, history>>
    BY <1>7 DEF vars, history
  <2> QED
    BY <2>1, FoundKept DEF IInv, TypeOK
<1> QED
  BY <1>2, <1>3, <1>4, <1>5, <1>6, <1>7, DieKept DEF Next

LEMMA Invariance == ASSUME BlueprintsAreOrderly PROVE Spec => []IInv
<1>1. Init => IInv
  BY InitKept
<1>2. IInv /\ [Next]_vars => IInv'
  BY StepKept
<1> QED
  BY <1>1, <1>2, PTL DEF Spec
-----------------------------------------------------------------------------
(* Which step does what *)

LEMMA FinishOther ==
    ASSUME TypeOK, NEW p \in Resources, NEW r \in Resources, p # r, NEW s, Finish(p, s)
    PROVE  res'[r] = res[r] /\ job'[r] = job[r]
  BY DEF Finish, TypeOK

LEMMA FinishState ==
    ASSUME TypeOK, NEW r \in Resources, NEW s, Finish(r, s)
    PROVE  res'[r].state = s
<1>1. Becomes(r, Row(s, res[r].keys, res[r].addr), NoJob)
  BY FinishIs
<1>2. res'[r] = Row(s, res[r].keys, res[r].addr)
  BY <1>1, BecomesGives
<1> QED
  BY <1>2 DEF Row

LEMMA AdvanceOther ==
    ASSUME TypeOK, NEW p \in Resources, NEW r \in Resources, p # r, Advance(p)
    PROVE  job'[r] = job[r]
  BY DEF Advance, TypeOK

LEMMA MakeOther ==
    ASSUME TypeOK, NEW p \in Resources, NEW r \in Resources, p # r,
           MakeNew(p) \/ Refused(p) \/ Remove(p) \/ \E a \in Addresses : RemoveAt(p, {a})
    PROVE  res'[r] = res[r] /\ job'[r] = job[r]
  BY FinishOther, AdvanceOther DEF MakeNew, Refused, Remove, RemoveAt

LEMMA BuildOther ==
    ASSUME TypeOK, NEW p \in Resources, NEW r \in Resources, p # r, Create(p)
    PROVE  res'[r] = res[r] /\ job'[r] = job[r]
<1>1. CASE GiveUp(p)
  BY <1>1, FinishOther, AdvanceOther DEF GiveUp
<1>2. CASE Forget(p)
  BY <1>2, FinishOther, AdvanceOther DEF Forget
<1>3. CASE Save(p)
  <2>1. res'[r] = res[r]
    BY <1>3 DEF Save, TypeOK
  <2> QED
    BY <1>3, <2>1, AdvanceOther DEF Save
<1>4. CASE Check(p)
  BY <1>4, FinishOther, AdvanceOther DEF Check
<1>5. CASE Make(p)
  BY <1>5, MakeOther DEF Make
<1>6. CASE TryMake(p)
  BY <1>6, MakeOther, FinishOther DEF TryMake
<1>7. CASE Upsert(p)
  BY <1>7, MakeOther, AdvanceOther DEF Upsert
<1>8. CASE Built(p)
  BY <1>8, FinishOther DEF Built
<1> QED
  BY <1>1, <1>2, <1>3, <1>4, <1>5, <1>6, <1>7, <1>8 DEF Create

LEMMA TeardownOther ==
    ASSUME TypeOK, NEW p \in Resources, NEW r \in Resources, p # r, Teardown(p)
    PROVE  res'[r] = res[r] /\ job'[r] = job[r]
<1>1. CASE Delete(p)
  BY <1>1 DEF Delete, TypeOK
<1>2. CASE Need(p)
  <2>1. CASE StepOf(p).keys \subseteq res[p].keys
    BY <1>2, <2>1 DEF Need, TypeOK
  <2>2. CASE ~(StepOf(p).keys \subseteq res[p].keys)
    BY <1>2, <2>2, FinishOther DEF Need
  <2> QED
    BY <2>1, <2>2
<1>3. CASE Drop(p)
  BY <1>3, MakeOther, FinishOther DEF Drop
<1>4. CASE TryDrop(p)
  BY <1>4, MakeOther, AdvanceOther DEF TryDrop
<1>5. CASE DropNearest(p)
  <2>1. \A a \in Nearest(p) : a \in Addresses
    BY Typing DEF Nearest
  <2> QED
    BY <1>5, <2>1, MakeOther, FinishOther DEF DropNearest
<1>6. CASE Deleted(p)
  BY <1>6, FinishOther DEF Deleted
<1> QED
  BY <1>1, <1>2, <1>3, <1>4, <1>5, <1>6 DEF Teardown

\* An order, or the discovery job, for one resource.
LEMMA HandleOther ==
    ASSUME TypeOK, NEW p \in Resources, NEW r \in Resources, p # r, NEW a \in Addresses,
           Order(p, a) \/ Handle(p, a)
    PROVE  res'[r] = res[r] /\ job'[r] = job[r]
<1>1. CASE Order(p, a)
  BY <1>1 DEF Order, TypeOK
<1>2. CASE Handle(p, a)
  BY <1>2 DEF Handle, Refresh, Import, TypeOK
<1> QED
  BY <1>1, <1>2

LEMMA StepIsOwn ==
    ASSUME TypeOK, NEW r \in Resources, [Next]_vars, res'[r] # res[r] \/ job'[r] # job[r]
    PROVE  \/ \E a \in Addresses : Order(r, a) \/ Handle(r, a)
           \/ Create(r) \/ Teardown(r) \/ Die(r)
<1>1. CASE \E p \in Resources, a \in Addresses : Order(p, a) \/ Handle(p, a)
  BY <1>1, HandleOther
<1>2. CASE \E p \in Resources : Create(p) \/ Teardown(p) \/ Die(p)
  BY <1>2, BuildOther, TeardownOther, FinishOther DEF Die
<1>3. CASE Discover \/ Abandon \/ UNCHANGED vars
  BY <1>3 DEF Discover, Abandon, vars
<1> QED
  BY <1>1, <1>2, <1>3 DEF Next

\* Only discovery imports.
LEMMA ImportIsHandled ==
    ASSUME [Next]_vars, imported' # imported
    PROVE  \E r \in Resources, a \in Addresses : Handle(r, a) /\ Import(r, a)
<1>1. \A r \in Resources : ~Create(r)
  BY DEF Create, GiveUp, Forget, Save, Check, Make, TryMake, Upsert, Built, history
<1>2. \A r \in Resources : ~Teardown(r) /\ ~Die(r)
  BY DEF Teardown, Delete, Need, Drop, TryDrop, DropNearest, Deleted, Remove, RemoveAt, Die, history
<1>3. ~Discover /\ ~Abandon /\ ~(UNCHANGED vars)
  BY DEF Discover, Abandon, vars, history
<1>4. \A r \in Resources, a \in Addresses : ~Order(r, a)
  BY DEF Order, history
<1>5. PICK r \in Resources, a \in Addresses : Handle(r, a)
  BY <1>1, <1>2, <1>3, <1>4 DEF Next
<1> QED
  BY <1>5 DEF Handle, Refresh

\* How a teardown comes to an end that counts as done.
LEMMA TornDown ==
    ASSUME IInv, NEW r \in Resources, job[r].pc = "delete", [Next]_vars, res'[r].state = "gone"
    PROVE  GiveUp(r) \/ Deleted(r) \/ (Need(r) /\ ~(StepOf(r).keys \subseteq res[r].keys))
<1>1. TypeOK /\ Live(r) /\ res[r].state \in States /\ res'[r] # res[r]
  BY Typing DEF IInv, Sound, Working, Live
<1>2. ~\E a \in Addresses : Order(r, a)
  BY <1>1 DEF Order, Live
<1>3. ~\E a \in Addresses : Handle(r, a)
  <2>1. SUFFICES ASSUME NEW a \in Addresses, Handle(r, a) PROVE FALSE
    OBVIOUS
  <2>2. ~Import(r, a)
    BY <1>1 DEF Import, Live
  <2>3. Refresh(r, a)
    BY <2>1, <2>2 DEF Handle
  <2>4. PICK b \in Addresses : Becomes(r, Row(IF ByTitle THEN "active" ELSE res[r].state,
                                              res[r].keys \cup bp.finds, b), job[r])
    BY <1>1, <2>3, RefreshIs
  <2>5. res'[r].state = IF ByTitle THEN "active" ELSE res[r].state
    BY <1>1, <2>4, BecomesGives DEF Row
  <2> QED
    BY <1>1, <2>5 DEF Live
<1>4. \A s : Finish(r, s) => s = "gone"
  BY <1>1, FinishState
<1>5. Create(r) => GiveUp(r)
  BY DEF Create, Forget, Save, Check, Make, TryMake, Upsert, Built, Doing
<1>6. ~Die(r) /\ ~Delete(r)
  BY <1>1, <1>4 DEF Die, Delete
<1>7. ~Drop(r) /\ ~TryDrop(r) /\ ~DropNearest(r)
  BY <1>1, <1>4 DEF Drop, TryDrop, DropNearest, Remove, RemoveAt
<1>8. Need(r) => ~(StepOf(r).keys \subseteq res[r].keys)
  BY <1>1 DEF Need
<1> QED
  BY <1>1, <1>2, <1>3, <1>5, <1>6, <1>7, <1>8, StepIsOwn DEF Teardown

\* A teardown job that changes the cloud removes what its step reaches.
LEMMA Removes ==
    ASSUME IInv, NEW r \in Resources, job[r].pc = "delete", [Next]_vars,
           job'[r] # job[r], cloud' # cloud, DropsByAddress(bp)
    PROVE  /\ Remove(r) /\ job[r].at \in DOMAIN bp.delete /\ StepOf(r) = bp.delete[job[r].at]
           /\ DropsAt(bp, job[r].at) \/ OpAt(bp.delete, job[r].at) = "TryDrop"
<1>1. TypeOK /\ Working(r)
  BY DEF IInv, Sound
<1>2. ~(\E a \in Addresses : Order(r, a) \/ Handle(r, a)) /\ ~Die(r)
  BY DEF Order, Handle, Die
<1>3. ~Create(r)
  <2>1. ~GiveUp(r)
    BY DEF GiveUp
  <2> QED
    BY <2>1 DEF Create, Forget, Save, Check, Make, TryMake, Upsert, Built, Doing
<1>4. ~Delete(r) /\ ~Need(r) /\ ~Deleted(r)
  BY DEF Delete, Need, Deleted
<1>5. ~DropNearest(r)
  <2>1. Doing(r, "delete", "DropNearest") =>
          job[r].at \in DOMAIN bp.delete /\ OpAt(bp.delete, job[r].at) = "DropNearest"
    BY <1>1, DoingStep DEF OpAt
  <2> QED
    BY <2>1 DEF DropNearest, DropsByAddress
<1>6. Drop(r) \/ TryDrop(r)
  BY <1>1, <1>2, <1>3, <1>4, <1>5, StepIsOwn DEF Teardown
<1>7. PICK op \in {"Drop", "DropIfThere", "TryDrop"} : Doing(r, "delete", op) /\ Remove(r)
  BY <1>6 DEF Drop, TryDrop
<1>8. /\ job[r].at \in DOMAIN bp.delete /\ StepOf(r) = bp.delete[job[r].at]
      /\ bp.delete[job[r].at].op = op
  BY <1>1, <1>7, DoingStep
<1> QED
  BY <1>7, <1>8 DEF DropsAt, OpAt

LEMMA RemovesOnly ==
    ASSUME TypeOK, NEW r \in Resources, NEW as \in SUBSET Addresses, RemoveAt(r, as), StepOf(r).kind \in Kinds
    PROVE  \A k \in Kinds, a \in Addresses : cloud'[k][a] # cloud[k][a] =>
             k = StepOf(r).kind /\ a \in as /\ cloud'[k][a] = Nobody
<1>1. \A k \in Kinds, a \in Addresses :
        cloud'[k][a] = IF k = StepOf(r).kind /\ a \in as THEN Nobody ELSE cloud[k][a]
  <2>1. TypeOK /\ StepOf(r).kind \in Kinds
    OBVIOUS
  <2> QED
    BY <2>1, RemoveAtIs, ZenonT(120)
<1> QED
  BY <1>1
-----------------------------------------------------------------------------
(* The theorems *)

\* Every variable keeps its type, and every job a step of its script or the one past
\* its end.
THEOREM TypeCorrect == ASSUME BlueprintsAreOrderly PROVE Spec => []TypeOK
<1>1. IInv => TypeOK
  BY DEF IInv
<1> QED
  BY <1>1, Invariance, PTL

\* Where create.py saves what delete.py needs before it makes anything, and neither script
\* gives up in silence, what a resource made is at the address its row records, whatever
\* dies - for any number of resources that build, tear down and are discovered at once.
THEOREM WhatIsMadeIsRecorded == ASSUME BlueprintsAreOrderly PROVE Spec => []NothingIsLost
<1>1. IInv => NothingIsLost
  <2>1. SUFFICES ASSUME IInv, SavesFirst, NEW k \in Kinds, NEW a \in Addresses,
                        NEW r \in Resources \ moved, cloud[k][a] = r
                 PROVE  Live(r) /\ NeededKeys(bp) \subseteq res[r].keys /\ res[r].addr = a
    BY DEF NothingIsLost, SavesFirst
  <2>2. TypeOK /\ Sound(r) /\ Stays(r)
    BY <2>1 DEF IInv, Stays
  <2>3. Live(r) /\ res[r].addr = a
    BY <2>1, <2>2 DEF Sound, NotLost, Owning, Owns
  <2>4. NeededKeys(bp) \subseteq res[r].keys
    BY <2>1, <2>2, SavedFirst DEF SavesFirst
  <2> QED
    BY <2>3, <2>4
<1> QED
  BY <1>1, Invariance, PTL

\* An active resource has every field delete.py reads, unless its create.py may give up in
\* silence or discovery is known to return too little.
THEOREM ActiveIsDeletable == ASSUME BlueprintsAreOrderly PROVE Spec => []SuccessIsDeletable
<1>1. IInv => SuccessIsDeletable
  BY DEF IInv, Sound, Deletable, SuccessIsDeletable
<1> QED
  BY <1>1, Invariance, PTL

\* Discovery never makes a second resource of what a living one made, if create.py saves
\* the identifying fields first.
THEOREM ImportsAreNew == ASSUME BlueprintsAreOrderly PROVE Spec => NoImportedTwin
<1> DEFINE A == imported' # imported /\ RecordsFirst(bp, Identifying) /\ "active" \notin bp.ident =>
                  \A r \in imported' \ imported : \A a \in found \ found' :
                    \A q \in Resources \ moved : cloud["item"][a] = q => ~Live(q)
<1>1. IInv /\ [Next]_vars => A
  <2>1. SUFFICES ASSUME IInv, [Next]_vars, imported' # imported, RecordsFirst(bp, Identifying),
                        "active" \notin bp.ident, NEW b \in found \ found',
                        NEW q \in Resources \ moved, cloud["item"][b] = q, Live(q)
                 PROVE  FALSE
    OBVIOUS
  <2>2. PICK r \in Resources, a \in Addresses : Handle(r, a) /\ Import(r, a)
    BY <2>1, ImportIsHandled
  <2>3. b = a /\ Matches(a) = {}
    BY <2>1, <2>2 DEF Handle, Import
  <2>4. TypeOK /\ Sound(q) /\ "item" \in Kinds
    BY <2>1 DEF IInv, Kinds
  <2>5. Identifying \subseteq res[q].keys
    BY <2>1, <2>2, <2>3, <2>4, SavedFirst
  <2>6. res[q].addr = a
    BY <2>1, <2>2, <2>3, <2>4 DEF Sound, Owning, Owns, Stays
  <2>7. q \in Matches(a)
    BY <2>1, <2>5, <2>6 DEF Matches
  <2> QED
    BY <2>3, <2>7
<1>2. Spec => [][A]_vars
  BY <1>1, Invariance, PTL DEF Spec
<1> QED
  BY <1>2 DEF NoImportedTwin

\* A teardown that ends well leaves nothing of its resource in the cloud, if its script
\* deletes by what is recorded and does not give up in silence.
THEOREM TeardownIsComplete == ASSUME BlueprintsAreOrderly PROVE Spec => GoneIsGone
<1> DEFINE A == \A r \in Resources \ moved' :
                  /\ job[r].pc = "delete" /\ res'[r].state = "gone"
                  /\ DropsByAddress(bp) /\ ~GivesUp(bp.delete)
                  /\ r \in imported => ~bp.gap
                  => /\ \A a \in Addresses : cloud'["item"][a] # r
                     /\ r \in imported => cloud'["item"][res[r].addr] # Outside
<1>1. IInv /\ [Next]_vars => A
  <2>1. SUFFICES ASSUME IInv, [Next]_vars, NEW r \in Resources \ moved', job[r].pc = "delete",
                        res'[r].state = "gone", DropsByAddress(bp), ~GivesUp(bp.delete),
                        r \in imported => ~bp.gap
                 PROVE  /\ \A a \in Addresses : cloud'["item"][a] # r
                        /\ r \in imported => cloud'["item"][res[r].addr] # Outside
    OBVIOUS
  <2>2. TypeOK /\ Sound(r) /\ Working(r) /\ "item" \in Kinds
    BY <2>1 DEF IInv, Kinds, Sound
  <2>3. DropsTheItem(bp)
    BY <2>1, <2>2 DEF BlueprintsAreOrderly, IsOrderly, TypeOK
  <2>4. ~GiveUp(r)
    <3>1. ASSUME NEW pc \in {"create", "delete"}, Doing(r, pc, "GiveUp") PROVE FALSE
      <4>1. pc = "delete"
        BY <2>1, <3>1 DEF Doing
      <4>2. job[r].at \in DOMAIN bp.delete /\ bp.delete[job[r].at].op = "GiveUp"
        BY <2>2, <3>1, <4>1, DoingStep
      <4> QED
        BY <2>1, <4>2, GivesUpAt
    <3> QED
      BY <3>1 DEF GiveUp
  <2>5. CASE Deleted(r)
    <3>1. AtEnd(r) /\ cloud' = cloud /\ Stays(r)
      BY <2>1, <2>5 DEF Deleted, history, Stays
    <3>2. PICK j \in DOMAIN bp.delete : DropsAt(bp, j) /\ bp.delete[j].kind = "item"
      BY <2>3 DEF DropsTheItem
    <3>3. cloud["item"][res[r].addr] \notin {r, Outside}
      BY <2>1, <2>2, <2>3, <3>1, <3>2, AllCleared DEF DropsTheItem
    <3>4. \A a \in Addresses : cloud["item"][a] = r => res[r].addr = a
      BY <2>2, <3>1 DEF Sound, Owning, Owns
    <3> QED
      BY <3>1, <3>3, <3>4
  <2>6. CASE Need(r) /\ ~(StepOf(r).keys \subseteq res[r].keys)
    <3>1. PICK op \in {"Need", "NeedOrQuit"} : Doing(r, "delete", op)
      BY <2>6 DEF Need
    <3>2. /\ job[r].at \in DOMAIN bp.delete /\ bp.delete[job[r].at].op = op
          /\ StepOf(r) = bp.delete[job[r].at] /\ StepOf(r).op = op
      BY <2>2, <3>1, DoingStep
    <3>3. op = "NeedOrQuit"
      <4>1. ASSUME op = "Need" PROVE FALSE
        <5>1. Finish(r, "failed")
          BY <2>6, <3>2, <4>1 DEF Need
        <5>2. res'[r].state = "failed"
          BY <2>2, <5>1, FinishState
        <5> QED
          BY <2>1, <5>2
      <4> QED
        BY <4>1
    <3>4. cloud' = cloud
      BY <2>6 DEF Need
    <3>5. ASSUME NEW a \in Addresses, cloud["item"][a] = r PROVE FALSE
      <4>1. RecordsFirst(bp, StepOf(r).keys)
        BY <2>3, <3>2, <3>3 DEF DropsTheItem, OpAt
      <4> QED
        BY <2>2, <2>6, <3>5, <4>1, SavedFirst
    <3>6. ASSUME r \in imported PROVE FALSE
      <4>1. NeededKeys(bp) \subseteq res[r].keys
        BY <2>1, <2>2, <2>3, <3>6 DEF Sound, Remembered, DropsTheItem, FindsWhatItNeeds
      <4>2. StepOf(r).keys \subseteq NeededKeys(bp)
        BY <3>2 DEF NeededKeys
      <4> QED
        BY <2>6, <4>1, <4>2
    <3> QED
      BY <3>4, <3>5, <3>6
  <2> QED
    BY <2>1, <2>4, <2>5, <2>6, TornDown
<1>2. Spec => [][A]_vars
  BY <1>1, Invariance, PTL DEF Spec
<1> QED
  BY <1>2 DEF GoneIsGone

\* A delete.py that goes by the record removes only what its own resource made, where
\* create.py records nothing it has not made, or makes it at a generated address.
THEOREM OthersAreSpared == ASSUME BlueprintsAreOrderly PROVE Spec => ForeignIsSpared
<1> DEFINE A == cloud' # cloud /\ (RecordsLast(bp) \/ bp.scope = "fresh") /\ DropsByAddress(bp) =>
                  \A r \in Resources \ (imported \cup moved \cup robbed) :
                    \A k \in Kinds, a \in Addresses :
                      job[r].pc = "delete" /\ job'[r] # job[r] /\ cloud'[k][a] # cloud[k][a]
                      => cloud[k][a] = r
<1>1. IInv /\ [Next]_vars => A
  <2>1. SUFFICES ASSUME IInv, [Next]_vars, cloud' # cloud, RecordsLast(bp) \/ bp.scope = "fresh",
                        DropsByAddress(bp),
                        NEW r \in Resources, r \notin imported \cup moved \cup robbed,
                        NEW k \in Kinds, NEW a \in Addresses, job[r].pc = "delete",
                        job'[r] # job[r], cloud'[k][a] # cloud[k][a]
                 PROVE  cloud[k][a] = r
    OBVIOUS
  <2>2. TypeOK /\ Sound(r) /\ Working(r) /\ Live(r) /\ Exists(r) /\ job[r].at \in Nat \ {0}
    BY <2>1, Typing DEF IInv, Sound, Working, Live, Exists
  <2>3. DropsOnlyItsOwn(bp)
    BY <2>1, <2>2 DEF BlueprintsAreOrderly, IsOrderly, TypeOK
  <2>4. /\ Remove(r) /\ job[r].at \in DOMAIN bp.delete /\ StepOf(r) = bp.delete[job[r].at]
        /\ DropsAt(bp, job[r].at) \/ OpAt(bp.delete, job[r].at) = "TryDrop"
    BY <2>1, Removes
  <2>5. job[r].at > 1
    BY <2>2, <2>3, <2>4 DEF DropsOnlyItsOwn, ReadsFirst, DropsAt
  <2>6. job[r].addr = res[r].addr /\ res[r].keys # {}
    BY <2>1, <2>2, <2>3, <2>5 DEF DropsOnlyItsOwn, Sound, Tearing, Stays
  <2>7. k = StepOf(r).kind /\ a = job[r].addr /\ cloud'[k][a] = Nobody
    <3>1. /\ TypeOK /\ r \in Resources /\ StepOf(r).kind \in Kinds
          /\ Reached(r) \in SUBSET Addresses /\ RemoveAt(r, Reached(r))
      BY <2>1, <2>2, <2>4, Typing, StepTyped, ReachedIsAddress DEF Remove
    <3>2. \A l \in Kinds, b \in Addresses : cloud'[l][b] # cloud[l][b] =>
            l = StepOf(r).kind /\ b \in Reached(r) /\ cloud'[l][b] = Nobody
      BY <3>1, RemovesOnly, ZenonT(120)
    <3> QED
      BY <2>1, <3>2 DEF Reached
  <2>8. CASE RecordsLast(bp)
    <3>1. RecordsItsOwn
      BY <2>2, <2>3, <2>8, Typing DEF RecordsItsOwn, DropsOnlyItsOwn, Identifying
    <3>2. Owed(r, Len(bp.create) + 1)
      BY <2>1, <2>2, <2>6, <3>1 DEF Sound, Earned
    <3>3. PICK i \in DOMAIN bp.create : MakesAt(bp, i) /\ bp.create[i].kind = k
      BY <2>3, <2>4, <2>7 DEF DropsOnlyItsOwn
    <3>4. i < Len(bp.create) + 1
      BY <2>2, Typing
    <3> QED
      BY <2>6, <2>7, <3>2, <3>3, <3>4 DEF Owed, Owns
  <2>9. CASE bp.scope = "fresh"
    <3>1. cloud[k][a] \in {Nobody, r}
      BY <2>1, <2>2, <2>6, <2>7, <2>9 DEF IInv, Private
    <3> QED
      BY <2>1, <2>7, <3>1
  <2> QED
    BY <2>1, <2>8, <2>9
<1>2. Spec => [][A]_vars
  BY <1>1, Invariance, PTL DEF Spec
<1> QED
  BY <1>2 DEF ForeignIsSpared

\* "to make sure we have the correct data" (aws_route53/delete.py:27) is kept by every
\* delete.py that reads the record first and deletes at the address it read, whatever
\* other jobs, discovery and the outside do between its steps, unless discovery itself
\* changes the address: the lookup of the nearest record is all that breaks
\* RemovesTheRecorded.
THEOREM RecordedIsRemoved ==
    ASSUME BlueprintsAreOrderly
    PROVE  Spec => [][cloud' # cloud /\ DropsByAddress(bp) /\ ReadsFirst(bp) =>
                   \A r \in Resources \ moved : \A k \in Kinds, a \in Addresses :
                     job[r].pc = "delete" /\ job'[r] # job[r] /\ cloud'[k][a] # cloud[k][a]
                     => a = res[r].addr]_vars
<1> DEFINE A == cloud' # cloud /\ DropsByAddress(bp) /\ ReadsFirst(bp) =>
                  \A r \in Resources \ moved : \A k \in Kinds, a \in Addresses :
                    job[r].pc = "delete" /\ job'[r] # job[r] /\ cloud'[k][a] # cloud[k][a]
                    => a = res[r].addr
<1>1. IInv /\ [Next]_vars => A
  <2>1. SUFFICES ASSUME IInv, [Next]_vars, cloud' # cloud, DropsByAddress(bp), ReadsFirst(bp),
                        NEW r \in Resources, r \notin moved,
                        NEW k \in Kinds, NEW a \in Addresses, job[r].pc = "delete",
                        job'[r] # job[r], cloud'[k][a] # cloud[k][a]
                 PROVE  a = res[r].addr
    OBVIOUS
  <2>2. TypeOK /\ Sound(r) /\ Working(r) /\ job[r].at \in Nat \ {0}
    BY <2>1, Typing DEF IInv, Sound, Working
  <2>3. /\ Remove(r) /\ job[r].at \in DOMAIN bp.delete /\ StepOf(r) = bp.delete[job[r].at]
        /\ DropsAt(bp, job[r].at) \/ OpAt(bp.delete, job[r].at) = "TryDrop"
    BY <2>1, Removes
  <2>4. job[r].at > 1
    BY <2>1, <2>2, <2>3 DEF ReadsFirst, DropsAt
  <2>5. job[r].addr = res[r].addr
    BY <2>1, <2>2, <2>4 DEF Sound, Tearing, Stays
  <2>6. /\ StepOf(r).kind \in Kinds
        /\ Reached(r) \in SUBSET Addresses /\ RemoveAt(r, Reached(r))
    BY <2>1, <2>2, <2>3, Typing, StepTyped, ReachedIsAddress DEF Remove
  <2>7. \A l \in Kinds, b \in Addresses : cloud'[l][b] # cloud[l][b] =>
          l = StepOf(r).kind /\ b \in Reached(r) /\ cloud'[l][b] = Nobody
    BY <2>2, <2>6, RemovesOnly, ZenonT(120)
  <2> QED
    BY <2>1, <2>5, <2>7 DEF Reached
<1>2. Spec => [][A]_vars
  BY <1>1, Invariance, PTL DEF Spec
<1> QED
  BY <1>2
=============================================================================
