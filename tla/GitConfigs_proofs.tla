-------------------------- MODULE GitConfigs_proofs --------------------------
(***************************************************************************)
(* Theorems about GitConfigs, for any configurations, any number of        *)
(* requests at a time and of changes.                                      *)
(***************************************************************************)
EXTENDS GitConfigs, SequenceTheorems, TLAPS

ConstantsTyped == MaxSaves \in Nat /\ ConfigNames # {}

(* Types *)

Steps == {"idle", "open", "read", "create", "find", "createAgain", "save"}
ReqType == [pc : Steps, kind : {"add", "edit", "delete"}, old : ConfigNames,
            name : ConfigNames, content : 0..MaxSaves, copy : Data, at : Nat, alone : BOOLEAN]

Typed ==
    /\ values \in Seq(Data)
    /\ request \in [Requests -> ReqType]
    /\ \A r \in Requests : /\ request[r].at \in 0..Len(values)
                           /\ request[r].pc = "save" => request[r].at \in DOMAIN values
    /\ saves \in 0..MaxSaves
    /\ recent \in [ConfigNames -> SUBSET (0..MaxSaves)]

LEMMA EmptyTyped == ASSUME ConstantsTyped PROVE Empty \in Data /\ None \in 0..MaxSaves
  BY DEF ConstantsTyped, Empty, Data, None

LEMMA NoRequestTyped == ASSUME ConstantsTyped PROVE NoRequest \in ReqType
<1>1. (CHOOSE n \in ConfigNames : TRUE) \in ConfigNames
  BY DEF ConstantsTyped
<1> QED
  BY <1>1, EmptyTyped DEF NoRequest, ReqType, Steps

LEMMA StoredTyped == ASSUME ConstantsTyped, values \in Seq(Data) PROVE Stored \in Data
<1>1. CASE values = <<>>
  BY <1>1, EmptyTyped DEF Stored
<1>2. CASE values # <<>>
  <2>1. 1 \in DOMAIN values
    BY <1>2
  <2> QED
    BY <1>2, <2>1, ElementOfSeq DEF Stored
<1> QED
  BY <1>1, <1>2

LEMMA ChangedTyped ==
    ASSUME NEW q \in ReqType, NEW data \in Data PROVE Changed(q, data) \in Data
  BY DEF ReqType, Data, Changed

LEMMA QuietTyped ==
    ASSUME recent \in [ConfigNames -> SUBSET (0..MaxSaves)], NEW r, NEW data \in Data
    PROVE  Quieten(r, data) \in [ConfigNames -> SUBSET (0..MaxSaves)]
<1>1. [n \in ConfigNames |-> {data[n]}] \in [ConfigNames -> SUBSET (0..MaxSaves)]
  BY DEF Data
<1> QED
  BY <1>1 DEF Quieten

LEMMA InitTyped == ASSUME ConstantsTyped PROVE Init => Typed
<1> SUFFICES ASSUME Init PROVE Typed
  OBVIOUS
<1>1. values \in Seq(Data)
  BY DEF Init
<1>2. request \in [Requests -> ReqType]
  BY NoRequestTyped DEF Init
<1>3. ASSUME NEW r \in Requests
      PROVE  request[r].at \in 0..Len(values) /\ request[r].pc # "save"
  BY <1>3 DEF Init, NoRequest
<1>4. saves \in 0..MaxSaves
  BY DEF Init, ConstantsTyped
<1>5. recent \in [ConfigNames -> SUBSET (0..MaxSaves)]
  BY EmptyTyped DEF Init
<1> QED
  BY <1>1, <1>2, <1>3, <1>4, <1>5 DEF Typed

\* What a step writes into its own request; the others' rows are as long as before
\* or longer.
LEMMA RequestWritten ==
    ASSUME Typed, NEW r \in Requests, NEW q \in ReqType,
           request' = [request EXCEPT ![r] = q],
           values' \in Seq(Data), Len(values') >= Len(values),
           q.at \in 0..Len(values'), q.pc = "save" => q.at \in DOMAIN values'
    PROVE  /\ request' \in [Requests -> ReqType]
           /\ \A s \in Requests : /\ request'[s].at \in 0..Len(values')
                                  /\ request'[s].pc = "save" => request'[s].at \in DOMAIN values'
<1>1. request' \in [Requests -> ReqType]
  BY DEF Typed
<1>2. ASSUME NEW s \in Requests
      PROVE  /\ request'[s].at \in 0..Len(values')
             /\ request'[s].pc = "save" => request'[s].at \in DOMAIN values'
  <2>1. CASE s = r
    BY <2>1 DEF Typed
  <2>2. CASE s # r
    <3>1. request'[s] = request[s]
      BY <2>2 DEF Typed
    <3>2. /\ request[s].at \in 0..Len(values)
          /\ request[s].pc = "save" => request[s].at \in DOMAIN values
      BY DEF Typed
    <3>3. DOMAIN values = 1..Len(values) /\ DOMAIN values' = 1..Len(values')
          /\ Len(values) \in Nat /\ Len(values') \in Nat
      BY DEF Typed
    <3> QED
      BY <3>1, <3>2, <3>3
  <2> QED
    BY <2>1, <2>2
<1> QED
  BY <1>1, <1>2

LEMMA FailTyped ==
    ASSUME ConstantsTyped, Typed, NEW r \in Requests, Fail(r) PROVE Typed'
<1>1. NoRequest \in ReqType /\ NoRequest.at = 0 /\ NoRequest.pc = "idle"
  BY NoRequestTyped DEF NoRequest
<1>2. values' = values /\ Len(values) \in Nat
  BY DEF Fail, Typed
<1>3. request' \in [Requests -> ReqType]
      /\ \A s \in Requests : /\ request'[s].at \in 0..Len(values')
                             /\ request'[s].pc = "save" => request'[s].at \in DOMAIN values'
  <2>1. request' = [request EXCEPT ![r] = NoRequest]
    BY DEF Fail
  <2>2. values' \in Seq(Data) /\ Len(values') >= Len(values) /\ 0 \in 0..Len(values')
    BY <1>2 DEF Typed
  <2> QED
    BY <1>1, <2>1, <2>2, RequestWritten
<1>4. recent' \in [ConfigNames -> SUBSET (0..MaxSaves)]
  BY StoredTyped, QuietTyped DEF Fail, Typed
<1> QED
  BY <1>2, <1>3, <1>4 DEF Typed, Fail

\* Steps that change the step, the copy or the value found of one request.
LEMMA StepTypedIf ==
    ASSUME ConstantsTyped, Typed, NEW r \in Requests, NEW pc \in Steps, NEW copy \in Data,
           NEW at \in 0..Len(values), pc = "save" => at \in DOMAIN values,
           request' = [request EXCEPT ![r] = [request[r] EXCEPT !.pc = pc, !.copy = copy, !.at = at]],
           UNCHANGED <<values, saves, recent>>
    PROVE  Typed'
<1> DEFINE q == [request[r] EXCEPT !.pc = pc, !.copy = copy, !.at = at]
<1>1. Len(values) \in Nat
  BY DEF Typed
<1>2. q \in ReqType /\ q.at = at /\ q.pc = pc
  <2>1. at \in Nat
    BY <1>1
  <2>2. request[r] \in ReqType
    BY DEF Typed
  <2> QED
    BY <2>1, <2>2 DEF ReqType
<1> HIDE DEF q
<1>3. request' \in [Requests -> ReqType]
      /\ \A s \in Requests : /\ request'[s].at \in 0..Len(values')
                             /\ request'[s].pc = "save" => request'[s].at \in DOMAIN values'
  <2>1. request' = [request EXCEPT ![r] = q]
    BY DEF q
  <2> QED
    BY <1>1, <1>2, <2>1, RequestWritten DEF Typed
<1> QED
  BY <1>3 DEF Typed

LEMMA SubmitTyped ==
    ASSUME ConstantsTyped, Typed, NEW r \in Requests, NEW kind \in {"add", "edit", "delete"},
           NEW old \in ConfigNames, NEW name \in ConfigNames, Submit(r, kind, old, name)
    PROVE  Typed'
<1> DEFINE own == [NoRequest EXCEPT !.pc = IF kind = "edit" THEN "open" ELSE "read",
                     !.kind = kind, !.old = old, !.name = name, !.alone = InFlight = {},
                     !.content = IF kind = "delete" THEN None ELSE saves + 1]
           other(q) == [request[q] EXCEPT !.alone = request[q].pc = "idle"]
<1>1. saves \in Nat /\ saves + 1 \in 0..MaxSaves /\ MaxSaves \in Nat
  <2>1. saves < MaxSaves
    BY DEF Submit
  <2>2. saves \in 0..MaxSaves /\ MaxSaves \in Nat
    BY DEF Typed, ConstantsTyped
  <2> QED
    BY <2>1, <2>2
<1>2. own \in ReqType /\ own.at = 0 /\ own.pc # "save"
  <2>1. NoRequest \in ReqType
    BY NoRequestTyped
  <2>2. (IF kind = "edit" THEN "open" ELSE "read") \in Steps
    BY DEF Steps
  <2>3. (IF kind = "delete" THEN None ELSE saves + 1) \in 0..MaxSaves
    BY <1>1, EmptyTyped
  <2>4. (InFlight = {}) \in BOOLEAN
    OBVIOUS
  <2>5. NoRequest.at = 0
    BY DEF NoRequest
  <2>6. own.at = 0 /\ own.pc # "save"
    BY <2>1, <2>5 DEF ReqType
  <2> QED
    BY <2>1, <2>2, <2>3, <2>4, <2>6 DEF ReqType
<1>3. ASSUME NEW q \in Requests
      PROVE  other(q) \in ReqType /\ other(q).at = request[q].at /\ other(q).pc = request[q].pc
  BY DEF Typed, ReqType
<1>4. request' = [q \in Requests |-> IF q = r THEN own ELSE other(q)] /\ UNCHANGED <<values, recent>>
      /\ saves' = saves + 1
  BY DEF Submit
<1> HIDE DEF own, other
<1>5. request' \in [Requests -> ReqType]
  BY <1>2, <1>3, <1>4
<1>6. ASSUME NEW q \in Requests
      PROVE  /\ request'[q].at \in 0..Len(values')
             /\ request'[q].pc = "save" => request'[q].at \in DOMAIN values'
  <2>1. Len(values) \in Nat
    BY DEF Typed
  <2> QED
    BY <1>2, <1>3, <1>4, <2>1 DEF Typed
<1> QED
  BY <1>1, <1>4, <1>5, <1>6 DEF Typed

LEMMA OneStepTyped ==
    ASSUME ConstantsTyped, Typed, NEW r \in Requests, Open(r) \/ Read(r) \/ Find(r) \/ Die(r)
    PROVE  Typed'
<1> USE DEF Steps
<1>a. /\ request[r] \in ReqType /\ request[r].at \in 0..Len(values)
      /\ request[r].copy \in Data /\ Len(values) \in Nat /\ DOMAIN values = 1..Len(values)
  BY DEF Typed, ReqType
<1>b. ASSUME NEW pc \in Steps, pc # "save", Goto(r, pc), UNCHANGED <<values, saves, recent>>
      PROVE  Typed'
  <2>1. [request[r] EXCEPT !.pc = pc]
        = [request[r] EXCEPT !.pc = pc, !.copy = request[r].copy, !.at = request[r].at]
    BY <1>a DEF ReqType
  <2>2. request' = [request EXCEPT ![r] = [request[r] EXCEPT !.pc = pc]]
    BY <1>b DEF Goto
  <2>3. request' = [request EXCEPT ![r] = [request[r] EXCEPT !.pc = pc, !.copy = request[r].copy,
                                                             !.at = request[r].at]]
    BY <2>1, <2>2
  <2> QED
    BY <1>a, <1>b, <2>3, StepTypedIf
<1>1. CASE Open(r)
  BY <1>1, <1>b, FailTyped DEF Open
<1>2. CASE Read(r)
  <2>1. CASE Fail(r)
    BY <2>1, FailTyped
  <2>2. CASE Len(values) = 1 /\ ~Fail(r)
    <3>1. request' = [request EXCEPT ![r] = [request[r] EXCEPT !.copy = values[1], !.pc = "find"]]
          /\ UNCHANGED <<values, saves, recent>>
      BY <1>2, <2>2 DEF Read
    <3>2. [request[r] EXCEPT !.copy = values[1], !.pc = "find"]
          = [request[r] EXCEPT !.pc = "find", !.copy = values[1], !.at = request[r].at]
      BY <1>a DEF ReqType
    <3>3. values[1] \in Data
      BY <1>a, <2>2, ElementOfSeq DEF Typed
    <3> QED
      BY <1>a, <3>1, <3>2, <3>3, StepTypedIf
  <2>3. CASE ~(Len(values) = 1) /\ ~Fail(r)
    <3>1. Goto(r, "create") /\ UNCHANGED <<values, saves, recent>>
      BY <1>2, <2>3 DEF Read
    <3> QED
      BY <1>b, <3>1
  <2> QED
    BY <2>1, <2>2, <2>3
<1>3. CASE Find(r)
  <2>1. CASE Fail(r)
    BY <2>1, FailTyped
  <2>2. CASE Len(values) = 1 /\ ~Fail(r)
    <3>1. request' = [request EXCEPT ![r] = [request[r] EXCEPT !.at = 1, !.pc = "save"]]
          /\ UNCHANGED <<values, saves, recent>>
      BY <1>3, <2>2 DEF Find
    <3>2. [request[r] EXCEPT !.at = 1, !.pc = "save"]
          = [request[r] EXCEPT !.pc = "save", !.copy = request[r].copy, !.at = 1]
      BY <1>a DEF ReqType
    <3>3. 1 \in 0..Len(values) /\ 1 \in DOMAIN values
      BY <1>a, <2>2
    <3> QED
      BY <1>a, <3>1, <3>2, <3>3, StepTypedIf
  <2>3. CASE ~(Len(values) = 1) /\ ~Fail(r)
    <3>1. Goto(r, "createAgain") /\ UNCHANGED <<values, saves, recent>>
      BY <1>3, <2>3 DEF Find
    <3> QED
      BY <1>b, <3>1
  <2> QED
    BY <2>1, <2>2, <2>3
<1>4. CASE Die(r)
  BY <1>4, FailTyped DEF Die
<1> QED
  BY <1>1, <1>2, <1>3, <1>4

LEMMA CreateTyped ==
    ASSUME ConstantsTyped, Typed, NEW r \in Requests, NEW pc \in {"find", "save"},
           GetOrCreate(r, pc)
    PROVE  Typed'
<1> DEFINE empty == {i \in DOMAIN values : values[i] = Empty}
           at == IF empty = {} THEN Len(values) + 1 ELSE CHOOSE i \in empty : TRUE
           q == [request[r] EXCEPT !.pc = pc, !.at = IF pc = "save" THEN at ELSE 0]
<1>1. /\ request[r] \in ReqType /\ Len(values) \in Nat /\ DOMAIN values = 1..Len(values)
  BY DEF Typed
<1>2. /\ values' = IF empty = {} THEN Append(values, Empty) ELSE values
      /\ request' = [request EXCEPT ![r] = q]
      /\ UNCHANGED <<saves, recent>>
  BY DEF GetOrCreate
<1>3. /\ values' \in Seq(Data) /\ Len(values') \in Nat /\ DOMAIN values' = 1..Len(values')
      /\ Len(values') >= Len(values)
  <2>1. CASE empty = {}
    <3>1. values' = Append(values, Empty)
      BY <1>2, <2>1
    <3> QED
      BY <1>1, <3>1, EmptyTyped, AppendProperties DEF Typed
  <2>2. CASE empty # {}
    <3>1. values' = values
      BY <1>2, <2>2
    <3> QED
      BY <1>1, <3>1 DEF Typed
  <2> QED
    BY <2>1, <2>2
<1>4. at \in DOMAIN values'
  <2>1. CASE empty = {}
    <3>1. values' = Append(values, Empty)
      BY <1>2, <2>1
    <3>2. Len(values') = Len(values) + 1
      BY <3>1, EmptyTyped, AppendProperties DEF Typed
    <3> QED
      BY <1>1, <1>3, <2>1, <3>2
  <2>2. CASE empty # {}
    <3>1. at \in empty
      BY <2>2
    <3> QED
      BY <1>2, <2>2, <3>1
  <2> QED
    BY <2>1, <2>2
<1> HIDE DEF at, empty
<1>5. q \in ReqType /\ q.pc = pc /\ q.at = (IF pc = "save" THEN at ELSE 0)
  <2>1. (IF pc = "save" THEN at ELSE 0) \in Nat
    BY <1>3, <1>4
  <2> QED
    BY <1>1, <2>1 DEF ReqType, Steps
<1> HIDE DEF q
<1>6. q.at \in 0..Len(values') /\ (q.pc = "save" => q.at \in DOMAIN values')
  BY <1>3, <1>4, <1>5
<1>7. /\ request' \in [Requests -> ReqType]
      /\ \A s \in Requests : /\ request'[s].at \in 0..Len(values')
                             /\ request'[s].pc = "save" => request'[s].at \in DOMAIN values'
  BY <1>2, <1>3, <1>5, <1>6, RequestWritten
<1> QED
  BY <1>2, <1>3, <1>7 DEF Typed

LEMMA SaveTyped ==
    ASSUME ConstantsTyped, Typed, NEW r \in Requests, Save(r)
    PROVE  Typed' /\ Len(values') = Len(values)
<1> DEFINE q == request[r]
           data == Changed(q, q.copy)
<1>1. /\ q \in ReqType /\ q.at \in DOMAIN values /\ data \in Data
      /\ DOMAIN values = 1..Len(values) /\ Len(values) \in Nat
  <2>1. q \in ReqType /\ q.copy \in Data /\ q.at \in DOMAIN values
    BY DEF Typed, ReqType, Save, At
  <2> QED
    BY <2>1, ChangedTyped DEF Typed
<1>2. values' = [values EXCEPT ![q.at] = data]
  BY DEF Save
<1> HIDE DEF data
<1>3. values' \in Seq(Data) /\ Len(values') = Len(values) /\ DOMAIN values' = DOMAIN values
  BY <1>1, <1>2, ExceptSeq DEF Typed
<1>4. NoRequest \in ReqType /\ NoRequest.at = 0 /\ NoRequest.pc = "idle"
  BY NoRequestTyped DEF NoRequest
<1>5. request' = [request EXCEPT ![r] = NoRequest] /\ UNCHANGED saves
  BY DEF Save
<1>6. /\ request' \in [Requests -> ReqType]
      /\ \A s \in Requests : /\ request'[s].at \in 0..Len(values')
                             /\ request'[s].pc = "save" => request'[s].at \in DOMAIN values'
  <2>1. Len(values') >= Len(values) /\ 0 \in 0..Len(values')
    BY <1>1, <1>3
  <2> QED
    BY <1>3, <1>4, <1>5, <2>1, RequestWritten
<1>7. recent' \in [ConfigNames -> SUBSET (0..MaxSaves)]
  <2>1. CASE InFlight = {r}
    <3>1. 1 \in DOMAIN values'
      BY <1>1, <1>3
    <3>2. values'[1] \in Data
      BY <1>3, <3>1, ElementOfSeq
    <3>3. recent' = Quieten(r, values'[1])
      BY <2>1 DEF Save
    <3> QED
      BY <3>2, <3>3, QuietTyped DEF Typed
  <2>2. CASE InFlight # {r}
    <3>1. recent' = [recent EXCEPT ![q.name] = @ \cup {q.content}]
      BY <2>2 DEF Save
    <3>2. q.name \in ConfigNames /\ q.content \in 0..MaxSaves
      BY <1>1 DEF ReqType
    <3> QED
      BY <3>1, <3>2 DEF Typed
  <2> QED
    BY <2>1, <2>2
<1> QED
  BY <1>3, <1>5, <1>6, <1>7 DEF Typed

LEMMA StepTyped == ASSUME ConstantsTyped, Typed, [Next]_vars PROVE Typed'
<1>1. CASE UNCHANGED vars
  BY <1>1 DEF vars, Typed
<1>2. CASE Next
  BY <1>2, SubmitTyped, OneStepTyped, CreateTyped, SaveTyped DEF Next
<1> QED
  BY <1>1, <1>2

\* Every reachable state is well typed.
THEOREM TypeCorrect == ASSUME ConstantsTyped PROVE Spec => []TypeOK
<1>1. Init => Typed
  BY InitTyped
<1>2. Typed /\ [Next]_vars => Typed'
  BY StepTyped
<1>3. Typed => TypeOK
  BY DEF Typed, TypeOK, ReqType, Steps
<1> QED
  BY <1>1, <1>2, <1>3, PTL DEF Spec
-----------------------------------------------------------------------------
(* What the copies hold *)

\* Nobody finds the value gone that he read or made before: values are added only.
Tracked ==
    \A r \in Requests : LET q == request[r] IN
      /\ q.pc \in {"open", "read", "create"} => q.copy = Empty
      /\ q.pc # "createAgain"
      /\ q.pc \in {"find", "save"} => values # <<>>

\* Who was alone from the beginning still is, and his copy is what is stored.
Lonely ==
    \A r \in Requests : LET q == request[r] IN
      q.alone /\ q.pc # "idle" =>
        /\ \A s \in Requests : s # r => request[s].pc = "idle"
        /\ q.pc = "create" => values = <<>>
        /\ q.pc \in {"find", "save"} => Len(values) = 1 /\ q.copy = values[1]

\* What is stored, and what is in a copy that may be stored, is recent.
CopiesAreRecent ==
    Len(values) <= 1 =>
      /\ \A n \in ConfigNames : Stored[n] \in recent[n]
      /\ \A r \in Requests :
           request[r].pc \in {"create", "find", "save"} =>
             \A n \in ConfigNames : request[r].copy[n] \in recent[n]

IInv == Typed /\ Tracked /\ Lonely /\ CopiesAreRecent

LEMMA InitTracked == ASSUME ConstantsTyped PROVE Init => IInv
<1> SUFFICES ASSUME Init PROVE IInv
  OBVIOUS
<1>1. Typed
  BY InitTyped
<1>2. ASSUME NEW r \in Requests PROVE request[r].pc = "idle"
  BY <1>2 DEF Init, NoRequest
<1>3. Tracked /\ Lonely
  BY <1>2 DEF Tracked, Lonely
<1>4. CopiesAreRecent
  <2>1. Stored = Empty /\ recent = [n \in ConfigNames |-> {None}]
    BY DEF Init, Stored
  <2>2. ASSUME NEW n \in ConfigNames PROVE Stored[n] \in recent[n]
    BY <2>1 DEF Empty
  <2> QED
    BY <1>2, <2>2 DEF CopiesAreRecent
<1> QED
  BY <1>1, <1>3, <1>4 DEF IInv

\* A request that gives up, and one that ends, leaves the others as they were.
LEMMA FailTracked ==
    ASSUME ConstantsTyped, IInv, NEW r \in Requests, Fail(r) PROVE IInv'
<1>1. Typed'
  BY FailTyped DEF IInv
<1>2. ASSUME NEW s \in Requests PROVE request'[s].pc = "idle" \/ (s # r /\ request'[s] = request[s])
  <2>1. request' = [request EXCEPT ![r] = NoRequest] /\ NoRequest.pc = "idle"
    BY DEF Fail, NoRequest
  <2> QED
    BY <2>1 DEF IInv, Typed
<1>3. ASSUME NEW s \in Requests PROVE request[s].pc = "idle" => request'[s].pc = "idle"
  BY <1>2
<1>4. values' = values /\ Stored' = Stored
  BY DEF Fail, Stored
<1>5. Tracked'
  BY <1>2, <1>4 DEF IInv, Tracked
<1>6. Lonely'
  BY <1>2, <1>3, <1>4 DEF IInv, Lonely
<1>7. CopiesAreRecent'
  <2> SUFFICES ASSUME Len(values) <= 1
               PROVE  /\ \A n \in ConfigNames : Stored[n] \in recent'[n]
                      /\ \A s \in Requests :
                           request'[s].pc \in {"create", "find", "save"} =>
                             \A n \in ConfigNames : request'[s].copy[n] \in recent'[n]
    BY <1>4 DEF CopiesAreRecent
  <2>1. recent' = Quieten(r, Stored)
    BY DEF Fail
  <2>2. CASE InFlight \subseteq {r}
    <3>1. recent' = [n \in ConfigNames |-> {Stored[n]}]
      BY <2>1, <2>2 DEF Quieten
    <3>2. ASSUME NEW s \in Requests PROVE request'[s].pc = "idle"
      BY <1>2, <2>2 DEF InFlight
    <3> QED
      BY <3>1, <3>2
  <2>3. CASE ~(InFlight \subseteq {r})
    <3>1. recent' = recent
      BY <2>1, <2>3 DEF Quieten
    <3> QED
      BY <1>2, <3>1 DEF IInv, CopiesAreRecent
  <2> QED
    BY <2>2, <2>3
<1> QED
  BY <1>1, <1>5, <1>6, <1>7 DEF IInv

LEMMA SubmitTracked ==
    ASSUME ConstantsTyped, IInv, NEW r \in Requests, NEW kind \in {"add", "edit", "delete"},
           NEW old \in ConfigNames, NEW name \in ConfigNames, Submit(r, kind, old, name)
    PROVE  IInv'
<1>1. Typed'
  BY SubmitTyped DEF IInv
<1>2. request'[r].pc \in {"open", "read"} /\ request'[r].copy = Empty
      /\ request'[r].alone = (InFlight = {})
  <2> DEFINE own == [NoRequest EXCEPT !.pc = IF kind = "edit" THEN "open" ELSE "read",
                       !.kind = kind, !.old = old, !.name = name, !.alone = ~(InFlight # {}),
                       !.content = IF kind = "delete" THEN None ELSE saves + 1]
  <2>1. request'[r] = own
    BY DEF Submit
  <2>2. own.pc \in {"open", "read"} /\ own.copy = Empty /\ own.alone = ~(InFlight # {})
    BY DEF NoRequest
  <2> HIDE DEF own
  <2> QED
    BY <2>1, <2>2
<1>3. ASSUME NEW s \in Requests, s # r
      PROVE  /\ request'[s].pc = request[s].pc /\ request'[s].copy = request[s].copy
             /\ request'[s].alone = (request[s].pc = "idle")
  <2>1. request'[s] = [request[s] EXCEPT !.alone = request[s].pc = "idle"]
    BY <1>3 DEF Submit
  <2>2. request[s] \in ReqType
    BY DEF IInv, Typed
  <2> QED
    BY <2>1, <2>2 DEF ReqType
<1>4. UNCHANGED <<values, recent>> /\ Stored' = Stored
  BY DEF Submit, Stored
<1>5. Tracked'
  BY <1>2, <1>3, <1>4 DEF IInv, Tracked
<1>6. Lonely'
  <2>1. ASSUME InFlight = {}, NEW s \in Requests PROVE request[s].pc = "idle"
    BY <2>1 DEF InFlight
  <2>2. request'[r].alone /\ request'[r].pc # "idle" =>
          \A s \in Requests : s # r => request'[s].pc = "idle"
    BY <1>2, <1>3, <2>1
  <2>3. request'[r].pc \notin {"create", "find", "save"}
    BY <1>2
  <2>4. ASSUME NEW s \in Requests, s # r PROVE ~(request'[s].alone /\ request'[s].pc # "idle")
    BY <1>3, <2>4
  <2> QED
    BY <2>2, <2>3, <2>4 DEF Lonely
<1>7. CopiesAreRecent'
  BY <1>2, <1>3, <1>4 DEF IInv, CopiesAreRecent
<1> QED
  BY <1>1, <1>5, <1>6, <1>7 DEF IInv

\* Steps that change the step or the copy of one request and nothing else.
LEMMA GotoTracked ==
    ASSUME ConstantsTyped, IInv, Typed', NEW r \in Requests, request[r].pc # "idle",
           UNCHANGED <<values, recent>>,
           \A s \in Requests : s # r => request'[s] = request[s],
           request'[r].alone = request[r].alone,
           \/ request'[r].pc = "read" /\ request'[r].copy = Empty
           \/ request'[r].pc = "create" /\ request'[r].copy = Empty /\ values = <<>>
           \/ /\ request'[r].pc = "find" /\ request'[r].copy = values[1]
              /\ values # <<>> /\ Len(values) = 1
           \/ /\ request'[r].pc = "save" /\ request'[r].copy = request[r].copy
              /\ values # <<>> /\ Len(values) = 1 /\ request[r].pc = "find"
    PROVE  IInv'
<1>1. Stored' = Stored
  BY DEF Stored
<1>2. Tracked'
  BY DEF IInv, Tracked
<1>3. Lonely'
  BY DEF IInv, Lonely
<1>4. CopiesAreRecent'
  <2> SUFFICES ASSUME Len(values) <= 1
               PROVE  /\ \A n \in ConfigNames : Stored[n] \in recent[n]
                      /\ \A s \in Requests :
                           request'[s].pc \in {"create", "find", "save"} =>
                             \A n \in ConfigNames : request'[s].copy[n] \in recent[n]
    BY <1>1 DEF CopiesAreRecent
  <2>1. \A n \in ConfigNames : Stored[n] \in recent[n]
    BY DEF IInv, CopiesAreRecent
  <2>2. ASSUME NEW s \in Requests, request'[s].pc \in {"create", "find", "save"},
               NEW n \in ConfigNames
        PROVE  request'[s].copy[n] \in recent[n]
    <3>1. CASE s # r
      BY <2>2, <3>1 DEF IInv, CopiesAreRecent
    <3>2. CASE s = r /\ request'[r].copy = Stored
      BY <2>1, <3>2
    <3>3. CASE s = r /\ request'[r].copy = request[r].copy /\ request[r].pc = "find"
      BY <3>3 DEF IInv, CopiesAreRecent
    <3>4. CASE s = r /\ request'[r].pc = "create"
      <4>1. Stored = Empty
        BY <3>4 DEF Stored
      <4> QED
        BY <3>2, <3>4, <4>1
    <3>5. CASE s = r /\ request'[r].pc \in {"find", "save"}
      <4>1. Len(values) = 1 => Stored = values[1]
        BY <3>5 DEF Stored
      <4> QED
        BY <3>2, <3>3, <3>5, <4>1
    <3> QED
      BY <2>2, <3>1, <3>4, <3>5
  <2> QED
    BY <2>1, <2>2
<1> QED
  BY <1>2, <1>3, <1>4 DEF IInv

LEMMA OnlyIndex == ASSUME NEW n \in Nat, NEW i \in 1..n, n <= 1 PROVE i = 1 /\ n = 1
  OBVIOUS

LEMMA ZeroOneMore == ASSUME NEW n \in Nat PROVE n = 0 \/ n = 1 \/ (n > 1 /\ n # 1 /\ n # 0)
  OBVIOUS

LEMMA OneStepTracked ==
    ASSUME ConstantsTyped, IInv, NEW r \in Requests,
           Open(r) \/ Read(r) \/ Find(r) \/ Die(r)
    PROVE  IInv'
<1>1. CASE Fail(r)
  BY <1>1, FailTracked
<1>2. Typed'
  BY OneStepTyped DEF IInv
<1>3. request \in [Requests -> ReqType] /\ request[r] \in ReqType /\ Len(values) \in Nat
      /\ (Len(values) = 0 <=> values = <<>>)
  BY DEF IInv, Typed
<1>c. \/ Len(values) = 0 /\ values = <<>>
      \/ Len(values) = 1 /\ values # <<>>
      \/ Len(values) > 1 /\ Len(values) # 1
  BY <1>3, ZeroOneMore
<1>4. CASE Open(r) /\ ~Fail(r)
  <2>1. At(r, "open") /\ Goto(r, "read") /\ UNCHANGED <<values, saves, recent>>
    BY <1>4 DEF Open
  <2>2. /\ \A s \in Requests : s # r => request'[s] = request[s]
        /\ request'[r].alone = request[r].alone /\ request'[r].pc = "read"
        /\ request'[r].copy = request[r].copy
    BY <1>3, <2>1 DEF Goto, ReqType
  <2>3. request[r].copy = Empty /\ request[r].pc # "idle"
    BY <2>1 DEF IInv, Tracked, At
  <2> QED
    BY <1>2, <2>1, <2>2, <2>3, GotoTracked
<1>5. CASE Read(r) /\ ~Fail(r)
  <2>1. At(r, "read") /\ request[r].copy = Empty
    BY <1>5 DEF Read, IInv, Tracked, At
  <2>2. CASE Len(values) = 1
    <3>1. /\ request' = [request EXCEPT ![r].copy = values[1], ![r].pc = "find"]
          /\ UNCHANGED <<values, saves, recent>>
      BY <1>5, <2>2 DEF Read
    <3>2. /\ \A s \in Requests : s # r => request'[s] = request[s]
          /\ request'[r].alone = request[r].alone /\ request'[r].pc = "find"
          /\ request'[r].copy = values[1]
      BY <1>3, <3>1 DEF ReqType
    <3>3. values # <<>> /\ request[r].pc # "idle"
      BY <1>c, <2>1, <2>2 DEF At
    <3>4. UNCHANGED <<values, recent>>
      BY <3>1
    <3> QED
      BY <1>2, <2>2, <3>2, <3>3, <3>4, GotoTracked
  <2>3. CASE Len(values) # 1
    <3>1. Goto(r, "create") /\ UNCHANGED <<values, saves, recent>> /\ values = <<>>
      <4>1. ASSUME Len(values) > 1, Len(values) # 1 PROVE Fail(r)
        BY <1>5, <4>1 DEF Read
      <4>2. Goto(r, "create") /\ UNCHANGED <<values, saves, recent>>
        BY <1>5, <2>3, <4>1 DEF Read
      <4> QED
        BY <1>c, <1>5, <2>3, <4>1, <4>2
    <3>2. /\ \A s \in Requests : s # r => request'[s] = request[s]
          /\ request'[r].alone = request[r].alone /\ request'[r].pc = "create"
          /\ request'[r].copy = request[r].copy
      BY <1>3, <3>1 DEF Goto, ReqType
    <3>3. values = <<>> /\ request[r].pc # "idle"
      BY <2>1, <3>1 DEF At
    <3>4. UNCHANGED <<values, recent>>
      BY <3>1
    <3> QED
      BY <1>2, <2>1, <3>2, <3>3, <3>4, GotoTracked
  <2> QED
    BY <2>2, <2>3
<1>6. CASE Find(r) /\ ~Fail(r)
  <2>1. At(r, "find") /\ Len(values) = 1
    <3>1. values # <<>> /\ At(r, "find")
      BY <1>6 DEF Find, IInv, Tracked, At
    <3>2. Len(values) > 1 => Fail(r)
      BY <1>6 DEF Find
    <3> QED
      BY <1>c, <1>6, <3>1, <3>2
  <2>2. /\ request' = [request EXCEPT ![r].at = 1, ![r].pc = "save"]
        /\ UNCHANGED <<values, saves, recent>>
    BY <1>6, <2>1 DEF Find
  <2>3. /\ \A s \in Requests : s # r => request'[s] = request[s]
        /\ request'[r].alone = request[r].alone /\ request'[r].pc = "save"
        /\ request'[r].copy = request[r].copy
    BY <1>3, <2>2 DEF ReqType
  <2> QED
    BY <1>2, <1>3, <2>1, <2>2, <2>3, GotoTracked DEF At
<1>7. Die(r) => Fail(r)
  BY DEF Die
<1> QED
  BY <1>1, <1>4, <1>5, <1>6, <1>7
LEMMA CreateTracked ==
    ASSUME ConstantsTyped, IInv, NEW r \in Requests, NEW pc \in {"find", "save"},
           GetOrCreate(r, pc)
    PROVE  IInv'
<1>1. Typed'
  BY CreateTyped DEF IInv
<1>2. request \in [Requests -> ReqType] /\ request[r] \in ReqType /\ values \in Seq(Data)
      /\ Len(values) \in Nat /\ (Len(values) = 0 <=> values = <<>>) /\ Empty \in Data
  BY EmptyTyped DEF IInv, Typed
<1>3. pc = "find" /\ request[r].pc = "create" /\ request[r].copy = Empty
  BY DEF GetOrCreate, At, IInv, Tracked
<1>4. /\ \A s \in Requests : s # r => request'[s] = request[s]
      /\ request'[r].alone = request[r].alone /\ request'[r].pc = "find"
      /\ request'[r].copy = Empty
  BY <1>2, <1>3 DEF GetOrCreate, ReqType
<1>5. \/ values' = Append(values, Empty)
      \/ values' = values /\ \E i \in DOMAIN values : values[i] = Empty
  BY DEF GetOrCreate
<1>6. recent' = recent
  BY DEF GetOrCreate
<1>7. /\ values' # <<>> /\ (values # <<>> => Len(values') > 1 \/ values' = values)
      /\ values = <<>> => Len(values') = 1 /\ values'[1] = Empty
      /\ Len(values') <= 1 => Len(values) <= 1 /\ Len(values') = 1 /\ values'[1] = Empty
  <2>1. CASE values' = Append(values, Empty)
    <3>1. Len(values') = Len(values) + 1 /\ values'[Len(values) + 1] = Empty
      BY <1>2, <2>1, AppendProperties
    <3>2. values' # <<>>
      BY <1>2, <3>1
    <3> QED
      BY <1>2, <3>1, <3>2
  <2>2. CASE values' = values /\ \E i \in DOMAIN values : values[i] = Empty
    <3>1. PICK i \in DOMAIN values : values[i] = Empty
      BY <2>2
    <3>2. i \in 1..Len(values)
      BY <1>2, <3>1
    <3>3. Len(values) <= 1 => i = 1 /\ Len(values) = 1
      BY <1>2, <3>2, OnlyIndex
    <3>4. values # <<>> /\ values' = values
      BY <1>2, <2>2, <3>2
    <3>5. Len(values) <= 1 => values[1] = Empty
      BY <3>1, <3>3
    <3> QED
      BY <3>3, <3>4, <3>5
  <2> QED
    BY <1>5, <2>1, <2>2
<1>8. Tracked'
  BY <1>4, <1>7, <1>3 DEF IInv, Tracked
<1>9. Lonely'
  <2>1. ASSUME NEW s \in Requests, request'[s].alone, request'[s].pc # "idle" PROVE s = r
    BY <1>3, <1>4, <2>1 DEF IInv, Lonely
  <2>2. request[r].alone => values = <<>> /\ \A s \in Requests : s # r => request[s].pc = "idle"
    BY <1>3 DEF IInv, Lonely
  <2> QED
    BY <1>4, <1>7, <2>1, <2>2 DEF Lonely
<1>10. CopiesAreRecent'
  <2> SUFFICES ASSUME Len(values') <= 1 PROVE CopiesAreRecent'
    BY DEF CopiesAreRecent
  <2>1. Stored' = Empty
    BY <1>7 DEF Stored
  <2>2. Len(values) <= 1 /\ \A n \in ConfigNames : Stored[n] \in recent[n] /\ Empty[n] \in recent[n]
    BY <1>3, <1>7 DEF IInv, CopiesAreRecent
  <2> QED
    BY <1>4, <1>6, <2>1, <2>2 DEF IInv, CopiesAreRecent
<1> QED
  BY <1>1, <1>8, <1>9, <1>10 DEF IInv

\* What a save leaves: the copy with the change, where the value was found.
LEMMA SaveWrites ==
    ASSUME ConstantsTyped, IInv, NEW r \in Requests, Save(r)
    PROVE  LET q == request[r]
               data == Changed(q, q.copy)
           IN  /\ Len(values') = Len(values) /\ values # <<>>
               /\ Len(values) <= 1 => values' = <<data>> /\ Stored' = data
<1> DEFINE q == request[r]
           data == Changed(q, q.copy)
<1>1. values \in Seq(Data) /\ q.at \in DOMAIN values
  BY DEF Save, At, IInv, Typed
<1>2. values' = [values EXCEPT ![q.at] = data]
  BY DEF Save
<1>3. data \in Data
  BY ChangedTyped DEF IInv, Typed, ReqType
<1> HIDE DEF data
<1>4. values' \in Seq(Data) /\ Len(values') = Len(values)
  BY <1>1, <1>2, <1>3, ExceptSeq
<1>5. q.at \in 1..Len(values) /\ Len(values) \in Nat
  BY <1>1
<1>6. Len(values) <= 1 => q.at = 1 /\ Len(values) = 1
  BY <1>5, OnlyIndex
<1>7. Len(values) <= 1 => values'[1] = data
  BY <1>1, <1>2, <1>6, ExceptSeq
<1>8. Len(values) <= 1 => values' = <<data>> /\ Stored' = data
  BY <1>4, <1>6, <1>7 DEF Stored
<1> QED
  BY <1>4, <1>5, <1>8 DEF data

LEMMA SaveTracked ==
    ASSUME ConstantsTyped, IInv, NEW r \in Requests, Save(r) PROVE IInv'
<1> DEFINE q == request[r]
           data == Changed(q, q.copy)
<1>1. Typed'
  BY SaveTyped DEF IInv
<1>2. q \in ReqType /\ q.pc = "save" /\ data \in Data /\ Len(values) \in Nat
  BY ChangedTyped DEF Save, At, IInv, Typed, ReqType
<1>3. /\ Len(values') = Len(values) /\ values # <<>>
      /\ Len(values) <= 1 => values' = <<data>> /\ Stored' = data
  BY SaveWrites
<1>4. request'[r].pc = "idle" /\ \A s \in Requests : s # r => request'[s] = request[s]
  <2>1. request' = [request EXCEPT ![r] = NoRequest] /\ NoRequest.pc = "idle"
    BY DEF Save, NoRequest
  <2> QED
    BY <2>1 DEF IInv, Typed
<1>5. values' # <<>>
  BY <1>1, <1>2, <1>3 DEF IInv, Typed
<1>6. Tracked'
  BY <1>4, <1>5 DEF IInv, Tracked
<1>7. Lonely'
  <2>1. ASSUME NEW s \in Requests, request'[s].alone PROVE request'[s].pc = "idle"
    BY <1>2, <1>4, <2>1 DEF IInv, Lonely
  <2> QED
    BY <2>1 DEF Lonely
<1>8. CopiesAreRecent'
  <2> SUFFICES ASSUME Len(values) <= 1 PROVE CopiesAreRecent'
    BY <1>3 DEF CopiesAreRecent
  <2>1. Stored' = data
    BY <1>3
  <2>2. \A n \in ConfigNames : q.copy[n] \in recent[n]
    BY <1>2 DEF IInv, CopiesAreRecent
  <2>3. CASE InFlight = {r}
    <3>1. recent' = [n \in ConfigNames |-> {data[n]}]
      BY <1>3, <2>3 DEF Save, Quieten
    <3>2. ASSUME NEW s \in Requests PROVE request'[s].pc = "idle"
      BY <1>4, <2>3 DEF InFlight
    <3> QED
      BY <2>1, <3>1, <3>2 DEF CopiesAreRecent
  <2>4. CASE InFlight # {r}
    <3>1. recent' = [recent EXCEPT ![q.name] = @ \cup {q.content}]
      BY <2>4 DEF Save
    <3>2. ASSUME NEW n \in ConfigNames PROVE recent[n] \subseteq recent'[n]
      BY <3>1 DEF IInv, Typed
    <3>3. ASSUME NEW n \in ConfigNames PROVE data[n] \in recent'[n]
      <4>1. q.copy \in Data /\ q.name \in ConfigNames
        BY <1>2 DEF ReqType
      <4>2. data[n] = IF n = q.name THEN q.content ELSE q.copy[n]
        BY <4>1 DEF Changed, Data
      <4>3. CASE n = q.name
        BY <3>1, <4>1, <4>2, <4>3 DEF IInv, Typed
      <4>4. CASE n # q.name
        BY <2>2, <3>2, <4>2, <4>4
      <4> QED
        BY <4>3, <4>4
    <3> HIDE DEF data
    <3>4. ASSUME NEW s \in Requests, request'[s].pc \in {"create", "find", "save"},
                 NEW n \in ConfigNames
          PROVE  request'[s].copy[n] \in recent'[n]
      <4>1. s # r /\ request'[s] = request[s]
        BY <1>4, <3>4
      <4>2. request[s].copy[n] \in recent[n]
        BY <3>4, <4>1 DEF IInv, CopiesAreRecent
      <4> QED
        BY <3>2, <4>1, <4>2
    <3> QED
      BY <2>1, <3>3, <3>4 DEF CopiesAreRecent
  <2> QED
    BY <2>3, <2>4
<1> QED
  BY <1>1, <1>6, <1>7, <1>8 DEF IInv

LEMMA StepTracked == ASSUME ConstantsTyped, IInv, [Next]_vars PROVE IInv'
<1>1. CASE UNCHANGED vars
  BY <1>1 DEF vars, IInv, Typed, Tracked, Lonely, CopiesAreRecent, Stored
<1>2. CASE Next
  BY <1>2, SubmitTracked, OneStepTracked, CreateTracked, SaveTracked DEF Next
<1> QED
  BY <1>1, <1>2

LEMMA Invariance == ASSUME ConstantsTyped PROVE Spec => []IInv
<1>1. Init => IInv
  BY InitTracked
<1>2. IInv /\ [Next]_vars => IInv'
  BY StepTracked
<1> QED
  BY <1>1, <1>2, PTL DEF Spec

\* What is stored under a name was saved there by a request of those that overlap,
\* or was there before them.
THEOREM NothingIsInvented == ASSUME ConstantsTyped PROVE Spec => []StoredIsRecent
<1>1. IInv => StoredIsRecent
  BY DEF IInv, CopiesAreRecent, StoredIsRecent
<1> QED
  BY <1>1, Invariance, PTL

\* Whoever was alone changed what he named and nothing else.
THEOREM AloneChangesOne == ASSUME ConstantsTyped PROVE Spec => AloneIsExact
<1>1. ASSUME IInv, [Next]_vars, NEW r \in Requests, At(r, "save"), request[r].alone,
             values' # values
      PROVE  Stored' = [Stored EXCEPT ![request[r].name] = request[r].content]
  <2>1. /\ \A s \in Requests : s # r => request[s].pc = "idle"
        /\ Len(values) = 1 /\ request[r].copy = values[1]
    BY <1>1 DEF At, IInv, Lonely
  <2>2. Next
    BY <1>1 DEF vars
  <2>3. Save(r)
    <3>1. PICK s \in Requests : \/ GetOrCreate(s, "find") \/ GetOrCreate(s, "save") \/ Save(s)
      BY <1>1, <2>2 DEF Next, Submit, Open, Read, Find, Die, Fail, Goto
    <3>2. request[s].pc # "idle" /\ s = r
      BY <2>1, <3>1 DEF GetOrCreate, Save, At
    <3> QED
      BY <1>1, <3>1, <3>2 DEF GetOrCreate, At
  <2>4. Stored' = Changed(request[r], Stored)
    <3>1. values # <<>> /\ Stored = values[1]
      BY <2>1 DEF Stored
    <3> QED
      BY <1>1, <2>1, <2>3, <3>1, SaveWrites
  <2> QED
    BY <2>4 DEF Changed
<1>2. IInv /\ [Next]_vars =>
        [\A r \in Requests : LET q == request[r] IN
           At(r, "save") /\ q.alone /\ values' # values =>
             Stored' = [Stored EXCEPT ![q.name] = q.content]]_vars
  BY <1>1
<1> QED
  BY <1>2, Invariance, PTL DEF Spec, AloneIsExact

\* A second value, after which every request fails, takes two requests that met.
THEOREM SecondValueTakesTwo == ASSUME ConstantsTyped PROVE Spec => OneValue
<1>1. ASSUME IInv, [Next]_vars, Len(values') > 1, ~(Len(values) > 1),
             \A r \in Requests : request[r].alone
      PROVE  FALSE
  <2>1. Next /\ values' # values
    BY <1>1 DEF vars
  <2>2. PICK r \in Requests : GetOrCreate(r, "find") \/ GetOrCreate(r, "save") \/ Save(r)
    BY <2>1 DEF Next, Submit, Open, Read, Find, Die, Fail, Goto
  <2>3. ~Save(r)
    BY <1>1, SaveWrites
  <2>4. request[r].pc = "create" /\ values = <<>>
    BY <1>1, <2>2, <2>3 DEF GetOrCreate, At, IInv, Tracked, Lonely
  <2>5. values' = Append(<<>>, Empty)
    BY <2>2, <2>3, <2>4 DEF GetOrCreate
  <2> QED
    BY <1>1, <2>5, EmptyTyped
<1>2. IInv /\ [Next]_vars =>
        [Len(values') > 1 => Len(values) > 1 \/ \E r \in Requests : ~request[r].alone]_vars
  BY <1>1
<1> QED
  BY <1>2, Invariance, PTL DEF Spec, OneValue
=============================================================================
