----------------------------- MODULE GitConfigs -----------------------------
(***************************************************************************)
(* Where the git management extension keeps an administrator's             *)
(* configurations (or tokens): all of them in one JSON object, the value   *)
(* of one custom field of the administrator's profile                      *)
(* (GitManagementConfigs, utilities.py:98).  Each change reads the object, *)
(* changes its copy, looks the value up again and writes the whole copy.   *)
(* Nothing keeps two requests of the administrator apart.                  *)
(***************************************************************************)
EXTENDS Naturals, Sequences, FiniteSets

CONSTANTS
    ConfigNames,
    Requests,      \* bound: requests at a time
    MaxSaves       \* bound: changes in all

VARIABLES
    values,        \* the custom field values of the administrator
    request,       \* request[r]: the change, its step, its copy, the value it found
    saves,         \* bound: changes begun, the names of their contents
    recent         \* history: recent[n]: what was saved under n since all was quiet

vars == <<values, request, saves, recent>>

None == 0
Data == [ConfigNames -> 0..MaxSaves]
Empty == [n \in ConfigNames |-> None]

NoRequest == [pc |-> "idle", kind |-> "add", old |-> CHOOSE n \in ConfigNames : TRUE,
              name |-> CHOOSE n \in ConfigNames : TRUE, content |-> None,
              copy |-> Empty, at |-> 0, alone |-> TRUE]

TypeOK ==
    /\ values \in Seq(Data)
    /\ \A r \in Requests : LET q == request[r] IN
         /\ q.pc \in {"idle", "open", "read", "create", "find", "createAgain", "save"}
         /\ q.copy \in Data /\ q.at \in 0..Len(values) /\ q.alone \in BOOLEAN
    /\ saves \in 0..MaxSaves
    /\ recent \in [ConfigNames -> SUBSET (0..MaxSaves)]
-----------------------------------------------------------------------------
Stored == IF values = <<>> THEN Empty ELSE values[1]
InFlight == {r \in Requests : request[r].pc # "idle"}
At(r, pc) == request[r].pc = pc

\* add_or_edit_git_config, add_or_edit_git_token; delete_git_config
ForgetOthers(q, data) == [Empty EXCEPT ![q.name] = q.content]
ChangeAll(q, data) == [n \in ConfigNames |-> q.content]
Changed(q, data) == [data EXCEPT ![q.name] = q.content]

\* When the last request is over, what is stored is what counts.
Quieten(r, data) ==
    IF InFlight \subseteq {r} THEN [n \in ConfigNames |-> {data[n]}] ELSE recent

Goto(r, pc) == request' = [request EXCEPT ![r].pc = pc]
Fail(r) ==
    /\ request' = [request EXCEPT ![r] = NoRequest]
    /\ recent' = Quieten(r, Stored)
    /\ UNCHANGED <<values, saves>>

\* A form is submitted; whoever else is at it, is not alone any more.
Submit(r, kind, old, name) ==
    /\ At(r, "idle") /\ saves < MaxSaves
    /\ saves' = saves + 1
    /\ kind = "edit" \/ old = name
    /\ LET together == InFlight # {} IN
       request' = [q \in Requests |->
         IF q = r THEN [NoRequest EXCEPT !.pc = IF kind = "edit" THEN "open" ELSE "read",
                          !.kind = kind, !.old = old, !.name = name, !.alone = ~together,
                          !.content = IF kind = "delete" THEN None ELSE saves + 1]
         ELSE [request[q] EXCEPT !.alone = request[q].pc = "idle"]]
    /\ UNCHANGED <<values, recent>>

\* edit_git_config: the configuration to edit has to be there.  Under a new name it
\* is saved as another one.
Open(r) ==
    /\ At(r, "open")
    /\ IF Len(values) = 1 /\ Stored[request[r].old] # None
       THEN Goto(r, "read") /\ UNCHANGED <<values, saves, recent>>
       ELSE Fail(r)

\* get_config_data: more than one value is an error, for good.
Read(r) ==
    /\ At(r, "read")
    /\ CASE Len(values) > 1 -> Fail(r)
         [] Len(values) = 1 ->
              /\ request' = [request EXCEPT ![r].copy = values[1], ![r].pc = "find"]
              /\ UNCHANGED <<values, saves, recent>>
         [] OTHER -> Goto(r, "create") /\ UNCHANGED <<values, saves, recent>>

Find(r) ==
    /\ At(r, "find")
    /\ CASE Len(values) > 1 -> Fail(r)
         [] Len(values) = 1 ->
              /\ request' = [request EXCEPT ![r].at = 1, ![r].pc = "save"]
              /\ UNCHANGED <<values, saves, recent>>
         [] OTHER -> Goto(r, "createAgain") /\ UNCHANGED <<values, saves, recent>>

\* custom_field_values.get_or_create(field, value={"user": ...}): finds a value that
\* holds nothing else, and no other.
GetOrCreate(r, pc) ==
    /\ At(r, IF pc = "find" THEN "create" ELSE "createAgain")
    /\ LET empty == {i \in DOMAIN values : values[i] = Empty}
           at == IF empty = {} THEN Len(values) + 1 ELSE CHOOSE i \in empty : TRUE
       IN  /\ values' = IF empty = {} THEN Append(values, Empty) ELSE values
           /\ request' = [request EXCEPT ![r].pc = pc, ![r].at = IF pc = "save" THEN at ELSE 0]
    /\ UNCHANGED <<saves, recent>>

\* cfv.value = json.dumps(...), cfv.save() - or a new value.
SaveAsNew(r) ==
    /\ At(r, "save")
    /\ values' = Append(values, Changed(request[r], request[r].copy))
    /\ recent' = [n \in ConfigNames |-> 0..MaxSaves]
    /\ request' = [request EXCEPT ![r] = NoRequest]
    /\ UNCHANGED saves

Save(r) ==
    /\ At(r, "save")
    /\ LET q == request[r] IN
       /\ values' = [values EXCEPT ![q.at] = Changed(q, q.copy)]
       /\ recent' = IF InFlight = {r} THEN Quieten(r, values'[1])
                    ELSE [recent EXCEPT ![q.name] = @ \cup {q.content}]
    /\ request' = [request EXCEPT ![r] = NoRequest]
    /\ UNCHANGED saves

Die(r) == ~At(r, "idle") /\ Fail(r)
-----------------------------------------------------------------------------
Init ==
    /\ values = <<>> /\ saves = 0
    /\ request = [r \in Requests |-> NoRequest]
    /\ recent = [n \in ConfigNames |-> {None}]

Next == \E r \in Requests :
    \/ \E kind \in {"add", "edit", "delete"}, old, name \in ConfigNames : Submit(r, kind, old, name)
    \/ Open(r) \/ Read(r) \/ Find(r) \/ GetOrCreate(r, "find") \/ GetOrCreate(r, "save")
    \/ Save(r) \/ Die(r)

Spec == Init /\ [][Next]_vars
-----------------------------------------------------------------------------
(* Properties *)

\* A request that was alone from beginning to end changes what it names and no
\* other configuration.
AloneIsExact ==
    [][\A r \in Requests : LET q == request[r] IN
         At(r, "save") /\ q.alone /\ values' # values =>
           Stored' = [Stored EXCEPT ![q.name] = q.content]]_vars

\* Two requests may undo each other's change (utilities.py:161), but that is all: what is
\* stored under a name was saved there by one of those that overlap, or before.
StoredIsRecent ==
    Len(values) <= 1 => \A n \in ConfigNames : Stored[n] \in recent[n]

\* There are never two values, which every later request would refuse
\* (utilities.py:150), unless two requests of the administrator met.
OneValue ==
    [][Len(values') > 1 => Len(values) > 1 \/ \E r \in Requests : ~request[r].alone]_vars
=============================================================================
