------------------------------ MODULE Extensions ------------------------------
(***************************************************************************)
(* Five components side by side in one installation: the approval hooks,   *)
(* the user synchronisation, the upgrade tools, the management actions and *)
(* the configurations of the git extension, which this module extends.     *)
(* They share no state: each step is a step of one of them.                *)
(***************************************************************************)
EXTENDS GitConfigs

(* Approval hooks *)

CONSTANTS Plugins, Orders, Approvers, GroupsOf, Costs, RateLimit
VARIABLES plugin, order, running, used, overtaken

hooksVars == <<plugin, order, running, used, overtaken>>
Approvals == INSTANCE ApprovalHooks WITH Users <- Approvers

\* Approvers as many as the plug-in asks for, whatever is approved and built meanwhile.
EnoughApprovers == Approvals!EnoughApprovers
\* A user of IT approves after one of Finance, where the plug-in is hierarchical.
FinanceFirst == Approvals!FinanceFirst

ASSUME CostsAreShares == Costs \subseteq Nat

(* Users of the directory *)

CONSTANTS Hooks, Accounts, Groups, Mapping, OtherCase, Trees, Records, FirstRoles, FirstAdmins, MaxUsers
VARIABLES hook, directory, tree, roles, admins, sync, synced

usersVars == <<hook, directory, tree, roles, admins, sync, synced>>
Sync == INSTANCE ExternalUsers WITH Users <- Accounts, job <- sync

\* Special roles are those of the record that was read, whoever died before.
RolesFollowDirectory == Sync!RolesFollowDirectory
\* Roles are given in the group that the user's OUs lead to.
GivenInOwnOU == Sync!GivenInOwnOU

ASSUME KnownHooks == Hooks \subseteq {"ou", "metal", "static", "default"}

\* The OUs of a user have names of groups; "Top" and "Absent" are none.
ASSUME NamesOfGroups ==
    /\ Sync!Metals \cup {Sync!DefaultGroup} \subseteq Groups
    /\ {Sync!Top, Sync!Absent} \cap Groups = {}
ASSUME RecordsOfUsers ==
    /\ \A u \in Accounts : \A r \in Records[u] : r.ou \in Seq(Groups)
    /\ Trees \subseteq [Groups -> Groups \cup {Sync!Top, Sync!Absent}]
    /\ FirstRoles \subseteq [Accounts -> SUBSET (Groups \X Sync!Roles)]
    /\ FirstAdmins \subseteq SUBSET Accounts /\ MaxUsers \in Nat
ASSUME MappingToGroups ==
    \A d \in DOMAIN Mapping : Mapping[d].cb_group \in Groups /\ Mapping[d].roles \subseteq Sync!Roles

(* Upgrade tools *)

CONSTANTS Files, FirstContents, Edits, FlatName, Seconds, MaxRuns
VARIABLES disk, backups, clock, tool, report, verdict, claims, seen, saved, rewritten

toolsVars == <<disk, backups, clock, tool, report, verdict, claims, seen, saved, rewritten>>
Tools == INSTANCE CompatibilityTools WITH Contents <- FirstContents

\* What the fixer copied before it rewrote it stays in the backup directory.
OriginalIsKept == Tools!OriginalIsKept
\* A file counted as fixed has nothing left to fix.
ClaimedIsFixed == Tools!ClaimedIsFixed
\* A file that a scan passed stays free of critical constructs while nobody saves it.
PassedStaysPassed == Tools!PassedStaysPassed
\* Imports and uses of a name are rewritten alike.
NamesStayBound == Tools!NamesStayBound

ASSUME PluginsOfCustomers ==
    /\ Files # {} /\ 0 \in Seconds /\ Seconds \subseteq Nat /\ MaxRuns \in Nat
    /\ FirstContents \subseteq [Files -> SUBSET Tools!Constructs]
    /\ \A f \in Files : Edits[f] \subseteq SUBSET Tools!Constructs

\* What the tables of the tools say: no pattern applies to what the patterns have
\* made of a construct, and what is not critical is not made so ...
ASSUME FixesAreFinal ==
    \A c \in Tools!Constructs : LET fixed == Tools!Replacement[c] IN
      /\ fixed \in Tools!Constructs /\ Tools!Replacement[fixed] = fixed
      /\ fixed \in Tools!Critical => c \in Tools!Critical

\* ... and a use is rewritten for a name that the imports of its old name are
\* rewritten to bind.
ASSUME FixesAgree ==
    \A c \in Tools!Constructs \ (Tools!ByHand \cup Tools!NotFollowed), n \in DOMAIN Tools!Users :
      Tools!Replacement[c] \in Tools!Users[n] =>
        \E m \in DOMAIN Tools!Users :
          c \in Tools!Users[m] /\ {Tools!Replacement[b] : b \in Tools!Binders[m]} \subseteq Tools!Binders[n]

(* Management actions *)

CONSTANTS Families, Jobs, Containers, Names, Filled, MaxRows, Steve
VARIABLES family, store, rows, job

storeVars == <<family, store, rows, job>>
Store == INSTANCE Contents

\* A script that moves loses nothing.
MoveKeeps == Store!MoveKeeps
\* What a script reports as deleted is gone.
DeletedIsGone == Store!DeletedIsGone
\* Rows that a script has made agree with the store do so when it ends.
RowsMatchTheStore == Store!RowsMatchTheStore
\* A job leaves the rows of other containers alone.
OtherRowsStay == Store!OtherRowsStay

ASSUME RowsAreCounted == MaxRows \in Nat \ {0}

ASSUME FamiliesOfActions == \A f \in Families : f \subseteq Store!ActionType

\* The order of the steps of the scripts: what the results of a script rest on.
Puts == {"Copy", "Put", "New", "NewUnique", "TryNewUnique"}
Deletions == {"Remove", "RemoveAny", "RemoveOther"}
Swallowing == {"TryNewUnique", "TryRemove"}
Adding == {"NewRow", "AddRowOnce", "MoveRow", "ShowAll", "ShowNew", "ShowOnce", "ShowMoved"}
ByName == {"MoveRow", "DropAnyRow", "ShowMoved"}

Uses(script, ops) == \E i \in DOMAIN script : script[i] \in ops
Before(script, first, later) ==
    \A i, k \in DOMAIN script : script[i] \in first /\ script[k] \in later => i < k
Scripts == {action.steps : action \in UNION Families}

\* A script that deletes puts nothing afterwards, and reports what is refused.
ASSUME DeletesLast ==
    \A s \in Scripts : Uses(s, Deletions) => Before(s, Puts, Deletions) /\ ~Uses(s, Swallowing)

\* A script that copies puts nothing else and deletes afterwards.
ASSUME CopiesFirst ==
    \A s \in Scripts : Uses(s, {"Copy"}) =>
      /\ Before(s, {"Copy"}, Deletions) /\ ~Uses(s, (Puts \ {"Copy"}) \cup {"TryRemove"})
      /\ Uses(s, {"RemoveOther"}) => ~Uses(s, Deletions \ {"RemoveOther"})

\* A script that drops a row of its container adds none afterwards.
ASSUME DropsLast ==
    \A s \in Scripts : Uses(s, {"DropRow"}) => Before(s, Adding, {"DropRow"}) /\ ~Uses(s, Swallowing)

\* A script that makes the rows agree with a listing lists when its other work is done;
\* no script of such a blueprint moves or deletes a row that it found by its name alone.
ASSUME ShowsLast ==
    /\ \A s \in Scripts : Uses(s, {"ShowAll"}) =>
         /\ Uses(s, {"List"}) /\ Before(s, {"List"}, {"ShowAll"}) /\ ~Uses(s, Swallowing)
         /\ Before(s, Puts \cup Deletions \cup (Adding \ {"ShowAll"}) \cup {"DropRow"}, {"List"})
    /\ \A f \in Families : \A a, b \in f : Uses(a.steps, {"ShowAll"}) => ~Uses(b.steps, ByName)

(* Git configurations *)

configVars == vars
-----------------------------------------------------------------------------
HooksStep == Approvals!Next /\ UNCHANGED <<usersVars, toolsVars, storeVars, configVars>>
UsersStep == Sync!Next /\ UNCHANGED <<hooksVars, toolsVars, storeVars, configVars>>
ToolsStep == Tools!Next /\ UNCHANGED <<hooksVars, usersVars, storeVars, configVars>>
StoreStep == Store!Next /\ UNCHANGED <<hooksVars, usersVars, toolsVars, configVars>>
ConfigsStep == Next /\ UNCHANGED <<hooksVars, usersVars, toolsVars, storeVars>>

allVars == <<hooksVars, usersVars, toolsVars, storeVars, configVars>>

AllInit == Init /\ Approvals!Init /\ Sync!Init /\ Tools!Init /\ Store!Init
AllNext == HooksStep \/ UsersStep \/ ToolsStep \/ StoreStep \/ ConfigsStep
AllSpec == AllInit /\ [][AllNext]_allVars

\* The types of the five.
AllTypeOK == TypeOK /\ Approvals!TypeOK /\ Sync!TypeOK /\ Tools!TypeOK /\ Store!TypeOK
=============================================================================
