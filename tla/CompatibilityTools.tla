------------------------- MODULE CompatibilityTools -------------------------
(***************************************************************************)
(* The upgrade tools: the scanner reports the deprecated constructs of the *)
(* customer's plug-ins, the auto-fixer rewrites those it has patterns for, *)
(* in place, after a copy into one backup directory.  They run on a live   *)
(* system: a plug-in may be saved while they do, and the process may die.  *)
(*                                                                         *)
(* A file's content is the set of its constructs; a truncated file has     *)
(* none.                                                                   *)
(***************************************************************************)
EXTENDS Naturals, SequencesExt, CompatibilityPatterns

CONSTANTS
    Files,       \* the plug-ins
    Contents,    \* bound: what the plug-ins contain at first
    Edits,       \* bound: Edits[f]: what users save later
    FlatName,    \* FlatName[f]: the path of f with _ for /
    Seconds,     \* bound: seconds of the clock
    MaxRuns      \* bound: runs of the tools

VARIABLES
    disk,        \* disk[f]: the content of the file
    backups,     \* the backup directory: [name, at, content]
    clock,       \* the second that names a backup
    tool,        \* the running tool: its step, its files, what it has read
    report,      \* the files the last JSON report lists
    verdict,     \* exit code of the last scan
    claims,      \* files the running or last fixer counts as fixed
    seen,        \* history: files the last scan could read, unless saved since
    saved,       \* history: files saved since they were copied or rewritten
    rewritten    \* history: contents that a fixer replaced after copying them

vars == <<disk, backups, clock, tool, report, verdict, claims, seen, saved, rewritten>>

NoVerdict == 2
ToolType == [pc : {"idle", "scan", "pick", "backup", "write"},
             todo : SUBSET Files, at : Files, read : SUBSET Constructs,
             critical : BOOLEAN, keep : BOOLEAN, copied : BOOLEAN, runs : 0..MaxRuns]

TypeOK ==
    /\ disk \in [Files -> SUBSET Constructs]
    /\ \A b \in backups : b.at \in Seconds /\ b.content \subseteq Constructs
    /\ clock \in Seconds
    /\ tool \in ToolType
    /\ report \subseteq Files
    /\ verdict \in {0, 1, NoVerdict}
    /\ claims \subseteq Files /\ seen \subseteq Files /\ saved \subseteq Files
-----------------------------------------------------------------------------
FixedButUrlCalls(content) == {IF c = "url(r'')" THEN c ELSE Replacement[c] : c \in content}
Fixed(content) == {Replacement[c] : c \in content}

Issues(content) == content \cap Reported

Goto(pc) == [tool EXCEPT !.pc = pc]
Start(pc, files) == [tool EXCEPT !.pc = pc, !.todo = files, !.runs = @ + 1]
Finish == [Goto("idle") EXCEPT !.todo = {}, !.read = {}, !.critical = FALSE, !.copied = FALSE]
MayStart == tool.pc = "idle" /\ tool.runs < MaxRuns

(* The scanner *)

StartScan ==
    /\ MayStart
    /\ tool' = [Start("scan", Files) EXCEPT !.critical = FALSE]
    /\ report' = {} /\ verdict' = NoVerdict /\ seen' = {}
    /\ UNCHANGED <<disk, backups, clock, claims, saved, rewritten>>

ScanFileAlone(f) ==
    /\ tool.pc = "scan" /\ f \in tool.todo
    /\ tool' = [tool EXCEPT !.todo = @ \ {f}, !.critical = disk[f] \cap Critical # {}]
    /\ report' = IF Issues(disk[f]) # {} THEN report \cup {f} ELSE report
    /\ seen' = seen \cup {f}
    /\ UNCHANGED <<disk, backups, clock, verdict, claims, saved, rewritten>>

\* A file that cannot be read is listed with its error and counts no issue.
ScanFile(f) ==
    /\ tool.pc = "scan" /\ f \in tool.todo
    /\ \/ /\ tool' = [tool EXCEPT !.todo = @ \ {f},
                                  !.critical = @ \/ disk[f] \cap Critical # {}]
          /\ report' = IF Issues(disk[f]) # {} THEN report \cup {f} ELSE report
          /\ seen' = seen \cup {f}
       \/ /\ tool' = [tool EXCEPT !.todo = @ \ {f}]
          /\ report' = report \cup {f} /\ UNCHANGED seen
    /\ UNCHANGED <<disk, backups, clock, verdict, claims, saved, rewritten>>

EndScan ==
    /\ tool.pc = "scan" /\ tool.todo = {}
    /\ verdict' = IF tool.critical THEN 1 ELSE 0
    /\ tool' = Finish
    /\ UNCHANGED <<disk, backups, clock, report, claims, seen, saved, rewritten>>

(* The fixer; with --dry-run it stops short of the backup *)

StartFix ==
    /\ MayStart
    /\ \E files \in {Files, report}, keep \in BOOLEAN :
         tool' = [Start("pick", files) EXCEPT !.keep = keep]
    /\ claims' = {}
    /\ UNCHANGED <<disk, backups, clock, report, verdict, seen, saved, rewritten>>

\* fix_file: a path that was given twice, or lies below another one, is met again.
PickFile(f) ==
    /\ tool.pc = "pick" /\ f \in tool.todo
    /\ \E todo \in {tool.todo, tool.todo \ {f}} :
         tool' = [tool EXCEPT !.todo = todo, !.at = f, !.read = disk[f],
                              !.pc = IF Fixed(disk[f]) # disk[f] THEN "backup" ELSE "pick"]
    /\ claims' = {g \in claims : g # f \/ Fixed(disk[f]) = disk[f]}
    /\ UNCHANGED <<disk, backups, clock, report, verdict, seen, saved, rewritten>>

CopyOverOlder(name) ==
    {b \in backups : b.name # name} \cup {[name |-> name, at |-> clock, content |-> disk[tool.at]]}

\* A backup of the same name is overwritten.
CopyTo(name) ==
    {b \in backups : <<b.name, b.at>> # <<name, clock>>}
      \cup {[name |-> name, at |-> clock, content |-> disk[tool.at]]}

\* _create_backup: a copy that fails is logged, and the file is rewritten anyway.
CreateBackup ==
    /\ tool.pc = "backup"
    /\ \/ /\ tool.keep /\ backups' = CopyTo(FlatName[tool.at])
          /\ tool' = [Goto("write") EXCEPT !.copied = TRUE]
       \/ /\ tool' = [Goto("write") EXCEPT !.copied = FALSE]
          /\ UNCHANGED backups
    /\ saved' = saved \ {tool.at}
    /\ UNCHANGED <<disk, clock, report, verdict, claims, seen, rewritten>>

\* What the fixer replaces, if it was copied and not saved again since.
Replaced == {c \in {disk[tool.at]} : tool.copied /\ tool.at \notin saved}

Overwrite(content) ==
    /\ disk' = [disk EXCEPT ![tool.at] = content]
    /\ rewritten' = rewritten \cup {<<tool.at, c>> : c \in Replaced}
    /\ saved' = saved \ {tool.at}

WriteUnchecked ==
    /\ tool.pc = "write" /\ tool' = [Goto("pick") EXCEPT !.read = {}]
    /\ Overwrite(Fixed(tool.read)) \/ UNCHANGED <<disk, rewritten, saved>>
    /\ claims' = claims \cup {tool.at}
    /\ UNCHANGED <<backups, clock, report, verdict, seen>>

\* What was read is fixed and written; an error, before or after the file was
\* emptied, marks its fixes as failed.
Write ==
    /\ tool.pc = "write" /\ tool' = [Goto("pick") EXCEPT !.read = {}]
    /\ \/ Overwrite(Fixed(tool.read)) /\ claims' = claims \cup {tool.at}
       \/ Overwrite({}) /\ claims' = claims \ {tool.at}
       \/ claims' = claims \ {tool.at} /\ UNCHANGED <<disk, rewritten, saved>>
    /\ UNCHANGED <<backups, clock, report, verdict, seen>>

EndFix ==
    /\ tool.pc = "pick" /\ tool.todo = {}
    /\ tool' = Finish
    /\ UNCHANGED <<disk, backups, clock, report, verdict, claims, seen, saved, rewritten>>

\* The dry run ends, or the process does, perhaps with the file emptied.
Stop ==
    /\ tool.pc # "idle" /\ tool' = Finish
    /\ claims' = {} /\ seen' = (IF tool.pc = "scan" THEN {} ELSE seen)
    /\ \/ UNCHANGED <<disk, rewritten, saved>>
       \/ tool.pc = "write" /\ Overwrite({})
    /\ UNCHANGED <<backups, clock, report, verdict>>

(* The rest of the world *)

\* A plug-in is saved in the editor of the web interface (bound: never within the
\* second in which it was copied).
Save(f) ==
    /\ \A b \in backups : b.name = FlatName[f] => b.at < clock
    /\ \E c \in Edits[f] \ {disk[f]} : disk' = [disk EXCEPT ![f] = c]
    /\ saved' = saved \cup {f} /\ seen' = seen \ {f}
    /\ UNCHANGED <<backups, clock, tool, report, verdict, claims, rewritten>>

Tick ==
    /\ clock + 1 \in Seconds /\ clock' = clock + 1
    /\ UNCHANGED <<disk, backups, tool, report, verdict, claims, seen, saved, rewritten>>
-----------------------------------------------------------------------------
Init ==
    /\ disk \in Contents
    /\ backups = {} /\ clock = 0
    /\ tool = [pc |-> "idle", todo |-> {}, at |-> CHOOSE f \in Files : TRUE, read |-> {},
               critical |-> FALSE, keep |-> TRUE, copied |-> FALSE, runs |-> 0]
    /\ report = {} /\ verdict = NoVerdict /\ claims = {}
    /\ seen = {} /\ saved = {} /\ rewritten = {}

Next ==
    \/ StartScan \/ EndScan \/ StartFix \/ CreateBackup \/ Write \/ EndFix \/ Stop \/ Tick
    \/ \E f \in Files : ScanFile(f) \/ PickFile(f) \/ Save(f)

Spec == Init /\ [][Next]_vars
-----------------------------------------------------------------------------
(* Properties *)

AloneInBackups(f) == \A g \in Files \ {f} : FlatName[g] # FlatName[f]

\* "you can always restore your original code" (README_compatibility_check.md:103):
\* what the fixer copied before it replaced it stays in the backup directory,
\* through later runs, repeated files and failures - for a file whose path is told
\* apart from the others when its slashes are flattened.
OriginalIsKept ==
    \A w \in rewritten : AloneInBackups(w[1]) =>
      \E b \in backups : b.name = FlatName[w[1]] /\ b.content = w[2]

\* A file counted as fixed has nothing left that the fixer has a pattern for.
ClaimedIsFixed ==
    \A f \in claims \ saved : Fixed(disk[f]) = disk[f]

\* What a scan has passed (exit code 0) contains nothing critical as long as no
\* user saves it, whatever the fixer makes of it afterwards.
PassedStaysPassed ==
    verdict = 0 => \A f \in seen : disk[f] \cap Critical = {}

\* If every name was imported, then every name is after the fix: imports and uses
\* are rewritten by separate patterns, which agree - but for the constructs left
\* to be done by hand and those no pattern follows.
NamesStayBound ==
    [][\A f \in claims' \ claims :
         Bound(tool.read) /\ tool.read \cap (ByHand \cup NotFollowed) = {}
         => Bound(disk'[f])]_vars
=============================================================================
