------------------------------ MODULE GitExport ------------------------------
(***************************************************************************)
(* Exporting content of CloudBolt to a branch of a GitHub or GitLab        *)
(* repository: utilities.py and the commit forms of the git_management UI  *)
(* extension.                                                              *)
(*                                                                         *)
(* A content item is a set of files and goes to a directory of its own.    *)
(* Several administrators may export at once, and each reads the branch    *)
(* several times before its commit moves it.                               *)
(***************************************************************************)
EXTENDS Naturals, Sequences, FiniteSets

CONSTANTS
    Contents,     \* content items of one type; also their directories
    Files,        \* names of files an item may have
    Exporters,    \* requests that export
    InitialTrees, \* what the repository may hold at first
    PageSize,     \* entries GitLab lists of a directory: one page
    MaxCommits,   \* bound: commit objects of the repository
    MaxEdits,     \* bound: edits of content items
    MaxRequests   \* bound: requests to export

ASSUME FilesAreFinite == IsFiniteSet(Files)
ASSUME PageSizeIsNat == PageSize \in Nat
ASSUME BoundsAreNats == MaxCommits \in Nat \ {0} /\ MaxEdits \in Nat /\ MaxRequests \in Nat

VARIABLES
    provider,     \* git_type of the token
    onDefault,    \* is the configured branch the default one of the repository
    content,      \* content[d]: the files item d has in CloudBolt
    commits,      \* commit objects: their parent, and the tree under the root
    head,         \* the commit the branch points to
    exp,          \* exp[e]: what exporter e is doing
    reported,     \* commits whose URL was shown to an administrator
    edits, requests   \* counters for the bounds

vars == <<provider, onDefault, content, commits, head, exp, reported, edits, requests>>

Tree == [Contents -> SUBSET Files]
Commit == [parent : 0..MaxCommits, tree : Tree]
Steps == {"idle", "next", "export", "head", "lookup", "tree", "ref", "url",
          "probe", "list", "post"}
Export == [pc : Steps, todo : SUBSET Contents, dir : SUBSET Contents,
           files : SUBSET Files, base : 0..MaxCommits, asked : SUBSET Files,
           have : SUBSET Files, gone : SUBSET Files, made : SUBSET (1..MaxCommits)]

TypeOK ==
    /\ provider \in {"github", "gitlab"}
    /\ onDefault \in BOOLEAN
    /\ content \in Tree
    /\ commits \in Seq(Commit) /\ Len(commits) <= MaxCommits
    /\ head \in 1..Len(commits)
    /\ exp \in [Exporters -> Export]
    /\ \A e \in Exporters : exp[e].base <= Len(commits)
    /\ reported \in SUBSET (1..Len(commits))
    /\ edits \in 0..MaxEdits /\ requests \in 0..MaxRequests

ASSUME InitialTreesAreTrees == InitialTrees \subseteq Tree
-----------------------------------------------------------------------------
Branch == commits[head].tree

\* The default branch: this one, or the one this one was started from.
DefaultBranch == IF onDefault THEN Branch ELSE commits[1].tree

NoExport == [pc |-> "idle", todo |-> {}, dir |-> {}, files |-> {}, base |-> 0,
             asked |-> {}, have |-> {}, gone |-> {}, made |-> {}]

At(e, pc) == exp[e].pc = pc

Update(e, x) == exp' = [exp EXCEPT ![e] = x]

\* A request that keeps its place after an exception, for nobody to go on.
FailHalfway(e) == Update(e, [NoExport EXCEPT !.pc = "failed"])

\* Any exception ends the request; the items not reached stay unexported, the
\* commits made for the ones before stay made.
Fail(e) == Update(e, NoExport)

\* An item is done: of what is remembered of it, its commit is left.
Done(e, made) == Update(e, [NoExport EXCEPT !.pc = "next", !.todo = exp[e].todo, !.made = made])

(* GitCommitForm.save, GitCommitMultipleForm.save: one commit for each item *)

Start(e, S) ==
    /\ At(e, "idle") /\ S # {}
    /\ requests < MaxRequests /\ requests' = requests + 1
    /\ Update(e, [NoExport EXCEPT !.pc = "next", !.todo = S])
    /\ UNCHANGED <<provider, onDefault, content, commits, head, reported, edits>>

NextContent(e) ==
    /\ At(e, "next")
    /\ \/ /\ exp[e].todo = {}
          /\ reported' = reported \cup exp[e].made
          /\ Update(e, NoExport)
       \/ /\ \E d \in exp[e].todo :
               Update(e, [exp[e] EXCEPT !.pc = "export", !.dir = {d}, !.todo = @ \ {d}])
          /\ UNCHANGED reported
    /\ UNCHANGED <<provider, onDefault, content, commits, head, edits, requests>>

\* export_content_to_tmp_dir: a copy of the item as it is now.
ExportContent(e) ==
    /\ At(e, "export")
    /\ \E d \in exp[e].dir :
         Update(e, [exp[e] EXCEPT !.files = content[d], !.asked = {}, !.have = {},
                                  !.gone = {}, !.base = head,
                                  !.pc = IF provider = "github" THEN "head" ELSE "probe"])
    /\ UNCHANGED <<provider, onDefault, content, commits, head, reported, edits, requests>>

(* GitHubWrapper.create_commit_from_directory *)

\* get_branch_sha
GetBranchSha(e) ==
    /\ At(e, "head")
    /\ Update(e, [exp[e] EXCEPT !.base = head, !.pc = "lookup"])
    /\ UNCHANGED <<provider, onDefault, content, commits, head, reported, edits, requests>>

\* get_tree_sha_from_path names no ref: it lists the default branch, and a
\* parent directory that is not there is a 404, raised.
Lookup(e) ==
    /\ At(e, "lookup")
    /\ \E d \in exp[e].dir :
         IF \A c \in Contents : DefaultBranch[c] = {} THEN Fail(e)
         ELSE Update(e, [exp[e] EXCEPT !.gone = DefaultBranch[d] \ exp[e].files,
                                       !.pc = "tree"])
    /\ UNCHANGED <<provider, onDefault, content, commits, head, reported, edits, requests>>

\* The tree of the item alone, without a base tree.
WithoutBase(base, d, files, gone) ==
    [c \in Contents |-> IF c = d THEN files ELSE {}]

\* What was deleted in CloudBolt stays.
OverlayKeepsDeleted(base, d, files, gone) == [base EXCEPT ![d] = @ \cup files]

\* The files of the item laid over the base tree, less those to delete.
Overlay(base, d, files, gone) == [base EXCEPT ![d] = (@ \ gone) \cup files]

\* create_tree, create_commit.  The service takes no deletion of a path that
\* the base tree does not have.
CreateCommit(e) ==
    LET base == commits[exp[e].base].tree IN
    /\ At(e, "tree")
    /\ \E d \in exp[e].dir :
         IF ~ exp[e].gone \subseteq base[d]
         THEN Fail(e) /\ UNCHANGED commits
         ELSE /\ Len(commits) < MaxCommits
              /\ commits' = Append(commits, [parent |-> exp[e].base,
                                             tree |-> Overlay(base, d, exp[e].files, exp[e].gone)])
              /\ Update(e, [exp[e] EXCEPT !.made = @ \cup {Len(commits) + 1}, !.pc = "ref"])
    /\ UNCHANGED <<provider, onDefault, content, head, reported, edits, requests>>

\* The commit the exporter has just created.
Latest(e) == CHOOSE n \in exp[e].made : \A m \in exp[e].made : m <= n

\* A PATCH with "force" set.
ForceBranchRef(e) ==
    /\ At(e, "ref")
    /\ head' = Latest(e) /\ Update(e, [exp[e] EXCEPT !.pc = "url"])
    /\ UNCHANGED <<provider, onDefault, content, commits, reported, edits, requests>>

\* update_branch_ref: the service refuses what is no fast-forward.
UpdateBranchRef(e) ==
    /\ At(e, "ref")
    /\ IF commits[Latest(e)].parent = head
       THEN head' = Latest(e) /\ Update(e, [exp[e] EXCEPT !.pc = "url"])
       ELSE Fail(e) /\ UNCHANGED head
    /\ UNCHANGED <<provider, onDefault, content, commits, reported, edits, requests>>

\* get_commit for the URL to report, then delete_tmp_dir.
GetCommit(e) ==
    /\ At(e, "url")
    /\ Done(e, exp[e].made)
    /\ UNCHANGED <<provider, onDefault, content, commits, head, reported, edits, requests>>

(* GitLabWrapper.create_commit_from_directory *)

\* generate_actions_from_directory asks for one file after another; whatever
\* error comes back, the file counts as missing.
GetFile(e) ==
    /\ At(e, "probe")
    /\ \E d \in exp[e].dir :
         IF exp[e].files \subseteq exp[e].asked
         THEN Update(e, [exp[e] EXCEPT !.asked = {}, !.pc = "list"])
         ELSE \E f \in exp[e].files \ exp[e].asked, failed \in BOOLEAN :
                Update(e, [exp[e] EXCEPT
                             !.asked = @ \cup {f},
                             !.have = IF f \in Branch[d] /\ ~failed THEN @ \cup {f} ELSE @])
    /\ UNCHANGED <<provider, onDefault, content, commits, head, reported, edits, requests>>

\* One page of a listing.
Page(S) == {T \in SUBSET S : \/ T = S /\ Cardinality(S) <= PageSize
                             \/ Cardinality(T) = PageSize /\ Cardinality(S) > PageSize}

\* set_deleted_files; a directory that is not there may be a 404.
SetDeletedFiles(e) ==
    /\ At(e, "list")
    /\ \E d \in exp[e].dir :
         \/ Branch[d] = {} /\ Fail(e)
         \/ \E listed \in Page(Branch[d]) :
              Update(e, [exp[e] EXCEPT !.gone = listed \ exp[e].files, !.pc = "post"])
    /\ UNCHANGED <<provider, onDefault, content, commits, head, reported, edits, requests>>

\* The service applies the actions to the branch as it is now, all or none.
PostCommit(e) ==
    /\ At(e, "post")
    /\ \E d \in exp[e].dir :
         IF exp[e].files \cap Branch[d] = exp[e].have /\ exp[e].gone \subseteq Branch[d]
         THEN /\ Len(commits) < MaxCommits
              /\ commits' = Append(commits, [parent |-> head,
                                             tree |-> Overlay(Branch, d, exp[e].files, exp[e].gone)])
              /\ head' = Len(commits) + 1
              /\ Done(e, exp[e].made \cup {Len(commits) + 1})
         ELSE Fail(e) /\ UNCHANGED <<commits, head>>
    /\ UNCHANGED <<provider, onDefault, content, reported, edits, requests>>

(* Around the exporters *)

\* A request to the service fails, or the worker dies.
Breaks(e) ==
    /\ exp[e].pc \notin {"idle", "next", "probe"}
    /\ Fail(e)
    /\ UNCHANGED <<provider, onDefault, content, commits, head, reported, edits, requests>>

\* Somebody edits the item in CloudBolt.
Edit(d, S) ==
    /\ content[d] # S /\ S # {}
    /\ edits < MaxEdits /\ edits' = edits + 1
    /\ content' = [content EXCEPT ![d] = S]
    /\ UNCHANGED <<provider, onDefault, commits, head, exp, reported, requests>>
-----------------------------------------------------------------------------
Init ==
    /\ provider \in {"github", "gitlab"}
    /\ onDefault \in BOOLEAN
    /\ provider = "gitlab" => onDefault     \* GitLab is always asked for the branch
    /\ content = [d \in Contents |-> Files]
    /\ \E t \in InitialTrees : commits = <<[parent |-> 0, tree |-> t]>>
    /\ head = 1
    /\ exp = [e \in Exporters |-> NoExport]
    /\ reported = {} /\ edits = 0 /\ requests = 0

Next ==
    \/ \E e \in Exporters, S \in SUBSET Contents : Start(e, S)
    \/ \E e \in Exporters :
         \/ NextContent(e) \/ ExportContent(e) \/ Breaks(e)
         \/ GetBranchSha(e) \/ Lookup(e) \/ CreateCommit(e) \/ UpdateBranchRef(e)
         \/ GetCommit(e) \/ GetFile(e) \/ SetDeletedFiles(e) \/ PostCommit(e)
    \/ \E d \in Contents, S \in SUBSET Files : Edit(d, S)

Spec == Init /\ [][Next]_vars
-----------------------------------------------------------------------------
(* Properties *)

\* The least set of commits that holds c and, with each, its parent.
Ancestors(c) ==
    {n \in 1..Len(commits) :
       \A S \in SUBSET (1..Len(commits)) :
         c \in S /\ (\A m \in S : commits[m].parent \in S \cup {0}) => n \in S}

\* A commit an administrator was told of stays part of the branch, whoever
\* exports at the same time.
ReportedIsOnBranch == reported \subseteq Ancestors(head)

\* "We don't want to remove files that are in any directories outside the
\* content dir" (utilities.py:802): when the branch moves, what it had for the
\* items that are not being exported is what it has after.
OnlyContentDir ==
    [][\A e \in Exporters :
         head' # head /\ exp'[e] # exp[e]
         => \A c \in Contents \ exp[e].dir : Branch'[c] = Branch[c]]_vars

\* Where the listing is that of the branch and fits its page, a commit leaves
\* the files of the item and no other, if nobody moved the branch since the
\* export began.  GitHub refuses the commit when somebody did.
ExportIsExact ==
    [][\A e \in Exporters :
         /\ head' # head /\ exp'[e] # exp[e]
         /\ exp[e].base = head
         /\ provider = "github" => onDefault
         => \A d \in exp[e].dir :
              Cardinality(Branch[d]) <= PageSize \/ provider = "github"
              => Branch'[d] = exp[e].files]_vars

\* "Remove files from the tree that have been deleted from the CloudBolt
\* content" (utilities.py:800).
DeletedAreRemoved ==
    [][\A e \in Exporters :
         provider = "github" /\ head' # head /\ exp'[e] # exp[e]
         => \A d \in exp[e].dir : Branch'[d] = exp[e].files]_vars
=============================================================================
