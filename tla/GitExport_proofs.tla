--------------------------- MODULE GitExport_proofs ---------------------------
(***************************************************************************)
(* Theorems about GitExport, for any contents, files and exporters, either *)
(* provider and any history of the repository.                             *)
(***************************************************************************)
EXTENDS GitExport, FiniteSetTheorems, SequenceTheorems, TLAPS

USE BoundsAreNats

(* Types *)

Typed == TypeOK /\ \A e \in Exporters : exp[e].made \subseteq 1..Len(commits)

\* A commit that waits for its branch to be moved was made on the base its exporter
\* read, and differs from it in the directory of the item only.
Waiting(e) ==
    /\ Latest(e) \in exp[e].made
    /\ commits[Latest(e)].parent = exp[e].base
    /\ exp[e].base \in 1..Len(commits)
    /\ \A c \in Contents \ exp[e].dir :
         commits[Latest(e)].tree[c] = commits[exp[e].base].tree[c]

CommitsWait == \A e \in Exporters :
    /\ exp[e].pc = "ref" => Waiting(e)
    /\ exp[e].pc \in {"lookup", "tree"} => exp[e].base \in 1..Len(commits)

IInv == Typed /\ CommitsWait

LEMMA LatestIs ==
    ASSUME NEW e, NEW n \in exp[e].made, exp[e].made \subseteq Nat, \A m \in exp[e].made : m <= n
    PROVE  Latest(e) = n
<1>1. \A k \in exp[e].made : (\A m \in exp[e].made : m <= k) => k = n
  <2> SUFFICES ASSUME NEW k \in exp[e].made, \A m \in exp[e].made : m <= k PROVE k = n
    OBVIOUS
  <2>1. k <= n /\ n <= k /\ k \in Nat /\ n \in Nat
    OBVIOUS
  <2> QED
    BY <2>1
<1> QED
  BY <1>1 DEF Latest

LEMMA TypeFacts ==
    ASSUME Typed
    PROVE  /\ Len(commits) \in Nat /\ Len(commits) <= MaxCommits /\ MaxCommits \in Nat
           /\ head \in 1..Len(commits) /\ commits \in Seq(Commit)
           /\ commits[head] \in Commit /\ Branch \in Tree
           /\ commits[1] \in Commit /\ DefaultBranch \in Tree
<1>1. commits \in Seq(Commit) /\ Len(commits) \in Nat /\ head \in 1..Len(commits)
  BY DEF Typed, TypeOK
<1>2. commits[head] \in Commit /\ commits[1] \in Commit
  <2>1. 1 \in 1..Len(commits)
    BY <1>1
  <2> QED
    BY <1>1, <2>1, ElementOfSeq
<1>3. Branch \in Tree /\ DefaultBranch \in Tree
  BY <1>2 DEF Branch, DefaultBranch, Commit
<1> QED
  BY <1>1, <1>2, <1>3 DEF Typed, TypeOK

LEMMA NoExportTyped ==
    /\ NoExport \in Export /\ NoExport.pc = "idle" /\ NoExport.base = 0 /\ NoExport.made = {}
  BY DEF NoExport, Export, Steps

\* What a step writes into the row of its exporter.
LEMMA UpdateTyped ==
    ASSUME Typed, NEW e \in Exporters, NEW x \in Export, Update(e, x),
           Len(commits') \in Nat, Len(commits) <= Len(commits'),
           x.base <= Len(commits'), x.made \subseteq 1..Len(commits')
    PROVE  /\ exp' \in [Exporters -> Export]
           /\ exp'[e] = x /\ \A f \in Exporters : f # e => exp'[f] = exp[f]
           /\ \A f \in Exporters : /\ exp'[f].base <= Len(commits')
                                   /\ exp'[f].made \subseteq 1..Len(commits')
<1>1. exp' = [exp EXCEPT ![e] = x] /\ exp \in [Exporters -> Export]
  BY DEF Update, Typed, TypeOK
<1>2. /\ exp' \in [Exporters -> Export]
      /\ exp'[e] = x /\ \A f \in Exporters : f # e => exp'[f] = exp[f]
  BY <1>1
<1>3. ASSUME NEW f \in Exporters
      PROVE  exp'[f].base <= Len(commits') /\ exp'[f].made \subseteq 1..Len(commits')
  <2>1. CASE f = e
    BY <1>2, <2>1
  <2>2. CASE f # e
    <3>1. /\ exp[f].base <= Len(commits) /\ exp[f].base \in Nat
          /\ exp[f].made \subseteq 1..Len(commits) /\ Len(commits) \in Nat
      BY <1>1, TypeFacts DEF Typed, TypeOK, Export
    <3> QED
      BY <1>2, <2>2, <3>1
  <2> QED
    BY <2>1, <2>2
<1> QED
  BY <1>2, <1>3

\* Steps of one exporter that leave the repository as it is.
LEMMA RowStep ==
    ASSUME IInv, NEW e \in Exporters, NEW x \in Export, Update(e, x),
           UNCHANGED <<provider, onDefault, content, commits, head, edits>>,
           reported' \in SUBSET (1..Len(commits)), requests' \in 0..MaxRequests,
           x.base \in 0..Len(commits), x.made \subseteq 1..Len(commits), x.pc # "ref",
           x.pc \in {"lookup", "tree"} => x.base # 0
    PROVE  IInv'
<1>1. Len(commits) \in Nat
  BY TypeFacts DEF IInv
<1>2. /\ exp' \in [Exporters -> Export]
      /\ exp'[e] = x /\ \A f \in Exporters : f # e => exp'[f] = exp[f]
      /\ \A f \in Exporters : /\ exp'[f].base <= Len(commits')
                              /\ exp'[f].made \subseteq 1..Len(commits')
  BY <1>1, UpdateTyped DEF IInv
<1>3. Typed'
  BY <1>2 DEF IInv, Typed, TypeOK
<1>4. ASSUME NEW f \in Exporters, f # e
      PROVE  Waiting(f)' = Waiting(f)
  <2>1. exp'[f] = exp[f]
    BY <1>2, <1>4
  <2>2. Latest(f)' = Latest(f)
    BY <2>1 DEF Latest
  <2> QED
    BY <2>1, <2>2 DEF Waiting
<1>5. CommitsWait'
  BY <1>1, <1>2, <1>4 DEF IInv, CommitsWait
<1> QED
  BY <1>3, <1>5 DEF IInv

\* The same, of a step that gives up.
LEMMA FailStep ==
    ASSUME IInv, NEW e \in Exporters, Fail(e),
           UNCHANGED <<provider, onDefault, content, commits, head, reported, edits, requests>>
    PROVE  IInv'
<1>1. Update(e, NoExport)
  BY DEF Fail
<1>2. /\ reported' \in SUBSET (1..Len(commits)) /\ requests' \in 0..MaxRequests
      /\ Len(commits) \in Nat
  BY TypeFacts DEF IInv, Typed, TypeOK
<1> QED
  BY <1>1, <1>2, NoExportTyped, RowStep

LEMMA RowTyped ==
    ASSUME IInv, NEW e \in Exporters
    PROVE  /\ exp[e] \in Export /\ exp[e].base \in 0..Len(commits)
           /\ exp[e].made \subseteq 1..Len(commits) /\ exp[e].made \in SUBSET (1..MaxCommits)
           /\ Len(commits) \in Nat /\ head \in 1..Len(commits) /\ head \in 0..MaxCommits
           /\ reported \in SUBSET (1..Len(commits)) /\ requests \in 0..MaxRequests
           /\ content \in Tree
<1>1. exp[e] \in Export /\ exp[e].base <= Len(commits) /\ exp[e].made \subseteq 1..Len(commits)
  BY DEF IInv, Typed, TypeOK
<1>2. Len(commits) \in Nat /\ head \in 1..Len(commits) /\ Len(commits) <= MaxCommits
  BY TypeFacts DEF IInv
<1> QED
  BY <1>1, <1>2 DEF IInv, Typed, TypeOK, Export

LEMMA StartKept ==
    ASSUME IInv, NEW e \in Exporters, NEW S \in SUBSET Contents, Start(e, S) PROVE IInv'
<1> DEFINE x == [NoExport EXCEPT !.pc = "next", !.todo = S]
<1>1. x \in Export /\ x.base = 0 /\ x.made = {} /\ x.pc = "next"
  BY NoExportTyped DEF Export, Steps
<1>2. Update(e, x)
  BY DEF Start
<1> HIDE DEF x
<1>3. reported' \in SUBSET (1..Len(commits)) /\ requests' \in 0..MaxRequests /\ Len(commits) \in Nat
  BY RowTyped DEF Start
<1>4. UNCHANGED <<provider, onDefault, content, commits, head, edits>>
  BY DEF Start
<1> QED
  BY <1>1, <1>2, <1>3, <1>4, RowStep

LEMMA NextContentKept ==
    ASSUME IInv, NEW e \in Exporters, NextContent(e) PROVE IInv'
<1>1. UNCHANGED <<provider, onDefault, content, commits, head, edits, requests>>
  BY DEF NextContent
<1>2. exp[e].pc = "next" /\ Len(commits) \in Nat
  BY RowTyped DEF NextContent, At
<1>3. CASE reported' = reported \cup exp[e].made /\ Update(e, NoExport)
  <2>1. reported' \in SUBSET (1..Len(commits)) /\ requests' \in 0..MaxRequests
    BY <1>1, <1>3, RowTyped
  <2> QED
    BY <1>1, <1>2, <1>3, <2>1, NoExportTyped, RowStep
<1>4. ASSUME NEW d \in exp[e].todo, reported' = reported,
             Update(e, [exp[e] EXCEPT !.pc = "export", !.dir = {d}, !.todo = @ \ {d}])
      PROVE  IInv'
  <2> DEFINE x == [exp[e] EXCEPT !.pc = "export", !.dir = {d}, !.todo = @ \ {d}]
  <2>1. /\ x \in Export /\ x.base = exp[e].base /\ x.made = exp[e].made /\ x.pc = "export"
    <3>1. exp[e] \in Export
      BY RowTyped
    <3> QED
      BY <3>1 DEF Export, Steps
  <2>2. Update(e, x)
    BY <1>4
  <2> HIDE DEF x
  <2>3. reported' \in SUBSET (1..Len(commits)) /\ requests' \in 0..MaxRequests
        /\ x.base \in 0..Len(commits) /\ x.made \subseteq 1..Len(commits)
    BY <1>1, <1>4, <2>1, RowTyped
  <2> QED
    BY <1>1, <2>1, <2>2, <2>3, RowStep
<1> QED
  BY <1>3, <1>4 DEF NextContent

\* Steps that read: they write into their row what Export allows and leave its
\* commits alone.
LEMMA ReadStep ==
    ASSUME IInv, NEW e \in Exporters, NEW x \in Export, Update(e, x),
           UNCHANGED <<provider, onDefault, content, commits, head, reported, edits, requests>>,
           x.base = exp[e].base \/ x.base = head, x.made = exp[e].made, x.pc # "ref",
           x.pc \in {"lookup", "tree"} => x.base # 0
    PROVE  IInv'
<1>1. reported' \in SUBSET (1..Len(commits)) /\ requests' \in 0..MaxRequests
      /\ x.base \in 0..Len(commits) /\ x.made \subseteq 1..Len(commits)
  BY RowTyped
<1> QED
  BY <1>1, RowStep

LEMMA ReadsKept ==
    ASSUME IInv, NEW e \in Exporters,
           \/ ExportContent(e) \/ GetBranchSha(e) \/ Lookup(e) \/ GetFile(e) \/ SetDeletedFiles(e)
    PROVE  IInv'
<1>1. UNCHANGED <<provider, onDefault, content, commits, head, reported, edits, requests>>
  BY DEF ExportContent, GetBranchSha, Lookup, GetFile, SetDeletedFiles
<1>2. /\ exp[e] \in Export /\ content \in Tree /\ Branch \in Tree /\ DefaultBranch \in Tree
      /\ head \in 0..MaxCommits /\ head # 0
      /\ exp[e].dir \subseteq Contents /\ exp[e].files \subseteq Files
  <2>1. exp[e].dir \subseteq Contents /\ exp[e].files \subseteq Files
    BY RowTyped DEF Export
  <2> QED
    BY <2>1, RowTyped, TypeFacts DEF IInv
<1>3. CASE ExportContent(e)
  <2>1. PICK d \in exp[e].dir :
          Update(e, [exp[e] EXCEPT !.files = content[d], !.asked = {}, !.have = {},
                                   !.gone = {}, !.base = head,
                                   !.pc = IF provider = "github" THEN "head" ELSE "probe"])
    BY <1>3 DEF ExportContent
  <2> DEFINE x == [exp[e] EXCEPT !.files = content[d], !.asked = {}, !.have = {},
                                 !.gone = {}, !.base = head,
                                 !.pc = IF provider = "github" THEN "head" ELSE "probe"]
  <2>2. content[d] \subseteq Files
    BY <1>2 DEF Tree
  <2>3. x \in Export /\ x.base = head /\ x.made = exp[e].made /\ x.pc \in {"head", "probe"}
    BY <1>2, <2>2 DEF Export, Steps
  <2> HIDE DEF x
  <2> QED
    BY <1>1, <2>1, <2>3, ReadStep DEF x
<1>4. CASE GetBranchSha(e)
  <2> DEFINE x == [exp[e] EXCEPT !.base = head, !.pc = "lookup"]
  <2>1. x \in Export /\ x.base = head /\ x.made = exp[e].made /\ x.pc = "lookup"
    BY <1>2 DEF Export, Steps
  <2>2. Update(e, x)
    BY <1>4 DEF GetBranchSha
  <2> HIDE DEF x
  <2> QED
    BY <1>1, <1>2, <2>1, <2>2, ReadStep
<1>5. CASE Lookup(e)
  <2>1. CASE Fail(e)
    BY <1>1, <2>1, FailStep
  <2>2. CASE ~Fail(e)
    <3>1. PICK d \in exp[e].dir :
            Update(e, [exp[e] EXCEPT !.gone = DefaultBranch[d] \ exp[e].files, !.pc = "tree"])
      BY <1>5, <2>2 DEF Lookup
    <3> DEFINE x == [exp[e] EXCEPT !.gone = DefaultBranch[d] \ exp[e].files, !.pc = "tree"]
    <3>2. DefaultBranch[d] \ exp[e].files \subseteq Files
      BY <1>2 DEF Tree
    <3>3. x \in Export /\ x.base = exp[e].base /\ x.made = exp[e].made /\ x.pc = "tree"
      BY <1>2, <3>2 DEF Export, Steps
    <3>4. exp[e].base # 0
      <4>1. exp[e].pc = "lookup"
        BY <1>5 DEF Lookup, At
      <4>2. exp[e].base \in 1..Len(commits)
        BY <4>1 DEF IInv, CommitsWait
      <4> QED
        BY <4>2
    <3> HIDE DEF x
    <3> QED
      BY <1>1, <3>1, <3>3, <3>4, ReadStep DEF x
  <2> QED
    BY <2>1, <2>2
<1>6. CASE GetFile(e)
  <2>1. CASE Update(e, [exp[e] EXCEPT !.asked = {}, !.pc = "list"])
    <3> DEFINE x == [exp[e] EXCEPT !.asked = {}, !.pc = "list"]
    <3>1. x \in Export /\ x.base = exp[e].base /\ x.made = exp[e].made /\ x.pc = "list"
      BY <1>2 DEF Export, Steps
    <3> HIDE DEF x
    <3> QED
      BY <1>1, <2>1, <3>1, ReadStep DEF x
  <2>2. ASSUME NEW d \in exp[e].dir, NEW f \in exp[e].files, NEW failed \in BOOLEAN,
               Update(e, [exp[e] EXCEPT !.asked = @ \cup {f},
                            !.have = IF f \in Branch[d] /\ ~failed THEN @ \cup {f} ELSE @])
        PROVE  IInv'
    <3> DEFINE x == [exp[e] EXCEPT !.asked = @ \cup {f},
                       !.have = IF f \in Branch[d] /\ ~failed THEN @ \cup {f} ELSE @]
    <3>1. f \in Files /\ exp[e].pc = "probe"
      BY <1>2, <1>6 DEF GetFile, At
    <3>2. x \in Export /\ x.base = exp[e].base /\ x.made = exp[e].made /\ x.pc = "probe"
      BY <1>2, <3>1 DEF Export, Steps
    <3> HIDE DEF x
    <3> QED
      BY <1>1, <2>2, <3>2, ReadStep DEF x
  <2> QED
    BY <1>6, <2>1, <2>2 DEF GetFile
<1>7. CASE SetDeletedFiles(e)
  <2>1. CASE Fail(e)
    BY <1>1, <2>1, FailStep
  <2>2. CASE ~Fail(e)
    <3>0. PICK d \in exp[e].dir : \E listed \in Page(Branch[d]) :
            Update(e, [exp[e] EXCEPT !.gone = listed \ exp[e].files, !.pc = "post"])
      BY <1>7, <2>2 DEF SetDeletedFiles
    <3>1. PICK listed \in Page(Branch[d]) :
            Update(e, [exp[e] EXCEPT !.gone = listed \ exp[e].files, !.pc = "post"])
      BY <3>0
    <3> DEFINE x == [exp[e] EXCEPT !.gone = listed \ exp[e].files, !.pc = "post"]
    <3>2. listed \ exp[e].files \subseteq Files
      BY <1>2 DEF Tree, Page
    <3>3. x \in Export /\ x.base = exp[e].base /\ x.made = exp[e].made /\ x.pc = "post"
      BY <1>2, <3>2 DEF Export, Steps
    <3> HIDE DEF x
    <3> QED
      BY <1>1, <3>1, <3>3, ReadStep DEF x
  <2> QED
    BY <2>1, <2>2
<1> QED
  BY <1>3, <1>4, <1>5, <1>6, <1>7

\* A commit object is added; the rows that wait see the same commits as before.
LEMMA OthersWait ==
    ASSUME IInv, NEW e \in Exporters, NEW c \in Commit, commits' = Append(commits, c),
           \A f \in Exporters : f # e => exp'[f] = exp[f],
           NEW f \in Exporters, f # e
    PROVE  /\ exp'[f].pc = "ref" => Waiting(f)'
           /\ exp'[f].pc \in {"lookup", "tree"} => exp'[f].base \in 1..Len(commits')
<1>1. exp'[f] = exp[f] /\ Latest(f)' = Latest(f)
  BY DEF Latest
<1>2. /\ commits \in Seq(Commit) /\ Len(commits) \in Nat /\ Len(commits') = Len(commits) + 1
      /\ \A n \in 1..Len(commits) : commits'[n] = commits[n]
  BY TypeFacts, AppendProperties DEF IInv
<1>3. exp[f].made \subseteq 1..Len(commits)
  BY RowTyped
<1>4. ASSUME exp[f].pc = "ref" PROVE Waiting(f)'
  <2>1. Waiting(f)
    BY <1>4 DEF IInv, CommitsWait
  <2>2. commits'[Latest(f)] = commits[Latest(f)] /\ commits'[exp[f].base] = commits[exp[f].base]
    BY <1>2, <1>3, <2>1 DEF Waiting
  <2>3. exp[f].base \in 1..Len(commits')
    BY <1>2, <2>1 DEF Waiting
  <2> QED
    BY <1>1, <2>1, <2>2, <2>3 DEF Waiting
<1>5. exp[f].pc \in {"lookup", "tree"} => exp[f].base \in 1..Len(commits')
  BY <1>2 DEF IInv, CommitsWait
<1> QED
  BY <1>1, <1>4, <1>5

LEMMA OverlayTyped ==
    ASSUME NEW base \in Tree, NEW d \in Contents, NEW files \in SUBSET Files, NEW gone
    PROVE  /\ Overlay(base, d, files, gone) \in Tree
           /\ \A c \in Contents : c # d => Overlay(base, d, files, gone)[c] = base[c]
  BY DEF Overlay, Tree

LEMMA CreateCommitKept ==
    ASSUME IInv, NEW e \in Exporters, CreateCommit(e) PROVE IInv'
<1> DEFINE base == commits[exp[e].base].tree
<1>1. exp[e].pc = "tree" /\ exp[e].base \in 1..Len(commits)
  BY DEF CreateCommit, At, IInv, CommitsWait
<1>2. /\ UNCHANGED <<provider, onDefault, content, head, reported, edits, requests>>
      /\ commits \in Seq(Commit) /\ Len(commits) \in Nat /\ exp[e] \in Export
      /\ exp[e].made \subseteq 1..Len(commits)
  BY RowTyped, TypeFacts DEF CreateCommit, IInv
<1>3. CASE Fail(e) /\ UNCHANGED commits
  BY <1>2, <1>3, FailStep
<1>4. CASE ~(Fail(e) /\ UNCHANGED commits)
  <2>1. PICK d \in exp[e].dir :
          /\ Len(commits) < MaxCommits
          /\ commits' = Append(commits, [parent |-> exp[e].base,
                                         tree |-> Overlay(base, d, exp[e].files, exp[e].gone)])
          /\ Update(e, [exp[e] EXCEPT !.made = @ \cup {Len(commits) + 1}, !.pc = "ref"])
    BY <1>4 DEF CreateCommit
  <2> DEFINE new == [parent |-> exp[e].base, tree |-> Overlay(base, d, exp[e].files, exp[e].gone)]
             n == Len(commits) + 1
             x == [exp[e] EXCEPT !.made = @ \cup {n}, !.pc = "ref"]
  <2>2. /\ commits[exp[e].base] \in Commit /\ base \in Tree /\ d \in Contents
        /\ exp[e].files \in SUBSET Files
    <3>1. commits[exp[e].base] \in Commit
      BY <1>1, <1>2, ElementOfSeq
    <3> QED
      BY <1>2, <3>1 DEF Commit, Export
  <2>3. /\ new \in Commit /\ new.parent = exp[e].base
        /\ \A c \in Contents : c # d => new.tree[c] = base[c]
    <3>1. exp[e].base \in 0..MaxCommits
      BY <1>2 DEF Export
    <3> DEFINE tree == Overlay(base, d, exp[e].files, exp[e].gone)
    <3>2. new = [parent |-> exp[e].base, tree |-> tree]
      OBVIOUS
    <3> HIDE DEF base
    <3>3. tree \in Tree /\ \A c \in Contents : c # d => tree[c] = base[c]
      BY <2>2, OverlayTyped
    <3> HIDE DEF tree, new
    <3>4. new.parent = exp[e].base /\ new.tree = tree
      BY <3>2
    <3>5. new \in Commit
      BY <3>1, <3>2, <3>3 DEF Commit
    <3> QED
      BY <3>3, <3>4, <3>5
  <2>4. /\ n \in Nat /\ n <= MaxCommits /\ n \in 1..MaxCommits
    BY <1>2, <2>1
  <2>5. /\ x \in Export /\ x.base = exp[e].base /\ x.made = exp[e].made \cup {n}
        /\ x.pc = "ref" /\ x.dir = exp[e].dir
    BY <1>2, <2>4 DEF Export, Steps
  <2>6. Update(e, x) /\ commits' = Append(commits, new)
    BY <2>1
  <2> HIDE DEF new, x
  <2>7. /\ commits' \in Seq(Commit) /\ Len(commits') = n /\ commits'[n] = new
        /\ \A i \in 1..Len(commits) : commits'[i] = commits[i]
    BY <1>2, <2>3, <2>6, AppendProperties
  <2>8. x.base <= Len(commits') /\ x.made \subseteq 1..Len(commits') /\ Len(commits) <= Len(commits')
        /\ Len(commits') \in Nat /\ x.base \in 1..Len(commits')
    BY <1>1, <1>2, <2>4, <2>5, <2>7
  <2>9. /\ exp' \in [Exporters -> Export]
        /\ exp'[e] = x /\ \A f \in Exporters : f # e => exp'[f] = exp[f]
        /\ \A f \in Exporters : /\ exp'[f].base <= Len(commits')
                                /\ exp'[f].made \subseteq 1..Len(commits')
    BY <2>5, <2>6, <2>8, UpdateTyped DEF IInv
  <2>10. Typed'
    <3>1. Len(commits') <= MaxCommits /\ head' \in 1..Len(commits')
          /\ reported' \in SUBSET (1..Len(commits'))
      BY <1>2, <2>4, <2>7, RowTyped
    <3> QED
      BY <1>2, <2>7, <2>9, <3>1 DEF IInv, Typed, TypeOK
  <2>11. Latest(e)' = n
    <3>1. exp'[e].made = exp[e].made \cup {n}
      BY <2>5, <2>9
    <3>2. n \in exp'[e].made /\ exp'[e].made \subseteq Nat /\ \A m \in exp'[e].made : m <= n
      BY <1>2, <2>4, <3>1
    <3>3. \A k \in exp'[e].made : (\A m \in exp'[e].made : m <= k) => k = n
      <4> SUFFICES ASSUME NEW k \in exp'[e].made, \A m \in exp'[e].made : m <= k PROVE k = n
        OBVIOUS
      <4>1. k <= n /\ n <= k /\ k \in Nat /\ n \in Nat
        BY <2>4, <3>2
      <4> QED
        BY <4>1
    <3> QED
      BY <3>2, <3>3 DEF Latest
  <2>12. Waiting(e)'
    <3>1. Latest(e)' \in exp'[e].made /\ commits'[Latest(e)'] = new
      BY <2>5, <2>7, <2>9, <2>11
    <3>2. exp'[e].base = exp[e].base /\ exp'[e].dir = exp[e].dir /\ exp'[e].base \in 1..Len(commits')
      BY <2>5, <2>8, <2>9
    <3>3. commits'[exp[e].base] = commits[exp[e].base]
      BY <1>1, <2>7
    <3>4. ASSUME NEW c \in Contents \ exp[e].dir PROVE new.tree[c] = base[c]
      BY <2>3, <3>4
    <3> QED
      BY <2>3, <3>1, <3>2, <3>3, <3>4 DEF Waiting
  <2>13. CommitsWait'
    BY <2>3, <2>5, <2>6, <2>9, <2>12, OthersWait DEF CommitsWait
  <2> QED
    BY <2>10, <2>13 DEF IInv
<1> QED
  BY <1>3, <1>4

LEMMA UpdateBranchRefKept ==
    ASSUME IInv, NEW e \in Exporters, UpdateBranchRef(e) PROVE IInv'
<1>1. /\ UNCHANGED <<provider, onDefault, content, commits, reported, edits, requests>>
      /\ exp[e].pc = "ref" /\ Waiting(e)
  BY DEF UpdateBranchRef, At, IInv, CommitsWait
<1>2. CASE Fail(e) /\ UNCHANGED head
  BY <1>1, <1>2, FailStep
<1>3. CASE ~(Fail(e) /\ UNCHANGED head)
  <2> DEFINE x == [exp[e] EXCEPT !.pc = "url"]
  <2>1. head' = Latest(e) /\ Update(e, x)
    BY <1>3 DEF UpdateBranchRef
  <2>2. x \in Export /\ x.base = exp[e].base /\ x.made = exp[e].made /\ x.pc = "url"
    BY RowTyped DEF Export, Steps
  <2> HIDE DEF x
  <2>3. head' \in 1..Len(commits) /\ Len(commits) \in Nat
    BY <1>1, <2>1, RowTyped DEF Waiting
  <2>4. x.base <= Len(commits') /\ x.made \subseteq 1..Len(commits') /\ Len(commits) <= Len(commits')
        /\ Len(commits') \in Nat
    BY <1>1, <2>2, <2>3, RowTyped
  <2>5. /\ exp' \in [Exporters -> Export]
        /\ exp'[e] = x /\ \A f \in Exporters : f # e => exp'[f] = exp[f]
        /\ \A f \in Exporters : /\ exp'[f].base <= Len(commits')
                                /\ exp'[f].made \subseteq 1..Len(commits')
    BY <2>1, <2>2, <2>4, UpdateTyped DEF IInv
  <2>6. Typed'
    BY <1>1, <2>3, <2>5 DEF IInv, Typed, TypeOK
  <2>7. ASSUME NEW f \in Exporters, f # e PROVE Waiting(f)' = Waiting(f)
    <3>1. exp'[f] = exp[f] /\ Latest(f)' = Latest(f)
      BY <2>5, <2>7 DEF Latest
    <3> QED
      BY <1>1, <3>1 DEF Waiting
  <2>8. CommitsWait'
    BY <1>1, <2>2, <2>5, <2>7 DEF IInv, CommitsWait
  <2> QED
    BY <2>6, <2>8 DEF IInv
<1> QED
  BY <1>2, <1>3

LEMMA DoneTyped ==
    ASSUME IInv, NEW e \in Exporters, NEW made \in SUBSET (1..MaxCommits)
    PROVE  LET x == [NoExport EXCEPT !.pc = "next", !.todo = exp[e].todo, !.made = made]
           IN  x \in Export /\ x.base = 0 /\ x.made = made /\ x.pc = "next"
<1>1. exp[e].todo \in SUBSET Contents
  BY RowTyped DEF Export
<1> QED
  BY <1>1, NoExportTyped DEF Export, Steps

LEMMA GetCommitKept ==
    ASSUME IInv, NEW e \in Exporters, GetCommit(e) PROVE IInv'
<1> DEFINE x == [NoExport EXCEPT !.pc = "next", !.todo = exp[e].todo, !.made = exp[e].made]
<1>1. /\ UNCHANGED <<provider, onDefault, content, commits, head, reported, edits, requests>>
      /\ Update(e, x)
  BY DEF GetCommit, Done
<1>2. x \in Export /\ x.base = 0 /\ x.made = exp[e].made /\ x.pc = "next"
  BY RowTyped, DoneTyped
<1> HIDE DEF x
<1>3. reported' \in SUBSET (1..Len(commits)) /\ requests' \in 0..MaxRequests
      /\ x.base \in 0..Len(commits) /\ x.made \subseteq 1..Len(commits)
  BY <1>1, <1>2, RowTyped
<1> QED
  BY <1>1, <1>2, <1>3, RowStep

LEMMA PostCommitKept ==
    ASSUME IInv, NEW e \in Exporters, PostCommit(e) PROVE IInv'
<1>1. /\ UNCHANGED <<provider, onDefault, content, reported, edits, requests>>
      /\ commits \in Seq(Commit) /\ Len(commits) \in Nat /\ exp[e] \in Export
      /\ exp[e].made \subseteq 1..Len(commits) /\ Branch \in Tree /\ head \in 0..MaxCommits
  BY RowTyped, TypeFacts DEF PostCommit, IInv
<1>2. CASE Fail(e) /\ UNCHANGED <<commits, head>>
  BY <1>1, <1>2, FailStep
<1>3. CASE ~(Fail(e) /\ UNCHANGED <<commits, head>>)
  <2>1. PICK d \in exp[e].dir :
          /\ Len(commits) < MaxCommits
          /\ commits' = Append(commits, [parent |-> head,
                                         tree |-> Overlay(Branch, d, exp[e].files, exp[e].gone)])
          /\ head' = Len(commits) + 1
          /\ Done(e, exp[e].made \cup {Len(commits) + 1})
    BY <1>3 DEF PostCommit
  <2> DEFINE new == [parent |-> head, tree |-> Overlay(Branch, d, exp[e].files, exp[e].gone)]
             n == Len(commits) + 1
             x == [NoExport EXCEPT !.pc = "next", !.todo = exp[e].todo, !.made = exp[e].made \cup {n}]
  <2>2. new \in Commit
    <3>1. d \in Contents /\ exp[e].files \in SUBSET Files
      BY <1>1 DEF Export
    <3> QED
      BY <1>1, <3>1, OverlayTyped DEF Commit
  <2>3. n \in 1..MaxCommits /\ n \in Nat
    BY <1>1, <2>1
  <2>4. x \in Export /\ x.base = 0 /\ x.made = exp[e].made \cup {n} /\ x.pc = "next"
    <3>1. exp[e].made \cup {n} \in SUBSET (1..MaxCommits)
      BY <2>3, RowTyped
    <3> QED
      BY <3>1, DoneTyped
  <2>5. Update(e, x) /\ commits' = Append(commits, new) /\ head' = n
    BY <2>1 DEF Done
  <2> HIDE DEF new, x
  <2>6. commits' \in Seq(Commit) /\ Len(commits') = n
    BY <1>1, <2>2, <2>5, AppendProperties
  <2>7. x.base <= Len(commits') /\ x.made \subseteq 1..Len(commits') /\ Len(commits) <= Len(commits')
        /\ Len(commits') \in Nat
    BY <1>1, <2>3, <2>4, <2>6
  <2>8. /\ exp' \in [Exporters -> Export]
        /\ exp'[e] = x /\ \A f \in Exporters : f # e => exp'[f] = exp[f]
        /\ \A f \in Exporters : /\ exp'[f].base <= Len(commits')
                                /\ exp'[f].made \subseteq 1..Len(commits')
    BY <2>4, <2>5, <2>7, UpdateTyped DEF IInv
  <2>9. Typed'
    <3>1. Len(commits') <= MaxCommits /\ head' \in 1..Len(commits')
          /\ reported' \in SUBSET (1..Len(commits'))
      BY <1>1, <2>3, <2>5, <2>6, RowTyped
    <3> QED
      BY <1>1, <2>6, <2>8, <3>1 DEF IInv, Typed, TypeOK
  <2>10. CommitsWait'
    BY <2>2, <2>4, <2>5, <2>8, OthersWait DEF CommitsWait
  <2> QED
    BY <2>9, <2>10 DEF IInv
<1> QED
  BY <1>2, <1>3

LEMMA EditKept ==
    ASSUME IInv, NEW d \in Contents, NEW S \in SUBSET Files, Edit(d, S) PROVE IInv'
<1>1. UNCHANGED <<provider, onDefault, commits, head, exp, reported, requests>>
  BY DEF Edit
<1>2. content' \in Tree /\ edits' \in 0..MaxEdits
  BY DEF Edit, IInv, Typed, TypeOK, Tree
<1>3. Typed'
  BY <1>1, <1>2 DEF IInv, Typed, TypeOK
<1>4. CommitsWait'
  BY <1>1 DEF IInv, CommitsWait, Waiting, Latest
<1> QED
  BY <1>3, <1>4 DEF IInv

LEMMA InitIInv == Init => IInv
<1> SUFFICES ASSUME Init PROVE IInv
  OBVIOUS
<1>1. PICK t \in InitialTrees : commits = <<[parent |-> 0, tree |-> t]>>
  BY DEF Init
<1>2. commits \in Seq(Commit) /\ Len(commits) = 1 /\ 1 <= MaxCommits
  <2>1. [parent |-> 0, tree |-> t] \in Commit
    BY InitialTreesAreTrees DEF Commit
  <2> QED
    BY <1>1, <2>1
<1>3. ASSUME NEW e \in Exporters
      PROVE  exp[e] = NoExport
  BY <1>3 DEF Init
<1>4. Typed
  <2>1. exp \in [Exporters -> Export]
    BY NoExportTyped DEF Init
  <2>2. ASSUME NEW e \in Exporters PROVE exp[e].base <= Len(commits) /\ exp[e].made \subseteq 1..Len(commits)
    BY <1>2, <1>3, NoExportTyped
  <2>3. content \in Tree
    BY DEF Init, Tree
  <2> QED
    BY <1>2, <2>1, <2>2, <2>3 DEF Init, Typed, TypeOK
<1>5. CommitsWait
  BY <1>3, NoExportTyped DEF CommitsWait
<1> QED
  BY <1>4, <1>5 DEF IInv

LEMMA StepIInv == IInv /\ [Next]_vars => IInv'
<1> SUFFICES ASSUME IInv, [Next]_vars PROVE IInv'
  OBVIOUS
<1>1. CASE UNCHANGED vars
  BY <1>1 DEF vars, IInv, Typed, TypeOK, CommitsWait, Waiting, Latest
<1>2. ASSUME NEW e \in Exporters, Breaks(e) PROVE IInv'
  BY <1>2, FailStep DEF Breaks
<1> QED
  BY <1>1, <1>2, StartKept, NextContentKept, ReadsKept, CreateCommitKept, UpdateBranchRefKept,
     GetCommitKept, PostCommitKept, EditKept DEF Next

LEMMA Invariance == Init /\ [][Next]_vars => []IInv
  BY InitIInv, StepIInv, PTL

\* Every reachable state is well typed; the branch always points to a commit that is
\* there, and so do the commits an administrator was told of.
THEOREM TypeCorrect == Spec => []TypeOK
<1>1. IInv => TypeOK
  BY DEF IInv, Typed
<1> QED
  BY <1>1, Invariance, PTL DEF Spec
-----------------------------------------------------------------------------
(* Nothing outside the directory of the item changes *)

LEMMA OnlyDirStep ==
    ASSUME IInv, [Next]_vars, NEW e \in Exporters, head' # head, exp'[e] # exp[e],
           NEW c \in Contents \ exp[e].dir
    PROVE  Branch'[c] = Branch[c]
<1>1. PICK f \in Exporters : UpdateBranchRef(f) \/ PostCommit(f)
  BY DEF Next, vars, Start, NextContent, ExportContent, Breaks, GetBranchSha, Lookup,
         CreateCommit, GetCommit, GetFile, SetDeletedFiles, Edit
<1>2. f = e
  BY <1>1 DEF UpdateBranchRef, PostCommit, Done, Fail, Update, IInv, Typed, TypeOK
<1>3. CASE UpdateBranchRef(e)
  <2>1. commits[Latest(e)].parent = head /\ head' = Latest(e) /\ commits' = commits
    BY <1>3 DEF UpdateBranchRef
  <2>2. Waiting(e)
    BY <1>3 DEF UpdateBranchRef, At, IInv, CommitsWait
  <2> QED
    BY <2>1, <2>2 DEF Waiting, Branch
<1>4. CASE PostCommit(e)
  <2>1. PICK d \in exp[e].dir :
          /\ commits' = Append(commits, [parent |-> head,
                                         tree |-> Overlay(Branch, d, exp[e].files, exp[e].gone)])
          /\ head' = Len(commits) + 1
    BY <1>4 DEF PostCommit
  <2>2. Branch' = Overlay(Branch, d, exp[e].files, exp[e].gone)
    <3>1. commits \in Seq(Commit) /\ Len(commits) \in Nat
      BY TypeFacts DEF IInv
    <3>2. commits'[head'] = [parent |-> head, tree |-> Overlay(Branch, d, exp[e].files, exp[e].gone)]
      BY <2>1, <3>1
    <3> QED
      BY <3>2 DEF Branch
  <2>3. /\ d \in Contents /\ exp[e].files \in SUBSET Files /\ c # d /\ Branch \in Tree
    BY RowTyped, TypeFacts DEF Export, IInv
  <2> QED
    BY <2>2, <2>3, OverlayTyped
<1> QED
  BY <1>1, <1>2, <1>3, <1>4

\* When an exporter moves the branch, what the branch had outside the directory of
\* its item is what it has after, whoever else exports at the same time.
THEOREM OthersAreSpared == Spec => OnlyContentDir
<1>1. IInv /\ [Next]_vars =>
        [\A e \in Exporters :
           head' # head /\ exp'[e] # exp[e]
           => \A c \in Contents \ exp[e].dir : Branch'[c] = Branch[c]]_vars
  BY OnlyDirStep
<1> QED
  BY <1>1, Invariance, PTL DEF Spec, OnlyContentDir
-----------------------------------------------------------------------------
(* What is reported is on the branch, and a commit that lands is exact *)

ParentsAreOlder == \A n \in 1..Len(commits) : commits[n].parent < n

\* The commits of an export that goes on are on the branch, but for the one
\* that still waits for its branch to be moved.
Settled(e) ==
    \A n \in exp[e].made :
      n \in Ancestors(head) \/ (exp[e].pc = "ref" /\ n = Latest(e))

OneDir(e) ==
    exp[e].pc \notin {"idle", "next"} => \E d \in Contents : exp[e].dir = {d}

\* What is to be deleted is what the branch has and the item has not, as long
\* as nobody moved the branch.
SeesBranch(e) ==
    /\ exp[e].base <= head
    /\ provider = "github" => exp[e].pc \notin {"probe", "list", "post"}
    /\ exp[e].base = head /\ onDefault /\ exp[e].pc \in {"tree", "ref"} =>
         \A d \in exp[e].dir : exp[e].gone = Branch[d] \ exp[e].files
    /\ exp[e].base = head /\ exp[e].pc = "post" =>
         \A d \in exp[e].dir : Cardinality(Branch[d]) <= PageSize
                               => exp[e].gone = Branch[d] \ exp[e].files

\* The commit that waits is the item laid over its base.
OverBase(e) ==
    exp[e].pc = "ref" =>
      \A d \in exp[e].dir :
        commits[Latest(e)].tree[d] = (commits[exp[e].base].tree[d] \ exp[e].gone) \cup exp[e].files

History ==
    /\ provider = "gitlab" => onDefault
    /\ ParentsAreOlder
    /\ reported \subseteq Ancestors(head)
    /\ \A e \in Exporters : Settled(e) /\ OneDir(e) /\ SeesBranch(e) /\ OverBase(e)

Hist(e) == Settled(e) /\ OneDir(e) /\ SeesBranch(e) /\ OverBase(e)

Full == IInv /\ History

(* Ancestors *)

LEMMA OwnAncestor ==
    ASSUME NEW c \in 1..Len(commits) PROVE c \in Ancestors(c)
  BY DEF Ancestors

LEMMA AncestorsOfParent ==
    ASSUME NEW c \in 1..Len(commits), commits[c].parent # 0
    PROVE  Ancestors(commits[c].parent) \subseteq Ancestors(c)
  BY DEF Ancestors

\* Adding commits takes no ancestor away.
LEMMA AncestorsStay ==
    ASSUME IInv, ParentsAreOlder, NEW c \in 1..Len(commits),
           Len(commits') \in Nat, Len(commits) <= Len(commits'),
           \A n \in 1..Len(commits) : commits'[n] = commits[n]
    PROVE  Ancestors(c) \subseteq Ancestors(c)'
<1>1. /\ Len(commits) \in Nat
      /\ \A n \in 1..Len(commits) : commits[n].parent \in Nat /\ commits[n].parent < n
  <2>1. commits \in Seq(Commit) /\ Len(commits) \in Nat
    BY TypeFacts DEF IInv
  <2>2. \A n \in 1..Len(commits) : commits[n] \in Commit
    BY <2>1, ElementOfSeq
  <2> QED
    BY <2>1, <2>2 DEF ParentsAreOlder, Commit
<1> SUFFICES ASSUME NEW n \in Ancestors(c) PROVE n \in Ancestors(c)'
  OBVIOUS
<1>2. n \in 1..Len(commits) /\ n \in 1..Len(commits')
  BY <1>1 DEF Ancestors
<1>3. ASSUME NEW S \in SUBSET (1..Len(commits')), c \in S,
             \A m \in S : commits'[m].parent \in S \cup {0}
      PROVE  n \in S
  <2> DEFINE T == S \cap (1..Len(commits))
  <2>1. T \in SUBSET (1..Len(commits)) /\ c \in T
    BY <1>3
  <2>2. ASSUME NEW m \in T PROVE commits[m].parent \in T \cup {0}
    <3>1. m \in S /\ m \in 1..Len(commits)
      OBVIOUS
    <3>2. commits'[m] = commits[m] /\ commits[m].parent \in Nat /\ commits[m].parent < m
      BY <1>1, <3>1
    <3>3. commits[m].parent \in S \cup {0}
      BY <1>3, <3>1, <3>2
    <3>4. commits[m].parent # 0 => commits[m].parent \in 1..Len(commits)
      BY <1>1, <3>1, <3>2
    <3> QED
      BY <3>3, <3>4
  <2>3. \A m \in T : commits[m].parent \in T \cup {0}
    BY <2>2
  <2> HIDE DEF T
  <2>4. n \in T
    BY <2>1, <2>3 DEF Ancestors
  <2> QED
    BY <2>4 DEF T
<1> QED
  BY <1>2, <1>3 DEF Ancestors

(* The repository only grows *)

Grows ==
    /\ Len(commits') \in Nat /\ Len(commits) <= Len(commits')
    /\ \A n \in 1..Len(commits) : commits'[n] = commits[n]
    /\ head <= head' /\ head' \in Nat
    /\ Ancestors(head) \subseteq Ancestors(head)'
    /\ ParentsAreOlder'
    /\ UNCHANGED <<provider, onDefault>>

LEMMA GrowsByNothing ==
    ASSUME Full, UNCHANGED <<provider, onDefault, commits, head>>
    PROVE  Grows
<1>1. Len(commits) \in Nat /\ head \in Nat
  BY TypeFacts DEF Full, IInv
<1> QED
  BY <1>1 DEF Grows, Full, History, ParentsAreOlder, Ancestors

LEMMA GrowsByCommit ==
    ASSUME Full, UNCHANGED <<provider, onDefault>>, NEW new \in Commit,
           commits' = Append(commits, new), new.parent <= Len(commits),
           \/ head' = head
           \/ head' = Len(commits) + 1 /\ new.parent = head
    PROVE  Grows /\ commits'[Len(commits) + 1] = new
<1>1. /\ commits \in Seq(Commit) /\ Len(commits) \in Nat /\ head \in 1..Len(commits)
      /\ new.parent \in Nat
  BY TypeFacts DEF Full, IInv, Commit
<1>2. /\ Len(commits') = Len(commits) + 1 /\ commits'[Len(commits) + 1] = new
      /\ \A n \in 1..Len(commits) : commits'[n] = commits[n]
  BY <1>1, AppendProperties
<1>3. /\ Len(commits') \in Nat /\ Len(commits) <= Len(commits')
      /\ head <= head' /\ head' \in Nat
  BY <1>1, <1>2
<1>4. ParentsAreOlder'
  <2> SUFFICES ASSUME NEW n \in 1..Len(commits') PROVE commits'[n].parent < n
    BY DEF ParentsAreOlder
  <2>1. CASE n \in 1..Len(commits)
    BY <1>2, <2>1 DEF Full, History, ParentsAreOlder
  <2>2. CASE n = Len(commits) + 1
    BY <1>1, <1>2, <2>2
  <2> QED
    BY <1>1, <1>2, <2>1, <2>2
<1>5. Ancestors(head) \subseteq Ancestors(head)'
  <2>1. \A c \in 1..Len(commits) : Ancestors(c) \subseteq Ancestors(c)'
    BY <1>2, <1>3, AncestorsStay DEF Full, History
  <2> SUFFICES ASSUME NEW c \in 1..Len(commits), c = head
               PROVE  Ancestors(c) \subseteq Ancestors(head)'
    BY <1>1
  <2>2. CASE head' = head
    BY <2>1, <2>2 DEF Ancestors
  <2>3. CASE head' = Len(commits) + 1 /\ new.parent = head
    <3>1. head' \in 1..Len(commits') /\ commits'[head'].parent = c /\ c # 0
      BY <1>1, <1>2, <2>3
    <3>2. Ancestors(c)' \subseteq Ancestors(head)'
      BY <3>1 DEF Ancestors
    <3> QED
      BY <2>1, <3>2
  <2> QED
    BY <2>2, <2>3
<1> QED
  BY <1>2, <1>3, <1>4, <1>5 DEF Grows

(* What each step owes *)

HistStep(e) ==
    /\ Grows
    /\ Hist(e)'
    /\ reported' \subseteq Ancestors(head)'
    /\ \A f \in Exporters : f # e => exp'[f] = exp[f]

\* The others keep what they remember of the branch, or see that it moved.
LEMMA HistStays ==
    ASSUME Full, Grows, NEW f \in Exporters, exp'[f] = exp[f]
    PROVE  Hist(f)'
<1>1. /\ Len(commits) \in Nat /\ head \in 1..Len(commits) /\ head <= head'
      /\ exp[f].base \in Nat /\ exp[f].base <= head /\ Latest(f)' = Latest(f)
  BY RowTyped DEF Full, History, SeesBranch, Latest, Grows
<1>2. Settled(f)'
  BY <1>1 DEF Full, History, Grows, Settled
<1>3. OneDir(f)'
  BY DEF Full, History, OneDir
<1>4. SeesBranch(f)'
  <2>2. exp[f].base <= head' /\ (exp[f].base = head' => head' = head)
    BY <1>1 DEF Grows
  <2>3. head' = head => Branch' = Branch
    BY <1>1 DEF Grows, Branch
  <2> QED
    BY <1>1, <2>2, <2>3 DEF Full, History, SeesBranch, Grows
<1>5. OverBase(f)'
  <2>1. CASE exp[f].pc # "ref"
    BY <2>1 DEF OverBase
  <2>2. CASE exp[f].pc = "ref"
    <3>1. Latest(f) \in 1..Len(commits) /\ exp[f].base \in 1..Len(commits)
      BY <2>2, RowTyped DEF Full, IInv, CommitsWait, Waiting
    <3>2. commits'[Latest(f)] = commits[Latest(f)] /\ commits'[exp[f].base] = commits[exp[f].base]
      BY <3>1 DEF Grows
    <3>3. OverBase(f)
      BY DEF Full, History
    <3> QED
      BY <1>1, <3>2, <3>3 DEF OverBase
  <2> QED
    BY <2>1, <2>2
<1> QED
  BY <1>2, <1>3, <1>4, <1>5 DEF Hist

LEMMA RowIs ==
    ASSUME Full, NEW e \in Exporters, NEW x, Update(e, x)
    PROVE  exp'[e] = x /\ \A f \in Exporters : f # e => exp'[f] = exp[f]
  BY DEF Full, IInv, Typed, TypeOK, Update

\* Steps that leave the repository alone.
LEMMA QuietStep ==
    ASSUME Full, NEW e \in Exporters, NEW x \in Export, Update(e, x),
           UNCHANGED <<provider, onDefault, commits, head>>,
           reported' \subseteq Ancestors(head), x.made \subseteq Ancestors(head),
           x.base <= head, x.pc # "ref",
           x.pc \notin {"idle", "next"} => \E d \in Contents : x.dir = {d},
           provider = "github" => x.pc \notin {"probe", "list", "post"},
           x.base = head /\ onDefault /\ x.pc = "tree" =>
             \A d \in x.dir : x.gone = Branch[d] \ x.files,
           x.base = head /\ x.pc = "post" =>
             \A d \in x.dir : Cardinality(Branch[d]) <= PageSize => x.gone = Branch[d] \ x.files
    PROVE  HistStep(e)
<1>1. exp'[e] = x /\ \A f \in Exporters : f # e => exp'[f] = exp[f]
  BY RowIs
<1>2. Ancestors(head)' = Ancestors(head) /\ Branch' = Branch
  BY DEF Ancestors, Branch
<1>3. Settled(e)' /\ OneDir(e)' /\ OverBase(e)'
  BY <1>1, <1>2 DEF Settled, OneDir, OverBase
<1>4. SeesBranch(e)'
  BY <1>1, <1>2 DEF SeesBranch
<1> QED
  BY <1>1, <1>2, <1>3, <1>4, GrowsByNothing DEF HistStep, Hist

LEMMA FailHist ==
    ASSUME Full, NEW e \in Exporters, Fail(e),
           UNCHANGED <<provider, onDefault, commits, head, reported>>
    PROVE  HistStep(e)
<1>1. Update(e, NoExport) /\ reported' \subseteq Ancestors(head) /\ NoExport.base <= head
  BY NoExportTyped, TypeFacts DEF Fail, Full, History, IInv
<1> QED
  BY <1>1, NoExportTyped, QuietStep

\* What is known of an exporter between two steps.
LEMMA HistFacts ==
    ASSUME Full, NEW e \in Exporters
    PROVE  /\ exp[e].pc # "ref" => exp[e].made \subseteq Ancestors(head)
           /\ exp[e].pc \notin {"idle", "next"} => \E d \in Contents : exp[e].dir = {d}
           /\ exp[e].base <= head /\ head <= head /\ 0 <= head /\ head # 0
           /\ exp[e] \in Export /\ reported \subseteq Ancestors(head)
           /\ exp[e].files \subseteq Files
           /\ provider = "github" => exp[e].pc \notin {"probe", "list", "post"}
<1>1. exp[e] \in Export /\ head \in Nat /\ head # 0
  BY RowTyped DEF Full
<1> QED
  BY <1>1 DEF Full, History, Settled, OneDir, SeesBranch, Export

LEMMA StartHist ==
    ASSUME Full, NEW e \in Exporters, NEW S \in SUBSET Contents, Start(e, S)
    PROVE  HistStep(e)
<1> DEFINE x == [NoExport EXCEPT !.pc = "next", !.todo = S]
<1>1. x \in Export /\ x.base = 0 /\ x.made = {} /\ x.pc = "next"
  BY NoExportTyped DEF Export, Steps
<1>2. Update(e, x) /\ UNCHANGED <<provider, onDefault, commits, head, reported>>
  BY DEF Start
<1> HIDE DEF x
<1> QED
  BY <1>1, <1>2, HistFacts, QuietStep

LEMMA NextContentHist ==
    ASSUME Full, NEW e \in Exporters, NextContent(e) PROVE HistStep(e)
<1>1. UNCHANGED <<provider, onDefault, commits, head>> /\ exp[e].pc = "next"
  BY DEF NextContent, At
<1>2. CASE reported' = reported \cup exp[e].made /\ Update(e, NoExport)
  BY <1>1, <1>2, HistFacts, NoExportTyped, QuietStep
<1>3. ASSUME NEW d \in exp[e].todo, reported' = reported,
             Update(e, [exp[e] EXCEPT !.pc = "export", !.dir = {d}, !.todo = @ \ {d}])
      PROVE  HistStep(e)
  <2> DEFINE x == [exp[e] EXCEPT !.pc = "export", !.dir = {d}, !.todo = @ \ {d}]
  <2>1. /\ exp[e] \in Export /\ exp[e].base <= head /\ exp[e].made \subseteq Ancestors(head)
        /\ reported' \subseteq Ancestors(head)
    BY <1>1, <1>3, HistFacts
  <2>2. /\ x \in Export /\ x.base = exp[e].base /\ x.made = exp[e].made
        /\ x.pc = "export" /\ x.dir = {d} /\ d \in Contents
    BY <2>1 DEF Export, Steps
  <2>3. Update(e, x)
    BY <1>3
  <2> HIDE DEF x
  <2> QED
    BY <1>1, <2>1, <2>2, <2>3, QuietStep
<1> QED
  BY <1>2, <1>3 DEF NextContent

LEMMA ReadsHist ==
    ASSUME Full, NEW e \in Exporters,
           \/ ExportContent(e) \/ GetBranchSha(e) \/ Lookup(e) \/ GetFile(e) \/ SetDeletedFiles(e)
    PROVE  HistStep(e)
<1>1. UNCHANGED <<provider, onDefault, commits, head, reported>>
  BY DEF ExportContent, GetBranchSha, Lookup, GetFile, SetDeletedFiles
<1>2. /\ exp[e] \in Export /\ content \in Tree /\ Branch \in Tree /\ DefaultBranch \in Tree
      /\ head \in 0..MaxCommits
  BY RowTyped, TypeFacts DEF Full, IInv
<1>3. /\ exp[e].pc \in {"export", "head", "lookup", "probe", "list"}
      /\ exp[e].made \subseteq Ancestors(head)
  <2>1. exp[e].pc \in {"export", "head", "lookup", "probe", "list"}
    BY DEF ExportContent, GetBranchSha, Lookup, GetFile, SetDeletedFiles, At
  <2> QED
    BY <2>1, HistFacts
<1>4. PICK d \in Contents : exp[e].dir = {d}
  BY <1>3, HistFacts
<1>files. exp[e].files \subseteq Files /\ content[d] \subseteq Files
          /\ Branch[d] \subseteq Files /\ DefaultBranch[d] \subseteq Files
  BY <1>2, HistFacts DEF Tree
<1>5. CASE ExportContent(e)
  <2> DEFINE x == [exp[e] EXCEPT !.files = content[d], !.asked = {}, !.have = {},
                                 !.gone = {}, !.base = head,
                                 !.pc = IF provider = "github" THEN "head" ELSE "probe"]
  <2>1. Update(e, x)
    BY <1>4, <1>5 DEF ExportContent
  <2>2. /\ x \in Export /\ x.base = head /\ x.made = exp[e].made /\ x.dir = exp[e].dir
        /\ x.pc = IF provider = "github" THEN "head" ELSE "probe"
    BY <1>2, <1>files DEF Export, Steps
  <2> HIDE DEF x
  <2> QED
    BY <1>1, <1>3, <1>4, <2>1, <2>2, HistFacts, QuietStep
<1>6. CASE GetBranchSha(e)
  <2> DEFINE x == [exp[e] EXCEPT !.base = head, !.pc = "lookup"]
  <2>1. Update(e, x)
    BY <1>6 DEF GetBranchSha
  <2>2. /\ x \in Export /\ x.base = head /\ x.made = exp[e].made /\ x.dir = exp[e].dir
        /\ x.pc = "lookup"
    BY <1>2 DEF Export, Steps
  <2> HIDE DEF x
  <2> QED
    BY <1>1, <1>3, <1>4, <2>1, <2>2, HistFacts, QuietStep
<1>7. CASE Lookup(e)
  <2>1. CASE Fail(e)
    BY <1>1, <2>1, FailHist
  <2>2. CASE ~Fail(e)
    <3> DEFINE x == [exp[e] EXCEPT !.gone = DefaultBranch[d] \ exp[e].files, !.pc = "tree"]
    <3>1. Update(e, x)
      BY <1>4, <1>7, <2>2 DEF Lookup
    <3>2. /\ x \in Export /\ x.base = exp[e].base /\ x.made = exp[e].made /\ x.dir = {d}
          /\ x.pc = "tree" /\ x.gone = DefaultBranch[d] \ exp[e].files /\ x.files = exp[e].files
      BY <1>2, <1>4, <1>files DEF Export, Steps
    <3>3. onDefault => DefaultBranch = Branch
      BY DEF DefaultBranch
    <3> HIDE DEF x
    <3> QED
      BY <1>1, <1>3, <3>1, <3>2, <3>3, HistFacts, QuietStep
  <2> QED
    BY <2>1, <2>2
<1>8. CASE GetFile(e)
  <2>0. exp[e].pc = "probe" /\ provider # "github"
    BY <1>8, HistFacts DEF GetFile, At
  <2>1. CASE Update(e, [exp[e] EXCEPT !.asked = {}, !.pc = "list"])
    <3> DEFINE x == [exp[e] EXCEPT !.asked = {}, !.pc = "list"]
    <3>1. /\ x \in Export /\ x.base = exp[e].base /\ x.made = exp[e].made /\ x.pc = "list"
          /\ x.dir = {d}
      BY <1>2, <1>4 DEF Export, Steps
    <3> HIDE DEF x
    <3> QED
      BY <1>1, <1>3, <2>0, <2>1, <3>1, HistFacts, QuietStep DEF x
  <2>2. ASSUME NEW f \in exp[e].files, NEW failed \in BOOLEAN,
               Update(e, [exp[e] EXCEPT !.asked = @ \cup {f},
                            !.have = IF f \in Branch[d] /\ ~failed THEN @ \cup {f} ELSE @])
        PROVE  HistStep(e)
    <3> DEFINE x == [exp[e] EXCEPT !.asked = @ \cup {f},
                       !.have = IF f \in Branch[d] /\ ~failed THEN @ \cup {f} ELSE @]
    <3>1. /\ x \in Export /\ x.base = exp[e].base /\ x.made = exp[e].made /\ x.pc = "probe"
          /\ x.dir = {d}
      BY <1>2, <1>4, <1>files, <2>0 DEF Export, Steps
    <3> HIDE DEF x
    <3> QED
      BY <1>1, <1>3, <2>0, <2>2, <3>1, HistFacts, QuietStep DEF x
  <2> QED
    BY <1>4, <1>8, <2>1, <2>2 DEF GetFile
<1>9. CASE SetDeletedFiles(e)
  <2>0. exp[e].pc = "list" /\ provider # "github"
    BY <1>9, HistFacts DEF SetDeletedFiles, At
  <2>1. CASE Fail(e)
    BY <1>1, <2>1, FailHist
  <2>2. CASE ~Fail(e)
    <3>1. PICK listed \in Page(Branch[d]) :
            Update(e, [exp[e] EXCEPT !.gone = listed \ exp[e].files, !.pc = "post"])
      BY <1>4, <1>9, <2>2 DEF SetDeletedFiles
    <3> DEFINE x == [exp[e] EXCEPT !.gone = listed \ exp[e].files, !.pc = "post"]
    <3>2. listed \ exp[e].files \subseteq Files
      BY <1>files DEF Page
    <3>3. /\ x \in Export /\ x.base = exp[e].base /\ x.made = exp[e].made /\ x.pc = "post"
          /\ x.dir = {d} /\ x.gone = listed \ exp[e].files /\ x.files = exp[e].files
      BY <1>2, <1>4, <3>2 DEF Export, Steps
    <3>4. Cardinality(Branch[d]) <= PageSize => listed = Branch[d]
      <4>1. Cardinality(Branch[d]) \in Nat
        BY <1>files, FilesAreFinite, FS_Subset, FS_CardinalityType
      <4> QED
        BY <4>1, PageSizeIsNat DEF Page
    <3> HIDE DEF x
    <3> QED
      BY <1>1, <1>3, <2>0, <3>1, <3>3, <3>4, HistFacts, QuietStep DEF x
  <2> QED
    BY <2>1, <2>2
<1> QED
  BY <1>5, <1>6, <1>7, <1>8, <1>9

LEMMA CreateCommitHist ==
    ASSUME Full, NEW e \in Exporters, CreateCommit(e) PROVE HistStep(e)
<1>1. UNCHANGED <<provider, onDefault, head, reported>> /\ exp[e].pc = "tree"
  BY DEF CreateCommit, At
<1>2. CASE Fail(e) /\ UNCHANGED commits
  BY <1>1, <1>2, FailHist
<1>3. CASE ~(Fail(e) /\ UNCHANGED commits)
  <2>1. PICK d \in exp[e].dir :
          /\ commits' = Append(commits,
               [parent |-> exp[e].base,
                tree |-> Overlay(commits[exp[e].base].tree, d, exp[e].files, exp[e].gone)])
          /\ Update(e, [exp[e] EXCEPT !.made = @ \cup {Len(commits) + 1}, !.pc = "ref"])
    BY <1>3 DEF CreateCommit
  <2> DEFINE base == commits[exp[e].base].tree
             tree == Overlay(base, d, exp[e].files, exp[e].gone)
             new == [parent |-> exp[e].base, tree |-> tree]
             n == Len(commits) + 1
             x == [exp[e] EXCEPT !.made = @ \cup {n}, !.pc = "ref"]
  <2>2. /\ exp[e] \in Export /\ exp[e].made \subseteq 1..Len(commits) /\ Len(commits) \in Nat
        /\ exp[e].base \in 1..Len(commits) /\ commits \in Seq(Commit) /\ head \in 1..Len(commits)
    BY <1>1, RowTyped, TypeFacts DEF Full, IInv, CommitsWait
  <2>3. exp[e].dir = {d} /\ d \in Contents
    BY <1>1, <2>1, HistFacts
  <2>4. base \in Tree /\ exp[e].files \in SUBSET Files
    <3>1. commits[exp[e].base] \in Commit
      BY <2>2, ElementOfSeq
    <3> QED
      BY <3>1, HistFacts DEF Commit
  <2>5. /\ new \in Commit /\ new.parent = exp[e].base
        /\ new.tree[d] = (base[d] \ exp[e].gone) \cup exp[e].files
    <3> HIDE DEF base
    <3>1. tree \in Tree /\ tree[d] = (base[d] \ exp[e].gone) \cup exp[e].files
      BY <2>3, <2>4, OverlayTyped DEF Overlay, Tree
    <3>2. exp[e].base \in 0..MaxCommits
      BY <2>2 DEF Export
    <3> HIDE DEF tree
    <3> QED
      BY <3>1, <3>2 DEF Commit
  <2>6. /\ x.base = exp[e].base /\ x.made = exp[e].made \cup {n} /\ x.pc = "ref"
        /\ x.dir = {d} /\ x.gone = exp[e].gone /\ x.files = exp[e].files
    BY <2>2, <2>3 DEF Export
  <2>7. Update(e, x) /\ commits' = Append(commits, new)
    BY <2>1
  <2> HIDE DEF base, tree, new, x
  <2>8. Grows /\ commits'[n] = new
    BY <1>1, <2>2, <2>5, <2>7, GrowsByCommit
  <2>9. exp'[e] = x /\ \A f \in Exporters : f # e => exp'[f] = exp[f]
    BY <2>7, RowIs
  <2>10. Latest(e)' = n
    <3>1. /\ n \in exp'[e].made /\ exp'[e].made \subseteq Nat
          /\ \A m \in exp'[e].made : m <= n
      BY <2>2, <2>6, <2>9
    <3>2. \A k \in exp'[e].made : (\A m \in exp'[e].made : m <= k) => k = n
      <4> SUFFICES ASSUME NEW k \in exp'[e].made, \A m \in exp'[e].made : m <= k PROVE k = n
        OBVIOUS
      <4>1. k <= n /\ n <= k /\ k \in Nat /\ n \in Nat
        BY <3>1
      <4> QED
        BY <4>1
    <3> QED
      BY <3>1, <3>2 DEF Latest
  <2>11. Settled(e)'
    <3>1. exp[e].made \subseteq Ancestors(head)
      BY <1>1, HistFacts
    <3> QED
      BY <2>6, <2>8, <2>9, <2>10, <3>1 DEF Settled, Grows
  <2>12. OneDir(e)' /\ OverBase(e)'
    <3>1. commits'[exp[e].base] = commits[exp[e].base]
      BY <2>2, <2>8 DEF Grows
    <3> QED
      BY <2>3, <2>5, <2>6, <2>8, <2>9, <2>10, <3>1 DEF OneDir, OverBase, base
  <2>13. SeesBranch(e)'
    <3>1. Branch' = Branch
      BY <1>1, <2>2, <2>8 DEF Branch, Grows
    <3>2. exp[e].base = head /\ onDefault => \A c \in exp[e].dir : exp[e].gone = Branch[c] \ exp[e].files
      BY <1>1 DEF Full, History, SeesBranch
    <3> QED
      BY <1>1, <2>3, <2>6, <2>9, <3>1, <3>2, HistFacts DEF SeesBranch
  <2>14. reported' \subseteq Ancestors(head)'
    BY <1>1, <2>8, HistFacts DEF Grows
  <2> QED
    BY <2>8, <2>9, <2>11, <2>12, <2>13, <2>14 DEF HistStep, Hist
<1> QED
  BY <1>2, <1>3

LEMMA UpdateBranchRefHist ==
    ASSUME Full, NEW e \in Exporters, UpdateBranchRef(e) PROVE HistStep(e)
<1>1. /\ UNCHANGED <<provider, onDefault, commits, reported>> /\ exp[e].pc = "ref" /\ Waiting(e)
  BY DEF UpdateBranchRef, At, Full, IInv, CommitsWait
<1>2. CASE Fail(e) /\ UNCHANGED head
  BY <1>1, <1>2, FailHist
<1>3. CASE ~(Fail(e) /\ UNCHANGED head)
  <2> DEFINE x == [exp[e] EXCEPT !.pc = "url"]
  <2>1. /\ head' = Latest(e) /\ Update(e, x) /\ commits[Latest(e)].parent = head
    BY <1>3 DEF UpdateBranchRef
  <2>2. /\ exp[e] \in Export /\ Latest(e) \in 1..Len(commits) /\ head \in 1..Len(commits)
        /\ Len(commits) \in Nat
    BY <1>1, RowTyped DEF Full, Waiting
  <2>3. x.base = exp[e].base /\ x.made = exp[e].made /\ x.pc = "url" /\ x.dir = exp[e].dir
    BY <2>2 DEF Export
  <2> HIDE DEF x
  <2>4. exp'[e] = x /\ \A f \in Exporters : f # e => exp'[f] = exp[f]
    BY <2>1, RowIs
  <2>5. head < Latest(e)
    BY <2>1, <2>2 DEF Full, History, ParentsAreOlder
  <2>6. Ancestors(head) \subseteq Ancestors(head)' /\ Latest(e) \in Ancestors(head)'
    <3>1. Ancestors(head)' = Ancestors(Latest(e))
      BY <1>1, <2>1 DEF Ancestors
    <3>2. Ancestors(commits[Latest(e)].parent) \subseteq Ancestors(Latest(e))
      BY <2>1, <2>2, AncestorsOfParent
    <3> QED
      BY <2>1, <2>2, <3>1, <3>2, OwnAncestor
  <2>7. Grows
    BY <1>1, <2>1, <2>2, <2>5, <2>6 DEF Grows, Full, History, ParentsAreOlder
  <2>8. Settled(e)'
    BY <2>3, <2>4, <2>6 DEF Full, History, Settled
  <2>9. OneDir(e)' /\ OverBase(e)'
    BY <1>1, <2>3, <2>4, HistFacts DEF OneDir, OverBase
  <2>10. SeesBranch(e)'
    <3>1. x.base <= head'
      <4>1. exp[e].base <= head /\ exp[e].base \in Nat
        BY <2>2, HistFacts DEF Export
      <4> QED
        BY <2>1, <2>2, <2>3, <2>5, <4>1
    <3> QED
      BY <2>3, <2>4, <3>1 DEF SeesBranch
  <2>11. reported' \subseteq Ancestors(head)'
    BY <1>1, <2>6, HistFacts
  <2> QED
    BY <2>4, <2>7, <2>8, <2>9, <2>10, <2>11 DEF HistStep, Hist
<1> QED
  BY <1>2, <1>3

LEMMA GetCommitHist ==
    ASSUME Full, NEW e \in Exporters, GetCommit(e) PROVE HistStep(e)
<1> DEFINE x == [NoExport EXCEPT !.pc = "next", !.todo = exp[e].todo, !.made = exp[e].made]
<1>1. /\ UNCHANGED <<provider, onDefault, commits, head, reported>> /\ exp[e].pc = "url"
      /\ Update(e, x)
  BY DEF GetCommit, Done, At
<1>2. x \in Export /\ x.base = 0 /\ x.made = exp[e].made /\ x.pc = "next"
  BY RowTyped, DoneTyped DEF Full
<1> HIDE DEF x
<1>3. /\ x.made \subseteq Ancestors(head) /\ x.base <= head /\ x.base # head
      /\ reported' \subseteq Ancestors(head)
  BY <1>1, <1>2, HistFacts
<1> QED
  BY <1>1, <1>2, <1>3, QuietStep

LEMMA PostCommitHist ==
    ASSUME Full, NEW e \in Exporters, PostCommit(e) PROVE HistStep(e)
<1>1. UNCHANGED <<provider, onDefault, reported>> /\ exp[e].pc = "post"
  BY DEF PostCommit, At
<1>2. CASE Fail(e) /\ UNCHANGED <<commits, head>>
  BY <1>1, <1>2, FailHist
<1>3. CASE ~(Fail(e) /\ UNCHANGED <<commits, head>>)
  <2>1. PICK d \in exp[e].dir :
          /\ Len(commits) < MaxCommits
          /\ commits' = Append(commits, [parent |-> head,
                                         tree |-> Overlay(Branch, d, exp[e].files, exp[e].gone)])
          /\ head' = Len(commits) + 1
          /\ Done(e, exp[e].made \cup {Len(commits) + 1})
    BY <1>3 DEF PostCommit
  <2> DEFINE new == [parent |-> head, tree |-> Overlay(Branch, d, exp[e].files, exp[e].gone)]
             n == Len(commits) + 1
             x == [NoExport EXCEPT !.pc = "next", !.todo = exp[e].todo, !.made = exp[e].made \cup {n}]
  <2>2. /\ exp[e] \in Export /\ Len(commits) \in Nat /\ head \in 1..Len(commits)
        /\ Branch \in Tree /\ head \in 0..MaxCommits
    BY RowTyped, TypeFacts DEF Full, IInv
  <2>3. new \in Commit /\ new.parent = head
    <3>1. d \in Contents /\ exp[e].files \in SUBSET Files
      BY <2>2 DEF Export
    <3> QED
      BY <2>2, <3>1, OverlayTyped DEF Commit
  <2>4. x.base = 0 /\ x.made = exp[e].made \cup {n} /\ x.pc = "next"
    BY DEF NoExport
  <2>5. Update(e, x) /\ commits' = Append(commits, new) /\ head' = n
    BY <2>1 DEF Done
  <2> HIDE DEF new, x
  <2>6. Grows
    BY <1>1, <2>2, <2>3, <2>5, GrowsByCommit
  <2>7. exp'[e] = x /\ \A f \in Exporters : f # e => exp'[f] = exp[f]
    BY <2>5, RowIs
  <2>8. n \in Ancestors(head)'
    <3>1. Len(commits') = n /\ n \in 1..Len(commits')
      BY <2>2, <2>3, <2>5, TypeFacts, AppendProperties DEF Full, IInv
    <3> QED
      BY <2>5, <3>1 DEF Ancestors
  <2>9. Settled(e)'
    <3>1. exp[e].made \subseteq Ancestors(head)
      BY <1>1, HistFacts
    <3> QED
      BY <2>4, <2>6, <2>7, <2>8, <3>1 DEF Settled, Grows
  <2>10. OneDir(e)' /\ OverBase(e)' /\ SeesBranch(e)'
    BY <2>2, <2>4, <2>5, <2>7 DEF OneDir, OverBase, SeesBranch
  <2>11. reported' \subseteq Ancestors(head)'
    BY <1>1, <2>6, HistFacts DEF Grows
  <2> QED
    BY <2>6, <2>7, <2>9, <2>10, <2>11 DEF HistStep, Hist
<1> QED
  BY <1>2, <1>3

LEMMA InitFull == Init => Full
<1> SUFFICES ASSUME Init PROVE Full
  OBVIOUS
<1>1. IInv
  BY InitIInv
<1>2. PICK t \in InitialTrees : commits = <<[parent |-> 0, tree |-> t]>>
  BY DEF Init
<1>3. Len(commits) = 1 /\ commits[1].parent = 0
  BY <1>2
<1>4. ParentsAreOlder
  BY <1>3 DEF ParentsAreOlder
<1>5. ASSUME NEW e \in Exporters PROVE Hist(e)
  <2>1. exp[e] = NoExport
    BY DEF Init
  <2> QED
    BY <2>1, NoExportTyped DEF Init, Hist, Settled, OneDir, SeesBranch, OverBase
<1> QED
  BY <1>1, <1>4, <1>5 DEF Init, Full, History, Hist

LEMMA StepFull == Full /\ [Next]_vars => Full'
<1> SUFFICES ASSUME Full, [Next]_vars PROVE Full'
  OBVIOUS
<1>1. IInv'
  BY StepIInv DEF Full
<1>2. ASSUME NEW e \in Exporters, HistStep(e) PROVE Full'
  <2>1. \A f \in Exporters : f # e => Hist(f)'
    BY <1>2, HistStays DEF HistStep
  <2> QED
    BY <1>1, <1>2, <2>1 DEF Full, History, HistStep, Hist, Grows
<1>3. CASE UNCHANGED <<provider, onDefault, commits, head, exp, reported>>
  <2>1. \A f \in Exporters : Hist(f)'
    BY <1>3, GrowsByNothing, HistStays
  <2>2. Ancestors(head)' = Ancestors(head)
    BY <1>3 DEF Ancestors
  <2> QED
    BY <1>1, <1>3, <2>1, <2>2 DEF Full, History, Hist, ParentsAreOlder
<1>4. ASSUME NEW e \in Exporters, Breaks(e) PROVE HistStep(e)
  BY <1>4, FailHist DEF Breaks
<1>5. ASSUME NEW d \in Contents, NEW S \in SUBSET Files, Edit(d, S) PROVE Full'
  BY <1>3, <1>5 DEF Edit
<1> QED
  BY <1>2, <1>3, <1>4, <1>5, StartHist, NextContentHist, ReadsHist, CreateCommitHist,
     UpdateBranchRefHist, GetCommitHist, PostCommitHist DEF Next, vars

LEMMA FullHolds == Init /\ [][Next]_vars => []Full
  BY InitFull, StepFull, PTL

\* A commit an administrator was told of is never lost from the branch: neither
\* provider lets an exporter move the branch to a commit that does not hold it.
THEOREM ReportedStays == Spec => []ReportedIsOnBranch
<1>1. Full => ReportedIsOnBranch
  BY DEF Full, History, ReportedIsOnBranch
<1> QED
  BY <1>1, FullHolds, PTL DEF Spec

LEMMA ExactStep ==
    ASSUME Full, [Next]_vars, NEW e \in Exporters, head' # head, exp'[e] # exp[e],
           exp[e].base = head, provider = "github" => onDefault,
           NEW d \in exp[e].dir, Cardinality(Branch[d]) <= PageSize \/ provider = "github"
    PROVE  Branch'[d] = exp[e].files
<1>0. onDefault
  BY DEF Full, History, IInv, Typed, TypeOK
<1>1. PICK f \in Exporters : UpdateBranchRef(f) \/ PostCommit(f)
  BY DEF Next, vars, Start, NextContent, ExportContent, Breaks, GetBranchSha, Lookup,
         CreateCommit, GetCommit, GetFile, SetDeletedFiles, Edit
<1>2. f = e
  BY <1>1 DEF UpdateBranchRef, PostCommit, Done, Fail, Update, Full, IInv, Typed, TypeOK
<1>3. CASE UpdateBranchRef(e)
  <2>1. head' = Latest(e) /\ commits' = commits /\ exp[e].pc = "ref"
    BY <1>3 DEF UpdateBranchRef, At
  <2>2. exp[e].gone = Branch[d] \ exp[e].files
    BY <1>0, <2>1 DEF Full, History, SeesBranch
  <2>3. commits[Latest(e)].tree[d] = (commits[exp[e].base].tree[d] \ exp[e].gone) \cup exp[e].files
    BY <2>1 DEF Full, History, OverBase
  <2> QED
    BY <2>1, <2>2, <2>3 DEF Branch
<1>4. CASE PostCommit(e)
  <2>1. PICK c \in exp[e].dir :
          /\ commits' = Append(commits, [parent |-> head,
                                         tree |-> Overlay(Branch, c, exp[e].files, exp[e].gone)])
          /\ head' = Len(commits) + 1
    BY <1>4 DEF PostCommit
  <2>2. exp[e].pc = "post"
    BY <1>4 DEF PostCommit, At
  <2>3. c = d /\ d \in Contents
    BY <2>1, <2>2, HistFacts
  <2>4. provider # "github" /\ exp[e].gone = Branch[d] \ exp[e].files
    BY <2>2 DEF Full, History, SeesBranch
  <2>5. Branch' = Overlay(Branch, d, exp[e].files, exp[e].gone)
    <3>1. commits \in Seq(Commit) /\ Len(commits) \in Nat
      BY TypeFacts DEF Full, IInv
    <3>2. commits'[head'] = [parent |-> head, tree |-> Overlay(Branch, d, exp[e].files, exp[e].gone)]
      BY <2>1, <2>3, <3>1
    <3> QED
      BY <3>2 DEF Branch
  <2> QED
    BY <2>3, <2>4, <2>5, TypeFacts DEF Overlay, Tree, Full, IInv
<1> QED
  BY <1>1, <1>2, <1>3, <1>4

\* Where nobody moved the branch since the export began, and the listing is that
\* of the branch and fits its page, the directory of the item holds the files of
\* the item and no other once the branch has moved.
THEOREM UndisturbedExportIsExact == Spec => ExportIsExact
<1>1. Full /\ [Next]_vars =>
        [\A e \in Exporters :
           /\ head' # head /\ exp'[e] # exp[e]
           /\ exp[e].base = head
           /\ provider = "github" => onDefault
           => \A d \in exp[e].dir :
                Cardinality(Branch[d]) <= PageSize \/ provider = "github"
                => Branch'[d] = exp[e].files]_vars
  BY ExactStep
<1> QED
  BY <1>1, FullHolds, PTL DEF Spec, ExportIsExact

\* update_branch_ref is taken as a fast-forward only: the branch that is moved is
\* the one whose head the exporter read, whoever exported in between.
LEMMA GitHubMovesItsBase ==
    ASSUME Full, [Next]_vars, NEW e \in Exporters, head' # head, exp'[e] # exp[e],
           provider = "github"
    PROVE  exp[e].base = head
<1>1. PICK f \in Exporters : UpdateBranchRef(f) \/ PostCommit(f)
  BY DEF Next, vars, Start, NextContent, ExportContent, Breaks, GetBranchSha, Lookup,
         CreateCommit, GetCommit, GetFile, SetDeletedFiles, Edit
<1>2. f = e
  BY <1>1 DEF UpdateBranchRef, PostCommit, Done, Fail, Update, Full, IInv, Typed, TypeOK
<1>3. ASSUME PostCommit(e) PROVE FALSE
  BY <1>3 DEF PostCommit, At, Full, History, Hist, SeesBranch
<1>4. exp[e].pc = "ref" /\ commits[Latest(e)].parent = head
  BY <1>1, <1>2, <1>3 DEF UpdateBranchRef, At
<1> QED
  BY <1>4 DEF Full, IInv, CommitsWait, Waiting

\* "Remove files from the tree that have been deleted from the CloudBolt content"
\* (utilities.py:800) is kept on the default branch, whatever others export or edit
\* meanwhile and without the condition of ExportIsExact on the base: that
\* get_tree_sha_from_path names no ref is all that breaks DeletedAreRemoved.
THEOREM DeletedGoOnDefaultBranch ==
    Spec => [][\A e \in Exporters :
                 provider = "github" /\ onDefault /\ head' # head /\ exp'[e] # exp[e]
                 => \A d \in exp[e].dir : Branch'[d] = exp[e].files]_vars
<1>1. Full /\ [Next]_vars =>
        [\A e \in Exporters :
           provider = "github" /\ onDefault /\ head' # head /\ exp'[e] # exp[e]
           => \A d \in exp[e].dir : Branch'[d] = exp[e].files]_vars
  BY GitHubMovesItsBase, ExactStep
<1> QED
  BY <1>1, FullHolds, PTL DEF Spec
=============================================================================
