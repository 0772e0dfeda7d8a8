----------------------------- MODULE PushBundle -----------------------------
(***************************************************************************)
(* The bundle of a Git publication and the review the broker derives from  *)
(* it (prepare_remote in src/src/pushes.rs): the header, the import into   *)
(* an isolated repository that holds nothing but the prerequisite, the     *)
(* checks on what was imported, and the commits and files shown.           *)
(*                                                                         *)
(* Objects are commits and contents; a commit has its tree.  Git is        *)
(* external: its commands answer from the history, and fail at any time.   *)
(* A bundle is [supported, prerequisites, references, objects, base]: the  *)
(* version, the header's lines, the objects in it, and the base the guest  *)
(* submits with it.                                                        *)
(***************************************************************************)
EXTENDS Naturals, Sequences, FiniteSets

CONSTANTS
  None,
  History,     \* commit -> [parents, tree, plain], in the repository or in a bundle
  Published,   \* commits the repository has at first
  Bundles,     \* name -> bundle
  MaxCommits,  \* MAX_COMMITS
  MaxFiles,    \* MAX_FILES
  MaxObjects   \* MAX_OBJECTS

Commits == DOMAIN History

ASSUME BundleAssumption ==
  /\ {MaxCommits, MaxFiles, MaxObjects} \subseteq Nat
  /\ None \notin Commits

Elems(s) == {s[i] : i \in DOMAIN s}

\* A commit is named by a hash of what it holds, its parents' names included:
\* no commit is among its own ancestors.  A repository has the parents of its
\* commits.
ASSUME HistoryAssumption ==
  /\ IsFiniteSet(Commits)
  /\ \A c \in Commits : Elems(History[c].parents) \subseteq Commits
  /\ \A S \in SUBSET Commits \ {{}} : \E c \in S : Elems(History[c].parents) \cap S = {}
  /\ Published \subseteq Commits
  /\ \A c \in Published : Elems(History[c].parents) \subseteq Published

-----------------------------------------------------------------------------
(* Git *)

\* Commits that can be reached from one, not going beyond those in stop: the
\* least set that holds it and the parents of what it holds.
Reach(commit, stop) ==
  LET closed == {S \in SUBSET Commits :
                   commit \in S /\ \A c \in S \ stop : Elems(History[c].parents) \subseteq S}
  IN {c \in Commits : \A S \in closed : c \in S}

Contents(c) == {History[c].tree[path] : path \in DOMAIN History[c].tree}
ObjectsOf(C) == C \cup UNION {Contents(c) : c \in C}

\* A fetch with depth 1 has the commit and its tree.
Baseline(base) == ObjectsOf({base})

\* rev-list base..head: the repository is shallow at base.
RevList(base, head) == Reach(head, {base}) \ {base}

\* An import leaves no object unresolved (fsck, connectivity).
Complete(base, head, objects) ==
  ObjectsOf(RevList(base, head)) \subseteq Baseline(base) \cup objects

IsAncestor(base, head) == base \in Reach(head, {base})

\* How a commit changes its parent's tree; a file with the content of one that
\* goes is a rename of it.
Changes(commit, parent) ==
  LET old == History[parent].tree
      new == History[commit].tree
      added == DOMAIN new \ DOMAIN old
      gone == DOMAIN old \ DOMAIN new
      renames == {r \in gone \X added : old[r[1]] = new[r[2]]}
      entry(status, path, from) ==
        [commit |-> commit, status |-> status, path |-> path, old |-> from]
  IN {entry("R", r[2], r[1]) : r \in renames}
     \cup {entry("A", q, None) : q \in added \ {r[2] : r \in renames}}
     \cup {entry("D", p, None) : p \in gone \ {r[1] : r \in renames}}
     \cup {entry("M", p, None) : p \in {x \in DOMAIN old \cap DOMAIN new : old[x] # new[x]}}

-----------------------------------------------------------------------------
(* The review *)

\* read_bundle_header: one prerequisite, and one reference, the branch.
BundleHeader(b) ==
  IF /\ b.supported
     /\ Len(b.prerequisites) = 1
     /\ Len(b.references) = 1
     /\ b.references[1].name = "branch"
  THEN [base |-> b.prerequisites[1], head |-> b.references[1].oid] ELSE None

\* validate_objects: nothing came along that is not of the reviewed history.
ValidateObjects(base, head, objects) ==
  LET new == objects \ Baseline(base)
  IN new \subseteq ObjectsOf(RevList(base, head)) /\ Cardinality(new) <= MaxObjects

\* commits: each has the one before it as its only parent, and its texts can be
\* reviewed faithfully.  rev-list may list unrelated commits in any order.
Linear(listing, base) ==
  \A i \in DOMAIN listing :
    /\ History[listing[i]].parents = <<IF i = 1 THEN base ELSE listing[i - 1]>>
    /\ History[listing[i]].plain

CommitsReview(base, head) ==
  LET range == RevList(base, head)
      listings == {s \in [1 .. Cardinality(range) -> range] : Elems(s) = range}
      linear == {s \in listings : Linear(s, base)}
  IN IF range = {} \/ Cardinality(range) > MaxCommits \/ linear = {} THEN None
     ELSE CHOOSE s \in linear : TRUE

\* Mutant of ChangedFiles: from the base to the head in one step.
ChangedFilesNet(commits) ==
  IF commits = <<>> THEN {}
  ELSE Changes(commits[Len(commits)], History[commits[1]].parents[1])

\* changed_files: commit by commit.
ChangedFiles(commits) ==
  UNION {Changes(commits[i], History[commits[i]].parents[1]) : i \in DOMAIN commits}

\* prepare_remote, with the repository's branch already looked at and the base
\* fetched from it.
Examine(b) ==
  LET header == BundleHeader(b)
      base == header.base
      head == header.head
      imported == /\ header # None
                  /\ b.base = base
                  /\ head \in b.objects \cap Commits
                  /\ Complete(base, head, b.objects)
                  /\ base # head
                  /\ IsAncestor(base, head)
                  /\ ValidateObjects(base, head, b.objects)
      commits == CommitsReview(base, head)
      files == ChangedFiles(commits)
  IN IF ~imported THEN None
     ELSE IF commits = None THEN None
     ELSE IF files = {} \/ Cardinality(files) > MaxFiles THEN None
     ELSE [base |-> base, head |-> head, commits |-> commits, files |-> files]

\* The review of each bundle.
Examined == [name \in DOMAIN Bundles |-> Examine(Bundles[name])]

-----------------------------------------------------------------------------
(* What a push of a bundle brings, whatever was reviewed *)

\* The whole ancestry of a commit.
Ancestry == [commit \in Commits |-> Reach(commit, {})]

\* The commits of a branch, by its tip; None is a branch that is not there.
Below(tip) == IF tip = None THEN {} ELSE Ancestry[tip]

\* A review shows a bundle, to be pushed over a tip to a repository with the
\* given commits, if
\*   - what the branch gains is listed, or is below the base that is displayed,
\*     where the repository has it already: nothing new goes unlisted;
\*   - nothing is listed that is not new over the base;
\*   - each path whose content a listed commit changes is listed with it;
\*   - the bundle has no object besides.
Shows(review, b, tip, repository) ==
  LET head == b.references[1].oid
      listed == Elems(review.commits)
      touched(c, p) ==
        {path \in DOMAIN History[c].tree \cup DOMAIN History[p].tree :
           ~(/\ path \in DOMAIN History[c].tree /\ path \in DOMAIN History[p].tree
             /\ History[c].tree[path] = History[p].tree[path])}
      paths(c) == {f.path : f \in {g \in review.files : g.commit = c}}
                    \cup {f.old : f \in {g \in review.files : g.commit = c}}
  IN /\ review.head = head
     /\ Below(head) \ Below(tip) \subseteq listed \cup (Below(review.base) \cap repository)
     /\ listed \subseteq Below(head) \ Below(review.base)
     /\ \A c \in listed : \A p \in Elems(History[c].parents) : touched(c, p) \subseteq paths(c)
     /\ b.objects \subseteq ObjectsOf(listed \cup {review.base})
=============================================================================
