-------------------------- MODULE MCDisplayTargets --------------------------
(***************************************************************************)
(* A small instance of DisplayTargets: two reviews that share a node under *)
(* its old and its new ID, one of them with a target of the wrong type,    *)
(* and two pages.                                                          *)
(***************************************************************************)
EXTENDS DisplayTargets, TLC

CONSTANTS v1, v2, r1, r2, e1, s1, s2

MCReviews == {v1, v2}
MCReaders == {r1, r2}
Of(id, type) == [id |-> id, type |-> type]
MCTargetsOf ==
  v1 :> <<Of("old", "PullRequest")>>
    @@ v2 :> <<Of("new", "Node (unknown type)"), Of("new", "Issue")>>
MCEntries == {e1}
MCPresented == v1 :> "fake" @@ v2 :> "fake"
MCFakeOf == e1 :> "fake"
MCSecrets == {s1, s2}
MCNodeOf == [id \in {"old", "new"} |-> "new"]

\* A pull request that moves from one repository to another, also half-way.
Node(repository, urlOf) ==
  [kind |-> "PullRequest", repository |-> repository, number |-> 1,
   url |-> <<urlOf, "pull", 1>>]
MCSnapshots == "new" :> <<Node("a", "a"), Node("b", "a"), Node("b", "b")>>

Symmetry == Permutations(MCReaders) \cup Permutations(MCSecrets)
=============================================================================
