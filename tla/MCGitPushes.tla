---------------------------- MODULE MCGitPushes ----------------------------
(***************************************************************************)
(* Small instances of GitPushes: one guest, and bundles of every kind the  *)
(* examination tells apart.                                                *)
(***************************************************************************)
EXTENDS GitPushes, TLC

CONSTANTS g1, ip1, k1

MCNames == {g1}
MCIPs == {ip1}
OneCredential == {k1}

Commit(parents, tree) == [parents |-> parents, tree |-> tree, plain |-> TRUE]

\* r0 and r1 are the main line, and the branch is first at side, beside r1, or
\* is not there.  The publications add c1 and c2 to r1, which is a rebase where
\* the branch is at side; c2 takes back a file of c1 and renames another.
MCHistory ==
  [r0 |-> Commit(<<>>, [a |-> "1"]),
   r1 |-> Commit(<<"r0">>, [a |-> "2"]),
   c1 |-> Commit(<<"r1">>, [a |-> "2", b |-> "3"]),
   c2 |-> Commit(<<"c1">>, [d |-> "2"]),
   side |-> Commit(<<"r0">>, [a |-> "4"]),
   merge |-> Commit(<<"c1", "side">>, [a |-> "2", b |-> "3"]),
   same |-> Commit(<<"r1">>, [a |-> "2"]),
   odd |-> [parents |-> <<"r1">>, tree |-> [a |-> "5"], plain |-> FALSE]]
MCPublished == {"r0", "r1"}

\* Others push an earlier feature or the very head of the publications.
MCOthers == {"side", "c2"}

Reference(oid) == [name |-> "branch", oid |-> oid]
Bundle(base, head, objects) ==
  [supported |-> TRUE, prerequisites |-> <<base>>, references |-> <<Reference(head)>>,
   objects |-> objects, base |-> base]
Good == Bundle("r1", "c2", {"c1", "c2", "3"})

MCBundles ==
  [good |-> Good,
   rewind |-> Bundle("r0", "side", {"side", "4"}),
   merge |-> Bundle("r1", "merge", {"merge", "c1", "side", "r0", "1", "3", "4"}),
   extra |-> Bundle("r1", "c1", {"c1", "3", "4"}),
   later |-> Bundle("c1", "c2", {"c2"}),
   missing |-> Bundle("r1", "c2", {"c2"}),
   nothing |-> Bundle("r1", "same", {"same"}),
   unrelated |-> Bundle("r1", "side", {"side", "r0", "1", "4"}),
   unreadable |-> Bundle("r1", "odd", {"odd", "5"}),
   two |-> [Good EXCEPT !.references = <<Reference("c2"), Reference("side")>>],
   disguised |-> [Good EXCEPT !.base = "r0"]]

\* First a bundle whose base the repository need not have yet, or one that is
\* refused, then a good one, with the head of the first.  And good ones alone.
EveryKind == <<{"later", "merge", "extra"}, {"good"}>>
GoodOnes == <<{"good"}, {"good"}>>
=============================================================================
