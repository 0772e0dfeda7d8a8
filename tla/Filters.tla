------------------------------ MODULE Filters ------------------------------
(***************************************************************************)
(* Filtering a sequence by index, as the iterators of the code do          *)
(* (operation_summaries and Review::facts in src/src/graphql.rs,           *)
(* resolve_display in src/src/github.rs).                                  *)
(***************************************************************************)
EXTENDS Naturals, Sequences

\* The members of a sequence at some of its indices, in their order.
Keep(c, indices) ==
  LET upTo[i \in Nat] ==
        IF i = 0 THEN <<>>
        ELSE IF i \in indices THEN Append(upTo[i - 1], c[i]) ELSE upTo[i - 1]
  IN upTo[Len(c)]
=============================================================================
