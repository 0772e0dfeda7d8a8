---------------------------- MODULE MCMcpForwards ----------------------------
(***************************************************************************)
(* A small instance of McpForwards: a forward that can move between two    *)
(* upstreams, two messages, two logins and three Session objects.          *)
(***************************************************************************)
EXTENDS McpForwards, TLC

CONSTANTS linear, here, there, r1, r2, l1, l2, guest, tool, read

MCNames == {linear}
MCUrls == {here, there}
MCRequests == {r1, r2}
MCLogins == {l1, l2}
MCSessions == 1 .. 3
MCScopes == {read}
Only(url, oauth, guests) ==
  [n \in MCNames |-> [url |-> url, oauth |-> oauth, cline |-> ~oauth, scope |-> read,
                      tools |-> {tool}, guests |-> guests]]
MCFirstFiles == {Only(here, TRUE, {guest}), Only(here, FALSE, {guest})}
MCFiles ==
  MCFirstFiles \cup
  {Only(there, TRUE, {guest}), Only(here, TRUE, {}), [n \in MCNames |-> None]}
Symmetry == Permutations(MCRequests) \cup Permutations(MCLogins)
=============================================================================
