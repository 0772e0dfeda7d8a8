--------------------------- MODULE MCProxyRequest ---------------------------
(***************************************************************************)
(* A small instance of ProxyRequest: one entry that can be pinned to       *)
(* Cline's API, to GitHub's and to a third host, one sign-in, one static   *)
(* key, two requests and two identities of the commented node.             *)
(***************************************************************************)
EXTENDS ProxyRequest, TLC

CONSTANTS cline, github, staging, account, k1, r1, r2, here, there

MCHosts == {cline, github, staging}
MCNames == {account}
MCKeys == {k1}
MCFirstKeys == {0, k1}
MCRequests == {r1, r2}
MCCalls == {<<cline, "keys">>, <<staging, "write">>, <<github, "comment">>}
MCPins == {{github}, {staging}, {cline, staging}}
MCFirstHosts == {None, {github}, {cline, staging}}
MCTargets == {here, there}
Symmetry == Permutations(MCRequests) \cup Permutations(MCTargets)
=============================================================================
