--------------------------- MODULE MCClineEscrow ---------------------------
(***************************************************************************)
(* A small instance of ClineEscrow: one entry, one sign-in.                *)
(***************************************************************************)
EXTENDS ClineEscrow

CONSTANTS cline, other, account, k1

MCHosts == {cline, other}
MCNames == {account}
MCKeys == {k1}
MCPins == SUBSET MCHosts
MCFirst == {None}
=============================================================================
