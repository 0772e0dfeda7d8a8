---------------------------- MODULE MCAsyncJobs ----------------------------
(***************************************************************************)
(* Small instances of AsyncJobs: one guest, one address, and as many jobs  *)
(* as the store's limits need to bite.                                     *)
(***************************************************************************)
EXTENDS AsyncJobs

CONSTANTS g1, ip1, k1

MCNames == {g1}
MCIPs == {ip1}
OneCredential == {k1}
=============================================================================
