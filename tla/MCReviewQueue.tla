--------------------------- MODULE MCReviewQueue ---------------------------
(***************************************************************************)
(* Small instances of ReviewQueue: two requests of one guest.              *)
(***************************************************************************)
EXTENDS ReviewQueue

CONSTANTS g1, ip1, r1, r2

MCNames == {g1}
MCIPs == {ip1}
MCRequests == {r1, r2}
=============================================================================
