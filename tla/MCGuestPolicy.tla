--------------------------- MODULE MCGuestPolicy ---------------------------
(***************************************************************************)
(* Instances of GuestPolicy for TLC.  The first boot finds the file of an  *)
(* older release: a pinned, approved guest that has no instance UUID, and  *)
(* a guest without approval that holds the same pin.                       *)
(***************************************************************************)
EXTENDS GuestPolicy, TLC

CONSTANTS g1, g2, ip1, ip2

MCNames == {g1, g2}
MCIPs == {ip1, ip2}

LegacyDisk ==
  g1 :> [instance |-> None, approved |-> TRUE, killed |-> FALSE, pinned_ip |-> ip1,
         comment_permissions |-> {}, cline_access |-> "Basic"]
    @@ g2 :> [instance |-> 0, approved |-> FALSE, killed |-> FALSE, pinned_ip |-> ip1,
              comment_permissions |-> {}, cline_access |-> "Basic"]
=============================================================================
