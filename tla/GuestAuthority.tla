--------------------------- MODULE GuestAuthority ---------------------------
(***************************************************************************)
(* What the guest registry promises to the parts of the broker that work   *)
(* on a guest's behalf for longer than one request (the job and push       *)
(* workers, the review queue): an identity per guest name.                 *)
(*                                                                         *)
(*   instance  the durable incarnation of the name                         *)
(*   epoch     the version of its authority                                *)
(*   peers     the addresses it is authorized from; {} when it is not      *)
(*             approved or is killed                                       *)
(*   durable   whether containers.json holds the instance                  *)
(*                                                                         *)
(* The promise: whenever the instance or the peers of a guest that stays   *)
(* known change, its epoch is a UUID that was never used before, and a     *)
(* name that returns after a removal is a new incarnation.                 *)
(* GuestPolicy implements this specification.                              *)
(***************************************************************************)
EXTENDS Naturals

CONSTANTS Names, IPs

VARIABLES identity, stamp

Identity == [instance : Nat, epoch : Nat, peers : SUBSET IPs, durable : BOOLEAN]

\* An unknown name.
Absent == [instance |-> 0, epoch |-> 0, peers |-> {}, durable |-> FALSE]

\* async_identity(name, peer) returns (instance, epoch).
AsyncIdentity(n, peer, instance, epoch) ==
  /\ peer \in identity[n].peers
  /\ identity[n].instance = instance
  /\ identity[n].epoch = epoch

\* A known or new guest under a fresh epoch.
Renewed(i) ==
  [instance : {stamp}, epoch : {stamp}, peers : SUBSET IPs, durable : BOOLEAN]
    \cup IF i = Absent THEN {}
         ELSE [instance : {i.instance}, epoch : {stamp}, peers : SUBSET IPs,
               durable : {i.durable, TRUE}]

Successors(i) ==
  {i, Absent} \cup Renewed(i) \cup {[i EXCEPT !.durable = TRUE]}

\* A known guest after the broker restarted: a new epoch, the same authority,
\* and the same incarnation if the file held it.  A join request is forgotten.
Rebooted(i) ==
  IF i = Absent THEN {Absent}
  ELSE {[i EXCEPT !.epoch = stamp, !.instance = IF i.durable THEN @ ELSE stamp]}
         \cup IF ~i.durable /\ i.peers = {} THEN {Absent} ELSE {}

\* What a worker sees of the registry: one guest changes, by a transaction that
\* saves whom it authorizes, or the broker restarts.
Change(n) ==
  /\ \E i \in Renewed(identity[n]) \cup {Absent} :
        /\ i.peers # {} => i.durable
        /\ identity' = [identity EXCEPT ![n] = i]
  /\ stamp' = stamp + 1

Reboot ==
  /\ identity' \in [Names -> UNION {Rebooted(identity[n]) : n \in Names}]
  /\ \A n \in Names : identity'[n] \in Rebooted(identity[n])
  /\ stamp' = stamp + 1

AuthorityTypeOK ==
  /\ identity \in [Names -> Identity]
  /\ stamp \in Nat

AuthorityInit ==
  /\ identity \in [Names -> Identity]
  /\ stamp \in Nat
  /\ \A n \in Names : identity[n].instance < stamp /\ identity[n].epoch < stamp

\* The file is written again: incarnations become durable.
Persist ==
  /\ \A n \in Names : identity'[n] \in {identity[n], [identity[n] EXCEPT !.durable = TRUE]}
  /\ stamp' \in {stamp, stamp + 1}

Revise ==
  /\ \A n \in Names : identity'[n] \in Successors(identity[n])
  /\ stamp' = stamp + 1

AuthorityNext ==
  /\ identity' = [n \in Names |-> identity'[n]]
  /\ Persist \/ Revise

AuthoritySpec == AuthorityInit /\ [][AuthorityNext]_<<identity, stamp>>
=============================================================================
