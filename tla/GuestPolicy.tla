---------------------------- MODULE GuestPolicy ----------------------------
(***************************************************************************)
(* The guest registry of the broker (src/src/state.rs): which guest names  *)
(* exist, which are approved, killed or pinned to an address, and the      *)
(* durable policy file containers.json.                                    *)
(*                                                                         *)
(* Every policy writer goes through one transaction, update_policy: edit a *)
(* copy, write the file, refresh the epoch of each guest whose authority   *)
(* changed, publish the copy.  A failed write or a refused edit changes    *)
(* nothing (a stuttering step here); a crash after the file was renamed    *)
(* and before the copy was published is modelled, the broker then restarts *)
(* from the new file.                                                      *)
(*                                                                         *)
(* Request handlers capture a guest's identity (review_epoch and           *)
(* async_identity), await a body or a decision, and are admitted later     *)
(* (admit_request, with_async_identity).                                   *)
(*                                                                         *)
(* UUIDs.  A UUID is the number of the step that minted it.  The code only *)
(* compares two UUIDs of one guest name and one field, and one step mints  *)
(* at most one such value, so equality is what the code would see.         *)
(***************************************************************************)
EXTENDS Naturals, FiniteSets

CONSTANTS
  Names,        \* guest labels
  IPs,          \* source addresses
  Targets,      \* GitHub issues or pull requests a comment grant can name
  Bindings,     \* escrow credentials a comment grant is bound to
  Handlers,     \* concurrent request handlers
  None,         \* the code's Option::None
  InitialDisk,  \* containers.json as the first boot finds it
  MaxStamp,     \* bound on the number of steps that mint UUIDs
  MaxGrants     \* comment permissions per guest (32 in the code)

VARIABLES
  containers,   \* name -> record, the in-memory registry
  killed,       \* names under the kill switch
  disk,         \* name -> saved record, the content of containers.json
  stamp,        \* the next UUID
  work,         \* handler -> the identity it holds
  stale         \* history: handlers whose guest's authority changed since capture

policyVars == <<containers, killed, disk, stamp>>
vars == <<containers, killed, disk, stamp, work, stale>>

ClineAccess == {"Basic", "Full"}
Verdicts == {"Allowed", "Pending", "IpMismatch"}

Grant == [id : Nat, target : Targets, binding : Bindings]

ContainerRecord ==
  [approved : BOOLEAN, pinned_ip : IPs \cup {None}, last_ip : IPs \cup {None},
   managed : BOOLEAN, policy_epoch : Nat, instance : Nat,
   comment_permissions : SUBSET Grant, comment_revision : Nat,
   cline_access : ClineAccess]

SavedContainer ==
  [instance : Nat \cup {None}, approved : BOOLEAN, killed : BOOLEAN,
   pinned_ip : IPs \cup {None}, comment_permissions : SUBSET Grant,
   cline_access : ClineAccess]

\* A partial function over Names with values in R.
Registry(f, R) ==
  /\ DOMAIN f \subseteq Names
  /\ f = [n \in DOMAIN f |-> f[n]]
  /\ \A n \in DOMAIN f : f[n] \in R

(***************************************************************************)
(* The file of the first boot may come from an older release or an editor: *)
(* it can miss the instance UUIDs (None), and two of its guests may hold   *)
(* one pin, which load does not check.  Its UUIDs predate the first step.  *)
(***************************************************************************)
ASSUME ConstantsAssumption ==
  /\ None \notin IPs /\ None \notin Names /\ None \notin Nat
  /\ MaxStamp \in Nat /\ MaxGrants \in Nat

ASSUME InitialDiskAssumption ==
  /\ Registry(InitialDisk, SavedContainer)
  /\ \A n \in DOMAIN InitialDisk :
        /\ InitialDisk[n].instance \in {0, None}
        /\ \A g \in InitialDisk[n].comment_permissions : g.id = 0

-----------------------------------------------------------------------------
(* The durable projection and its inverse *)

\* Mutant of Fresh: the incarnation is left at its default instead of minted.
FreshNilInstance(s) ==
  [approved |-> FALSE, pinned_ip |-> None, last_ip |-> None, managed |-> FALSE,
   policy_epoch |-> s, instance |-> 0, comment_permissions |-> {},
   comment_revision |-> s, cline_access |-> "Basic"]

\* ContainerRecord::default: a join request, with UUIDs minted by step s.
Fresh(s) ==
  [approved |-> FALSE, pinned_ip |-> None, last_ip |-> None, managed |-> FALSE,
   policy_epoch |-> s, instance |-> s, comment_permissions |-> {},
   comment_revision |-> s, cline_access |-> "Basic"]

\* What update_policy writes: managed entries only, observations left out.
Saved(C, K) ==
  [n \in {m \in DOMAIN C : C[m].managed} |->
     [instance |-> C[n].instance, approved |-> C[n].approved, killed |-> n \in K,
      pinned_ip |-> C[n].pinned_ip, comment_permissions |-> C[n].comment_permissions,
      cline_access |-> C[n].cline_access]]

\* What load restores: host decisions, with a new epoch and revision.
Loaded(d, s) ==
  [n \in DOMAIN d |->
     [Fresh(s) EXCEPT !.approved = d[n].approved, !.pinned_ip = d[n].pinned_ip,
                      !.managed = TRUE,
                      !.instance = IF d[n].instance = None THEN s ELSE d[n].instance,
                      !.comment_permissions = d[n].comment_permissions,
                      !.cline_access = d[n].cline_access]]

LoadedKills(d) == {n \in DOMAIN d : d[n].killed}

IdleWork == [phase |-> "idle", name |-> None, peer |-> None, instance |-> 0, epoch |-> 0]

Work ==
  [phase : {"idle", "held", "admitted", "refused"}, name : Names \cup {None},
   peer : IPs \cup {None}, instance : Nat, epoch : Nat]

TypeOK ==
  /\ Registry(containers, ContainerRecord)
  /\ killed \subseteq Names
  /\ Registry(disk, SavedContainer)
  /\ stamp \in Nat
  /\ work \in [Handlers -> Work]
  /\ stale \subseteq Handlers

Boot(d) ==
  /\ containers' = Loaded(d, stamp)
  /\ killed' = LoadedKills(d)
  /\ stamp' = stamp + 1
  /\ work' = [h \in Handlers |-> IdleWork]

\* The first boot mints its UUIDs as step 1.
Init ==
  /\ disk = InitialDisk
  /\ stamp = 2
  /\ containers = Loaded(InitialDisk, 1)
  /\ killed = LoadedKills(InitialDisk)
  /\ work = [h \in Handlers |-> IdleWork]
  /\ stale = {}

-----------------------------------------------------------------------------
(* The policy transaction *)

\* Mutant of Changed: a new pin alone leaves the epoch as it was.
ChangedIgnoringPin(C, K) ==
  {n \in DOMAIN containers :
     \/ n \notin DOMAIN C
     \/ C[n].approved # containers[n].approved
     \/ (n \in K) # (n \in killed)}

\* Guests whose approval, pin or kill the edit (C, K) changes, or that it removes.
Changed(C, K) ==
  {n \in DOMAIN containers :
     \/ n \notin DOMAIN C
     \/ C[n].approved # containers[n].approved
     \/ C[n].pinned_ip # containers[n].pinned_ip
     \/ (n \in K) # (n \in killed)}

RefreshEpochs(C, K) ==
  [n \in DOMAIN C |-> IF n \in Changed(C, K)
                      THEN [C[n] EXCEPT !.policy_epoch = stamp] ELSE C[n]]

\* update_policy after its closure accepted: the file first, then either the
\* publication of the edit or a crash that a restart from that file follows.
UpdatePolicy(C, K) ==
  /\ stamp < MaxStamp
  /\ disk' = Saved(C, K)
  /\ \/ /\ containers' = RefreshEpochs(C, K)
        /\ killed' = K
        /\ stamp' = stamp + 1
        /\ UNCHANGED work
     \/ Boot(disk')

\* The registry with an entry for n, as HashMap::entry(n).or_default() leaves it.
WithEntry(C, n) ==
  [m \in DOMAIN C \cup {n} |-> IF m \in DOMAIN C THEN C[m] ELSE Fresh(stamp)]

\* Mutant of PinFree: only approved guests are asked.
PinFreeAmongApproved(n, ip) ==
  ip # None => \A m \in DOMAIN containers \ {n} :
                 containers[m].approved => containers[m].pinned_ip # ip

\* check_unique_pin: no other guest holds the address.
PinFree(n, ip) ==
  ip # None => \A m \in DOMAIN containers \ {n} : containers[m].pinned_ip # ip

\* Mutant of Relinquish: the old owner loses its address but stays approved.
RelinquishPinOnly(C, n, ip) ==
  [m \in DOMAIN C |->
     IF m # n /\ ip # None /\ C[m].pinned_ip = ip
     THEN [C[m] EXCEPT !.pinned_ip = None, !.last_ip = None, !.managed = TRUE]
     ELSE C[m]]

\* An explicit address is taken from its owner, whose approval goes with it.
Relinquish(C, n, ip) ==
  [m \in DOMAIN C |->
     IF m # n /\ ip # None /\ C[m].pinned_ip = ip
     THEN [C[m] EXCEPT !.pinned_ip = None, !.last_ip = None, !.approved = FALSE,
                          !.managed = TRUE]
     ELSE C[m]]

AddContainer(n, ip) ==
  LET C == WithEntry(Relinquish(containers, n, ip), n)
  IN UpdatePolicy([C EXCEPT ![n].approved = TRUE, ![n].managed = TRUE,
                            ![n].pinned_ip = IF ip = None THEN @ ELSE ip], killed)

ApproveContainer(n, pinToLastIp) ==
  LET pin == IF pinToLastIp THEN containers[n].last_ip ELSE None
  IN /\ n \in DOMAIN containers
     /\ pinToLastIp => containers[n].last_ip # None
     /\ PinFree(n, pin)
     /\ UpdatePolicy([containers EXCEPT ![n].approved = TRUE, ![n].managed = TRUE,
                                        ![n].pinned_ip = IF pin = None THEN @ ELSE pin],
                     killed)

SetPinnedIp(n, ip) ==
  /\ n \in DOMAIN containers
  /\ PinFree(n, ip)
  /\ UpdatePolicy([containers EXCEPT ![n].pinned_ip = ip, ![n].managed = TRUE], killed)

RemoveContainer(n) ==
  UpdatePolicy([m \in DOMAIN containers \ {n} |-> containers[m]], killed \ {n})

ResetContainers ==
  UpdatePolicy([m \in {} |-> Fresh(stamp)], {})

\* Mutant of SetKilled: a join request that is killed does not become managed.
SetKilledUnmanaged(n, kill) ==
  UpdatePolicy(WithEntry(containers, n), IF kill THEN killed \cup {n} ELSE killed \ {n})

SetKilled(n, kill) ==
  UpdatePolicy([WithEntry(containers, n) EXCEPT ![n].managed = TRUE],
               IF kill THEN killed \cup {n} ELSE killed \ {n})

SetClineAccess(n, access) ==
  /\ n \in DOMAIN containers
  /\ UpdatePolicy([containers EXCEPT ![n].cline_access = access, ![n].managed = TRUE],
                  killed)

\* The host saves a grant reviewed under the context (epoch, revision).
AddCommentPermission(n, epoch, revision, t, b) ==
  /\ n \in DOMAIN containers
  /\ containers[n].approved
  /\ n \notin killed
  /\ containers[n].policy_epoch = epoch
  /\ containers[n].comment_revision = revision
  /\ Cardinality(containers[n].comment_permissions) < MaxGrants
  /\ UpdatePolicy([containers EXCEPT
        ![n].comment_permissions = {g \in @ : ~(g.target = t /\ g.binding = b)}
                                     \cup {[id |-> stamp, target |-> t, binding |-> b]},
        ![n].comment_revision = stamp, ![n].managed = TRUE], killed)

RevokeCommentPermission(n, id) ==
  /\ n \in DOMAIN containers
  /\ \E g \in containers[n].comment_permissions : g.id = id
  /\ UpdatePolicy([containers EXCEPT
        ![n].comment_permissions = {g \in @ : g.id # id},
        ![n].comment_revision = stamp], killed)

\* persist_guest_identity: the empty edit, which writes the file again.
PersistGuestIdentity ==
  UpdatePolicy(containers, killed)

\* The process stops at any other moment and load reads the file.
Restart ==
  /\ stamp < MaxStamp
  /\ Boot(disk)
  /\ UNCHANGED disk

-----------------------------------------------------------------------------
(* Guest traffic: the gate in front of every policy *)

PinnedTo(peer) == {n \in DOMAIN containers : containers[n].pinned_ip = peer}

PendingAt(peer) ==
  {n \in DOMAIN containers : ~containers[n].approved /\ containers[n].last_ip = peer}

\* touch_container: an unknown name becomes a join request; peer is None when
\* the caller (record) does not know the address.
Touch(n, peer) ==
  /\ n \notin DOMAIN containers => stamp < MaxStamp
  /\ containers' = [WithEntry(containers, n) EXCEPT
                      ![n].last_ip = IF peer = None THEN @ ELSE peer]
  /\ stamp' = IF n \in DOMAIN containers THEN stamp ELSE stamp + 1
  /\ UNCHANGED <<killed, disk, work>>

\* authorize's verdict for a name seen from an address.
Verdict(n, peer) ==
  CASE n \notin DOMAIN containers \/ ~containers[n].approved -> "Pending"
    [] containers[n].pinned_ip \notin {None, peer}           -> "IpMismatch"
    [] OTHER                                                 -> "Allowed"

\* Names authorize_proxy_peer may resolve a connection to; presented is the
\* legacy proxy user name, or None.  Empty: the connection is refused.
ProxyNames(peer, presented) ==
  IF presented # None
  THEN IF PinnedTo(peer) \subseteq {presented} THEN {presented} ELSE {}
  ELSE LET owners == IF PinnedTo(peer) # {} THEN PinnedTo(peer) ELSE PendingAt(peer)
       IN IF Cardinality(owners) = 1 THEN owners ELSE {}

\* The verdict, after the rule that credential-free traffic needs an explicit
\* pin (an approved wildcard guest is refused with an error).
ProxyVerdict(n, peer, presented) ==
  IF presented = None /\ Verdict(n, peer) = "Allowed" /\ containers[n].pinned_ip # peer
  THEN "Refused"
  ELSE Verdict(n, peer)

AuthorizeProxyPeer(peer, presented) ==
  \E n \in ProxyNames(peer, presented) : Touch(n, peer)

\* record: a log row touches its guest, which a removal may have deleted since
\* the handler was authorized.
Record(n) == Touch(n, None)

\* announce_guest: a unique pin decides the name, whatever name was requested.
AnnounceGuest(requested, peer) ==
  LET owners == PinnedTo(peer)
  IN \/ owners = {} /\ Touch(requested, peer)
     \/ Cardinality(owners) = 1 /\ \E n \in owners : Touch(n, peer)

\* The test shared by review_epoch, async_identity and every admission.
Authorized(n, peer) ==
  /\ n \in DOMAIN containers
  /\ containers[n].approved
  /\ n \notin killed
  /\ containers[n].pinned_ip \in {None, peer}

\* review_epoch and async_identity: a handler takes down whom it works for.
Hold(h, n, peer) ==
  /\ work[h].phase = "idle"
  /\ Authorized(n, peer)
  /\ work' = [work EXCEPT ![h] =
       [phase |-> "held", name |-> n, peer |-> peer,
        instance |-> containers[n].instance, epoch |-> containers[n].policy_epoch]]
  /\ UNCHANGED policyVars

\* admit_request and with_async_identity: the same test, and the epoch.
Admissible(w) ==
  /\ Authorized(w.name, w.peer)
  /\ containers[w.name].policy_epoch = w.epoch

AdmitRequest(h) ==
  /\ work[h].phase = "held"
  /\ work' = [work EXCEPT ![h].phase = IF Admissible(work[h]) THEN "admitted" ELSE "refused"]
  /\ UNCHANGED policyVars

-----------------------------------------------------------------------------
(* The specification *)

\* History: this step changed what guest n is allowed, or removed it.
AuthorityChanged(n) ==
  /\ n \in DOMAIN containers
  /\ \/ n \notin DOMAIN containers'
     \/ containers'[n].approved # containers[n].approved
     \/ containers'[n].pinned_ip # containers[n].pinned_ip
     \/ containers'[n].instance # containers[n].instance
     \/ (n \in killed') # (n \in killed)

RecordStale ==
  stale' = {h \in Handlers : /\ work'[h].phase # "idle"
                             /\ \/ h \in stale
                                \/ work[h].phase = "held" /\ AuthorityChanged(work[h].name)}

PolicyStep ==
  \/ \E n \in Names : \/ \E ip \in IPs \cup {None} : AddContainer(n, ip) \/ SetPinnedIp(n, ip)
                      \/ \E pin \in BOOLEAN : ApproveContainer(n, pin)
                      \/ RemoveContainer(n)
                      \/ \E kill \in BOOLEAN : SetKilled(n, kill)
                      \/ \E access \in ClineAccess : SetClineAccess(n, access)
  \/ \E n \in DOMAIN containers :
        \/ \E t \in Targets, b \in Bindings :
              AddCommentPermission(n, containers[n].policy_epoch,
                                   containers[n].comment_revision, t, b)
        \/ \E g \in containers[n].comment_permissions : RevokeCommentPermission(n, g.id)
  \/ ResetContainers
  \/ PersistGuestIdentity
  \/ Restart

TrafficStep ==
  \/ \E peer \in IPs, presented \in Names \cup {None} : AuthorizeProxyPeer(peer, presented)
  \/ \E n \in Names, peer \in IPs : AnnounceGuest(n, peer)
  \/ \E n \in Names : Record(n)

HandlerStep ==
  \E h \in Handlers : \/ \E n \in Names, peer \in IPs : Hold(h, n, peer)
                      \/ AdmitRequest(h)

Next ==
  /\ PolicyStep \/ TrafficStep \/ HandlerStep
  /\ RecordStale

Spec == Init /\ [][Next]_vars

-----------------------------------------------------------------------------
(* Properties *)

\* Two guests hold one pin in registry g only if they held it in f already.
SharesNoNewPin(f, g) ==
  \A m, n \in DOMAIN g :
    m # n /\ g[m].pinned_ip = g[n].pinned_ip /\ g[m].pinned_ip # None =>
      /\ {m, n} \subseteq DOMAIN f
      /\ f[m].pinned_ip = g[m].pinned_ip
      /\ f[n].pinned_ip = g[n].pinned_ip

(***************************************************************************)
(* No step makes two guests share a pin: registration takes the address    *)
(* from all its owners (add_container), approval and pinning refuse a      *)
(* taken one (check_unique_pin), a restart restores what was there.  Only  *)
(* the first file can hold a shared pin; announce_guest and                *)
(* authorize_proxy_peer, which identify a guest by its pin, refuse it.     *)
(***************************************************************************)
UniquePins == [][SharesNoNewPin(containers, containers')]_vars

(***************************************************************************)
(* containers.json always holds every host decision in force: each guest   *)
(* that is approved, pinned, killed or holds a grant is a managed entry,   *)
(* and the file's entry agrees with memory (an instance the first file     *)
(* lacked may still be missing).  So no kill, pin or approval is lost, and *)
(* none comes back, when update_policy's file is read by load.             *)
(***************************************************************************)
DurableAuthority ==
  /\ killed \subseteq DOMAIN containers
  /\ DOMAIN disk = {n \in DOMAIN containers : containers[n].managed}
  /\ \A n \in DOMAIN containers :
        IF containers[n].managed
        THEN /\ disk[n].instance \in {None, containers[n].instance}
             /\ [disk[n] EXCEPT !.instance = containers[n].instance]
                  = Saved(containers, killed)[n]
        ELSE /\ ~containers[n].approved
             /\ n \notin killed
             /\ containers[n].pinned_ip = None
             /\ containers[n].comment_permissions = {}
             /\ containers[n].cline_access = "Basic"

(***************************************************************************)
(* A handler is admitted only if nothing about its guest's authority       *)
(* changed between the capture of its identity and its admission, even if  *)
(* the change was undone meanwhile: killed and resumed, pinned away and    *)
(* back, removed and added again under the same name (admit_request).      *)
(***************************************************************************)
AdmittedUnchanged ==
  \A h \in Handlers : work[h].phase = "admitted" => h \notin stale

\* Addresses from which a guest passes the gate and the kill switch.
AllowedFrom(n) == {ip \in IPs : Authorized(n, ip)}

\* The host operations that name guest n in order to give it access.
HostNames(n) ==
  \/ \E ip \in IPs \cup {None} : AddContainer(n, ip) \/ SetPinnedIp(n, ip)
  \/ \E pin \in BOOLEAN : ApproveContainer(n, pin)
  \/ SetKilled(n, FALSE)

(***************************************************************************)
(* A guest reaches the network from a new address only in a step where the *)
(* host named that guest: not when its pin goes to another guest           *)
(* (add_container), not by its own traffic, and not across a restart.      *)
(***************************************************************************)
AccessGrowsByNameOnly ==
  [][\A n \in Names : AllowedFrom(n)' \subseteq AllowedFrom(n) \/ HostNames(n)]_vars

-----------------------------------------------------------------------------
(* Refinement *)

\* What the registry tells the workers about a guest (async_identity).
IdentityOf(n) ==
  IF n \in DOMAIN containers
  THEN [instance |-> containers[n].instance, epoch |-> containers[n].policy_epoch,
        peers |-> AllowedFrom(n),
        durable |-> n \in DOMAIN disk /\ disk[n].instance # None]
  ELSE [instance |-> 0, epoch |-> 0, peers |-> {}, durable |-> FALSE]

Authority == INSTANCE GuestAuthority WITH identity <- [n \in Names |-> IdentityOf(n)]

(***************************************************************************)
(* The registry implements the authority contract: every change of what a  *)
(* guest is allowed, by any policy writer, crash or restart, comes with an *)
(* epoch never used before, and a removed name that returns gets a new     *)
(* incarnation, so nothing held from before matches it (update_policy).    *)
(***************************************************************************)
ImplementsAuthority == Authority!AuthoritySpec

=============================================================================
