------------------------- MODULE GuestPolicy_proofs -------------------------
(***************************************************************************)
(* Proofs about GuestPolicy, for any number of guests, addresses and       *)
(* handlers.  The inductive invariant adds to the properties what the      *)
(* epochs mean: a guest's epoch is older than the next UUID, so a refreshed*)
(* epoch differs from every captured one, and a handler whose guest        *)
(* changed holds an epoch that is no longer the guest's.                   *)
(***************************************************************************)
EXTENDS GuestPolicy, TLAPS

EpochsPast ==
  /\ 0 < stamp
  /\ \A n \in DOMAIN containers :
        0 < containers[n].policy_epoch /\ containers[n].policy_epoch < stamp
  /\ \A h \in Handlers : work[h].phase # "idle" =>
        work[h].name \in Names /\ work[h].peer \in IPs /\ work[h].epoch < stamp
  /\ \A h \in stale : work[h].phase # "idle"
  /\ \A h \in stale : work[h].phase = "held" /\ work[h].name \in DOMAIN containers =>
        containers[work[h].name].policy_epoch # work[h].epoch

Inv == TypeOK /\ DurableAuthority /\ EpochsPast /\ AdmittedUnchanged

\* An unmanaged entry carries no authority.
Powerless(r) ==
  /\ ~r.approved
  /\ r.pinned_ip = None
  /\ r.comment_permissions = {}
  /\ r.cline_access = "Basic"

(***************************************************************************)
(* What every edit handed to update_policy guarantees.                     *)
(***************************************************************************)
EditOK(C, K) ==
  /\ Registry(C, ContainerRecord)
  /\ K \subseteq DOMAIN C
  /\ SharesNoNewPin(containers, C)
  /\ \A n \in DOMAIN C :
        /\ n \in DOMAIN containers => /\ C[n].instance = containers[n].instance
                                      /\ C[n].policy_epoch = containers[n].policy_epoch
                                      /\ containers[n].managed => C[n].managed
        /\ n \notin DOMAIN containers => C[n].instance = stamp /\ C[n].policy_epoch = stamp
        /\ ~C[n].managed => Powerless(C[n]) /\ n \notin K

\* The edit lets guest n through from ip.
Passes(C, K, n, ip) ==
  /\ n \in DOMAIN C
  /\ C[n].approved
  /\ n \notin K
  /\ C[n].pinned_ip \in {None, ip}

\* The edit lets no guest but those of S through from a new address.
Narrow(C, K, S) ==
  \A n \in DOMAIN C \ S : \A ip \in IPs : Passes(C, K, n, ip) => Authorized(n, ip)

\* An acceptable edit, which gives access to the guests of S at most, is handed
\* to update_policy.
Commits(S) ==
  \E C, K : EditOK(C, K) /\ Narrow(C, K, S) /\ UpdatePolicy(C, K)

\* A new entry has the record type.
LEMMA FreshType == ASSUME NEW s \in Nat PROVE Fresh(s) \in ContainerRecord
  BY DEF Fresh, ContainerRecord, ClineAccess

\* An idle handler has the handler type.
LEMMA IdleType == IdleWork \in Work
  BY DEF IdleWork, Work

\* What load makes of a well-formed file.
LEMMA LoadedType ==
  ASSUME NEW d, Registry(d, SavedContainer), NEW s \in Nat
  PROVE  /\ Registry(Loaded(d, s), ContainerRecord)
         /\ DOMAIN Loaded(d, s) = DOMAIN d
         /\ LoadedKills(d) \subseteq DOMAIN d
         /\ \A n \in DOMAIN d : /\ Loaded(d, s)[n].policy_epoch = s
                                /\ Loaded(d, s)[n].managed
                                /\ d[n].instance \in {None, Loaded(d, s)[n].instance}
                                /\ Loaded(d, s)[n].pinned_ip = d[n].pinned_ip
<1>1. DOMAIN Loaded(d, s) = DOMAIN d
  BY DEF Loaded
<1>2. ASSUME NEW n \in DOMAIN d
      PROVE  /\ Loaded(d, s)[n] \in ContainerRecord
             /\ Loaded(d, s)[n].policy_epoch = s
             /\ Loaded(d, s)[n].managed
             /\ d[n].instance \in {None, Loaded(d, s)[n].instance}
             /\ Loaded(d, s)[n].pinned_ip = d[n].pinned_ip
  <2>1. d[n] \in SavedContainer
    BY DEF Registry
  <2>2. QED
    BY <2>1, ConstantsAssumption
    DEF Loaded, Fresh, ContainerRecord, SavedContainer, ClineAccess
<1>3. Loaded(d, s) = [n \in DOMAIN Loaded(d, s) |-> Loaded(d, s)[n]]
  BY DEF Loaded
<1>4. Registry(Loaded(d, s), ContainerRecord)
  BY <1>1, <1>2, <1>3 DEF Registry
<1>5. QED
  BY <1>1, <1>2, <1>4 DEF LoadedKills

\* The file written for an acceptable edit is well formed.
LEMMA SavedType ==
  ASSUME NEW C, NEW K, Registry(C, ContainerRecord)
  PROVE  /\ Registry(Saved(C, K), SavedContainer)
         /\ DOMAIN Saved(C, K) = {m \in DOMAIN C : C[m].managed}
<1>1. DOMAIN Saved(C, K) = {m \in DOMAIN C : C[m].managed}
  BY DEF Saved
<1>2. ASSUME NEW n \in DOMAIN Saved(C, K)
      PROVE  Saved(C, K)[n] \in SavedContainer /\ Saved(C, K)[n].pinned_ip = C[n].pinned_ip
  <2>1. n \in DOMAIN C /\ C[n] \in ContainerRecord
    BY <1>1 DEF Registry
  <2>2. QED
    BY <1>1, <2>1 DEF Saved, SavedContainer, ContainerRecord
<1>3. Saved(C, K) = [n \in DOMAIN Saved(C, K) |-> Saved(C, K)[n]]
  BY DEF Saved
<1>4. QED
  BY <1>1, <1>2, <1>3 DEF Registry

-----------------------------------------------------------------------------
(* The transaction and the boot *)

\* A boot from a well-formed file leaves no handler and restores the invariant.
LEMMA BootInv ==
  ASSUME Inv, NEW d, Registry(d, SavedContainer),
         disk' = d, Boot(d), RecordStale
  PROVE  Inv'
<1> DEFINE L == Loaded(d, stamp)
<1>0. stamp \in Nat /\ stamp' = stamp + 1 /\ containers' = L /\ killed' = LoadedKills(d)
  BY DEF Inv, TypeOK, Boot
<1>1. /\ Registry(L, ContainerRecord) /\ DOMAIN L = DOMAIN d
      /\ LoadedKills(d) \subseteq DOMAIN d
      /\ \A n \in DOMAIN d : L[n].policy_epoch = stamp /\ L[n].managed
                             /\ d[n].instance \in {None, L[n].instance}
  BY <1>0, LoadedType
<1>2. \A h \in Handlers : work'[h] = IdleWork /\ work'[h].phase = "idle"
  BY DEF Boot, IdleWork
<1>3. stale' = {}
  BY <1>2 DEF RecordStale
<1>4. TypeOK'
  <2>1. work' \in [Handlers -> Work]
    BY IdleType DEF Boot
  <2>2. killed' \subseteq Names
    BY <1>0, <1>1 DEF Registry
  <2>3. QED
    BY <1>0, <1>1, <1>3, <2>1, <2>2 DEF TypeOK
<1>5. DurableAuthority'
  <2>1. DOMAIN disk' = {n \in DOMAIN containers' : containers'[n].managed}
    BY <1>0, <1>1
  <2>2. ASSUME NEW n \in DOMAIN containers'
        PROVE  [disk'[n] EXCEPT !.instance = containers'[n].instance]
                 = Saved(containers', killed')[n]
    <3>1. n \in DOMAIN d /\ containers'[n].managed /\ d[n] \in SavedContainer
      BY <1>0, <1>1 DEF Registry
    <3>2. (n \in LoadedKills(d)) = d[n].killed
      BY <3>1 DEF LoadedKills, SavedContainer
    <3>3. /\ L[n].approved = d[n].approved
          /\ L[n].pinned_ip = d[n].pinned_ip
          /\ L[n].comment_permissions = d[n].comment_permissions
          /\ L[n].cline_access = d[n].cline_access
      BY <3>1 DEF Loaded, Fresh
    <3>4. Saved(L, LoadedKills(d))[n] =
            [instance |-> L[n].instance, approved |-> d[n].approved,
             killed |-> d[n].killed, pinned_ip |-> d[n].pinned_ip,
             comment_permissions |-> d[n].comment_permissions,
             cline_access |-> d[n].cline_access]
      BY <1>0, <1>1, <3>1, <3>2, <3>3 DEF Saved
    <3>5. [d[n] EXCEPT !.instance = L[n].instance] =
            [instance |-> L[n].instance, approved |-> d[n].approved,
             killed |-> d[n].killed, pinned_ip |-> d[n].pinned_ip,
             comment_permissions |-> d[n].comment_permissions,
             cline_access |-> d[n].cline_access]
      BY <3>1 DEF SavedContainer
    <3>6. QED
      BY <1>0, <3>4, <3>5
  <2>3. QED
    BY <1>0, <1>1, <2>1, <2>2 DEF DurableAuthority
<1>6. EpochsPast'
  <2>1. 0 < stamp
    BY DEF Inv, EpochsPast
  <2> QED  BY <1>0, <1>1, <1>2, <1>3, <2>1 DEF EpochsPast
<1>7. AdmittedUnchanged'
  BY <1>3 DEF AdmittedUnchanged
<1>8. QED
  BY <1>4, <1>5, <1>6, <1>7 DEF Inv

\* Publication of an acceptable edit.
LEMMA PublishInv ==
  ASSUME Inv, NEW C, NEW K, EditOK(C, K), disk' = Saved(C, K),
         containers' = RefreshEpochs(C, K), killed' = K, stamp' = stamp + 1,
         work' = work, RecordStale
  PROVE  Inv'
<1>0. stamp \in Nat /\ work \in [Handlers -> Work] /\ stale \subseteq Handlers /\ 0 < stamp
  BY DEF Inv, TypeOK, EpochsPast
<1>1. DOMAIN containers' = DOMAIN C /\ DOMAIN C \subseteq Names
  BY DEF RefreshEpochs, EditOK, Registry
<1>2. ASSUME NEW n \in DOMAIN C
      PROVE  /\ containers'[n] \in ContainerRecord
             /\ containers'[n] = [C[n] EXCEPT !.policy_epoch = containers'[n].policy_epoch]
             /\ 0 < containers'[n].policy_epoch /\ containers'[n].policy_epoch < stamp'
             /\ n \in Changed(C, K) => containers'[n].policy_epoch = stamp
             /\ n \in DOMAIN containers \ Changed(C, K) =>
                   containers'[n].policy_epoch = containers[n].policy_epoch
  <2>1. C[n] \in ContainerRecord
    BY DEF EditOK, Registry
  <2>2. n \in DOMAIN containers => 0 < containers[n].policy_epoch /\ containers[n].policy_epoch < stamp
    BY DEF Inv, EpochsPast
  <2>3. C[n].policy_epoch \in Nat
    BY <2>1 DEF ContainerRecord
  <2>4. 0 < C[n].policy_epoch /\ C[n].policy_epoch < stamp + 1
    BY <1>0, <2>2, <2>3 DEF EditOK
  <2>5. n \in DOMAIN containers => C[n].policy_epoch = containers[n].policy_epoch
    BY DEF EditOK
  <2>6. CASE n \in Changed(C, K)
    <3>1. containers'[n] = [C[n] EXCEPT !.policy_epoch = stamp]
      BY <2>6 DEF RefreshEpochs
    <3>2. QED
      BY <1>0, <2>1, <2>6, <3>1 DEF ContainerRecord
  <2>7. CASE n \notin Changed(C, K)
    <3>1. containers'[n] = C[n]
      BY <2>7 DEF RefreshEpochs
    <3>2. C[n] = [C[n] EXCEPT !.policy_epoch = C[n].policy_epoch]
      BY <2>1 DEF ContainerRecord
    <3>3. QED
      BY <2>1, <2>4, <2>5, <2>7, <3>1, <3>2
  <2>8. QED
    BY <2>6, <2>7
<1>3. \A n \in DOMAIN C :
         /\ containers'[n].approved = C[n].approved
         /\ containers'[n].pinned_ip = C[n].pinned_ip
         /\ containers'[n].managed = C[n].managed
         /\ containers'[n].instance = C[n].instance
         /\ containers'[n].comment_permissions = C[n].comment_permissions
         /\ containers'[n].cline_access = C[n].cline_access
  <2>1. TAKE n \in DOMAIN C
  <2>2. C[n] \in ContainerRecord
    BY DEF EditOK, Registry
  <2>3. PICK e : containers'[n] = [C[n] EXCEPT !.policy_epoch = e]
    BY <1>2
  <2>4. QED
    BY <2>2, <2>3 DEF ContainerRecord
<1>4. TypeOK'
  <2>1. Registry(containers', ContainerRecord)
    <3>1. containers' = [n \in DOMAIN containers' |-> containers'[n]]
      BY DEF RefreshEpochs
    <3>2. QED
      BY <1>1, <1>2, <3>1 DEF Registry
  <2>2. Registry(disk', SavedContainer)
    BY SavedType DEF EditOK
  <2>3. killed' \subseteq Names
    BY <1>1 DEF EditOK
  <2>4. stale' \subseteq Handlers
    BY DEF RecordStale
  <2>5. QED
    BY <1>0, <2>1, <2>2, <2>3, <2>4 DEF TypeOK
<1>5. DurableAuthority'
  <2>1. DOMAIN disk' = {n \in DOMAIN C : C[n].managed}
    BY SavedType DEF EditOK
  <2>2. DOMAIN disk' = {n \in DOMAIN containers' : containers'[n].managed}
    BY <1>1, <1>3, <2>1
  <2>3. ASSUME NEW n \in DOMAIN containers', containers'[n].managed
        PROVE  /\ disk'[n].instance = containers'[n].instance
               /\ [disk'[n] EXCEPT !.instance = containers'[n].instance]
                    = Saved(containers', killed')[n]
    <3>1. n \in DOMAIN C /\ C[n].managed
      BY <1>1, <1>3, <2>3
    <3>2. disk'[n] = [instance |-> C[n].instance, approved |-> C[n].approved,
                      killed |-> n \in K, pinned_ip |-> C[n].pinned_ip,
                      comment_permissions |-> C[n].comment_permissions,
                      cline_access |-> C[n].cline_access]
      BY <3>1 DEF Saved
    <3>3. Saved(containers', killed')[n] = disk'[n]
      BY <1>1, <1>3, <3>1, <3>2, <2>3 DEF Saved
    <3>4. disk'[n].instance = containers'[n].instance
      BY <1>3, <3>1, <3>2
    <3>5. [disk'[n] EXCEPT !.instance = disk'[n].instance] = disk'[n]
      BY <3>2
    <3>6. QED
      BY <3>3, <3>4, <3>5
  <2>4. ASSUME NEW n \in DOMAIN containers', ~containers'[n].managed
        PROVE  Powerless(containers'[n]) /\ n \notin killed'
    BY <1>1, <1>3, <2>4 DEF EditOK, Powerless
  <2>5. killed' \subseteq DOMAIN containers'
    BY <1>1 DEF EditOK
  <2>6. QED
    BY <2>2, <2>3, <2>4, <2>5 DEF DurableAuthority, Powerless
<1>6. \A n \in DOMAIN containers : AuthorityChanged(n) => n \in Changed(C, K)
  BY <1>1, <1>3 DEF AuthorityChanged, Changed, EditOK
<1>7. EpochsPast'
  <2>1. \A h \in Handlers : work'[h].phase # "idle" =>
           work'[h].name \in Names /\ work'[h].peer \in IPs /\ work'[h].epoch < stamp
    BY DEF Inv, EpochsPast
  <2>2. \A h \in Handlers : work[h].epoch \in Nat
    BY <1>0 DEF Work
  <2>3. ASSUME NEW h \in stale', work'[h].phase = "held",
               work'[h].name \in DOMAIN containers'
        PROVE  containers'[work'[h].name].policy_epoch # work'[h].epoch
    <3> DEFINE n == work[h].name
    <3>1. h \in Handlers /\ work[h].phase = "held" /\ work[h].epoch < stamp
          /\ n \in DOMAIN C /\ work[h].epoch \in Nat
      BY <1>1, <2>1, <2>2, <2>3 DEF RecordStale
    <3>2. CASE n \in Changed(C, K)
      <4>1. containers'[n].policy_epoch = stamp
        BY <1>2, <3>1, <3>2
      <4>2. QED
        BY <1>0, <3>1, <4>1
    <3>3. CASE n \notin Changed(C, K)
      <4>1. CASE n \in DOMAIN containers
        <5>1. h \in stale
          BY <1>6, <2>3, <3>3, <4>1 DEF RecordStale
        <5>2. containers[n].policy_epoch # work[h].epoch
          BY <3>1, <4>1, <5>1 DEF Inv, EpochsPast
        <5>3. QED
          BY <1>2, <3>1, <3>3, <4>1, <5>2
      <4>2. CASE n \notin DOMAIN containers
        <5>1. containers'[n] = C[n] /\ C[n].policy_epoch = stamp
          BY <3>1, <3>3, <4>2 DEF RefreshEpochs, EditOK
        <5>2. QED
          BY <1>0, <3>1, <5>1
      <4>3. QED
        BY <4>1, <4>2
    <3>4. QED
      BY <3>2, <3>3
  <2>4. \A h \in Handlers : work'[h].phase # "idle" => work'[h].epoch < stamp'
    BY <1>0, <2>1, <2>2
  <2>5. QED
    BY <1>0, <1>1, <1>2, <2>1, <2>3, <2>4 DEF EpochsPast, RecordStale
<1>8. AdmittedUnchanged'
  BY DEF AdmittedUnchanged, Inv, RecordStale
<1>9. QED
  BY <1>4, <1>5, <1>7, <1>8 DEF Inv

\* The transaction preserves the invariant for every acceptable edit, published
\* or cut short by a crash.
LEMMA UpdatePolicyInv ==
  ASSUME Inv, NEW C, NEW K, EditOK(C, K), UpdatePolicy(C, K), RecordStale
  PROVE  Inv'
<1>1. disk' = Saved(C, K)
  BY DEF UpdatePolicy
<1>2. CASE Boot(disk')
  <2>1. Registry(disk', SavedContainer)
    BY <1>1, SavedType DEF EditOK
  <2>2. QED
    BY <1>2, <2>1, BootInv
<1>3. CASE /\ containers' = RefreshEpochs(C, K)
           /\ killed' = K
           /\ stamp' = stamp + 1
           /\ UNCHANGED work
  BY <1>1, <1>3, PublishInv
<1>4. QED
  BY <1>2, <1>3 DEF UpdatePolicy

-----------------------------------------------------------------------------
(* Each policy writer hands update_policy an acceptable edit *)

\* The registry itself is an acceptable edit.
LEMMA SameEdit == ASSUME Inv PROVE EditOK(containers, killed)
  BY DEF Inv, TypeOK, DurableAuthority, EditOK, SharesNoNewPin, Powerless

\* Adding a join request to an acceptable edit.
LEMMA EntryEdit ==
  ASSUME NEW C, NEW K, EditOK(C, K), NEW n \in Names, stamp \in Nat,
         n \notin DOMAIN C => n \notin DOMAIN containers
  PROVE  EditOK(WithEntry(C, n), K)
<1> DEFINE W == WithEntry(C, n)
<1>1. DOMAIN W = DOMAIN C \cup {n} /\ \A m \in DOMAIN C : W[m] = C[m]
  BY DEF WithEntry
<1>2. n \notin DOMAIN C => W[n] = Fresh(stamp)
  BY DEF WithEntry
<1>3. Fresh(stamp) \in ContainerRecord
  BY FreshType
<1>4. /\ Fresh(stamp).pinned_ip = None /\ Fresh(stamp).policy_epoch = stamp
      /\ Fresh(stamp).instance = stamp
      /\ Powerless(Fresh(stamp))
  BY DEF Fresh, Powerless
<1>5. Registry(W, ContainerRecord)
  <2>1. W = [m \in DOMAIN W |-> W[m]]
    BY DEF WithEntry
  <2>2. QED
    BY <1>1, <1>2, <1>3, <2>1 DEF EditOK, Registry
<1>6. SharesNoNewPin(containers, W)
  BY <1>1, <1>2, <1>4 DEF EditOK, SharesNoNewPin
<1>7. ASSUME NEW m \in DOMAIN W
      PROVE  /\ m \in DOMAIN containers => /\ W[m].instance = containers[m].instance
                                           /\ W[m].policy_epoch = containers[m].policy_epoch
                                           /\ containers[m].managed => W[m].managed
             /\ m \notin DOMAIN containers => W[m].instance = stamp /\ W[m].policy_epoch = stamp
             /\ ~W[m].managed => Powerless(W[m]) /\ m \notin K
  <2>1. CASE m \in DOMAIN C
    BY <1>1, <2>1 DEF EditOK
  <2>2. CASE m \notin DOMAIN C
    BY <1>1, <1>2, <1>4, <2>2 DEF EditOK
  <2>3. QED
    BY <2>1, <2>2
<1>8. K \subseteq DOMAIN W
  BY <1>1 DEF EditOK
<1>9. QED
  BY <1>5, <1>6, <1>7, <1>8 DEF EditOK

\* Replacing the record of one guest by a managed one whose pin is its own or free.
LEMMA RecordEdit ==
  ASSUME NEW C, NEW K, EditOK(C, K), NEW n \in DOMAIN C, NEW r \in ContainerRecord,
         r.managed, r.instance = C[n].instance, r.policy_epoch = C[n].policy_epoch,
         \/ r.pinned_ip \in {None, C[n].pinned_ip}
         \/ \A m \in DOMAIN C \ {n} : C[m].pinned_ip # r.pinned_ip
  PROVE  EditOK([C EXCEPT ![n] = r], K)
<1> DEFINE D == [C EXCEPT ![n] = r]
<1>1. C = [m \in DOMAIN C |-> C[m]]
  BY DEF EditOK, Registry
<1>2. DOMAIN D = DOMAIN C /\ D[n] = r /\ \A m \in DOMAIN C \ {n} : D[m] = C[m]
  BY <1>1
<1>3. Registry(D, ContainerRecord)
  BY <1>2 DEF EditOK, Registry
<1>4. SharesNoNewPin(containers, D)
  <2> HIDE DEF D
  <2> QED  BY <1>2 DEF EditOK, SharesNoNewPin
<1>5. QED
  BY <1>2, <1>3, <1>4 DEF EditOK

\* Killing or resuming a managed guest.
LEMMA KillEdit ==
  ASSUME NEW C, NEW K, EditOK(C, K), NEW n \in DOMAIN C, C[n].managed
  PROVE  EditOK(C, K \cup {n}) /\ EditOK(C, K \ {n})
  BY DEF EditOK

\* An edit of one record gives access to its guest at most, and only by a new
\* approval or pin.
LEMMA RecordNarrow ==
  ASSUME Inv, NEW n \in DOMAIN containers, NEW r
  PROVE  /\ Narrow([containers EXCEPT ![n] = r], killed, {n})
         /\ (/\ r.approved = containers[n].approved
             /\ r.pinned_ip = containers[n].pinned_ip) =>
                  Narrow([containers EXCEPT ![n] = r], killed, {})
<1> DEFINE D == [containers EXCEPT ![n] = r]
<1>1. DOMAIN D = DOMAIN containers /\ \A m \in DOMAIN D : D[m] = IF m = n THEN r ELSE containers[m]
  BY DEF Inv, TypeOK, Registry
<1> HIDE DEF D
<1>2. Narrow(D, killed, {n})
  BY <1>1 DEF Narrow, Passes, Authorized
<1>3. r.approved = containers[n].approved /\ r.pinned_ip = containers[n].pinned_ip =>
        Narrow(D, killed, {})
  BY <1>1 DEF Narrow, Passes, Authorized
<1> QED  BY <1>2, <1>3 DEF D

\* What is committed preserves the invariant.
LEMMA CommitsInv ==
  ASSUME Inv, NEW S, Commits(S), RecordStale PROVE Inv'
  BY UpdatePolicyInv DEF Commits

\* The empty edit.
LEMMA PersistCommits ==
  ASSUME Inv, PersistGuestIdentity PROVE Commits({})
<1>1. Narrow(containers, killed, {})
  BY DEF Narrow, Passes, Authorized
<1> QED  BY <1>1, SameEdit DEF PersistGuestIdentity, Commits

\* Registration: the address moves, and its old owner loses its approval.
LEMMA AddContainerCommits ==
  ASSUME Inv, NEW n \in Names, NEW ip \in IPs \cup {None}, AddContainer(n, ip)
  PROVE  Commits({n})
<1> DEFINE R == Relinquish(containers, n, ip)
           C == WithEntry(R, n)
           r == [C[n] EXCEPT !.approved = TRUE, !.managed = TRUE,
                             !.pinned_ip = IF ip = None THEN @ ELSE ip]
<1>0. stamp \in Nat
  BY DEF Inv, TypeOK
<1>1. EditOK(R, killed)
  <2>0. EditOK(containers, killed)
    BY SameEdit
  <2>1. DOMAIN R = DOMAIN containers
    BY DEF Relinquish
  <2>2. ASSUME NEW m \in DOMAIN R
        PROVE  /\ R[m] \in ContainerRecord
               /\ R[m].instance = containers[m].instance
               /\ R[m].policy_epoch = containers[m].policy_epoch
               /\ R[m].pinned_ip \in {None, containers[m].pinned_ip}
               /\ ~R[m].managed => R[m] = containers[m]
    <3>1. containers[m] \in ContainerRecord
      BY <2>0, <2>1 DEF EditOK, Registry
    <3>2. QED
      BY <2>1, <3>1 DEF Relinquish, ContainerRecord
  <2>3. Registry(R, ContainerRecord)
    <3>1. R = [m \in DOMAIN R |-> R[m]]
      BY DEF Relinquish
    <3>2. QED
      BY <2>0, <2>1, <2>2, <3>1 DEF Registry, EditOK
  <2>4. SharesNoNewPin(containers, R)
    BY <2>1, <2>2 DEF SharesNoNewPin
  <2>5. QED
    BY <2>0, <2>1, <2>2, <2>3, <2>4 DEF EditOK
<1>2. EditOK(C, killed)
  <2>1. DOMAIN R = DOMAIN containers
    BY DEF Relinquish
  <2>2. QED
    BY <1>0, <1>1, <2>1, EntryEdit
<1>3. n \in DOMAIN C /\ C[n] \in ContainerRecord
  BY <1>2 DEF WithEntry, EditOK, Registry
<1>4. /\ r \in ContainerRecord /\ r.managed
      /\ r.instance = C[n].instance /\ r.policy_epoch = C[n].policy_epoch
      /\ r.pinned_ip = IF ip = None THEN C[n].pinned_ip ELSE ip
  BY <1>3 DEF ContainerRecord
<1>5. \/ r.pinned_ip \in {None, C[n].pinned_ip}
      \/ \A m \in DOMAIN C \ {n} : C[m].pinned_ip # r.pinned_ip
  <2>1. CASE ip = None
    BY <1>4, <2>1
  <2>2. CASE ip # None
    <3>1. ASSUME NEW m \in DOMAIN C \ {n} PROVE C[m].pinned_ip # ip
      <4>1. m \in DOMAIN containers /\ C[m] = R[m]
        BY <3>1 DEF WithEntry, Relinquish
      <4>2. containers[m] \in ContainerRecord
        BY <4>1 DEF Inv, TypeOK, Registry
      <4>3. QED
        BY <2>2, <3>1, <4>1, <4>2 DEF Relinquish, ContainerRecord
    <3>2. QED
      BY <1>4, <2>2, <3>1
  <2>3. QED
    BY <2>1, <2>2
<1>6. EditOK([C EXCEPT ![n] = r], killed)
  BY <1>2, <1>3, <1>4, <1>5, RecordEdit
<1>7. [C EXCEPT ![n].approved = TRUE, ![n].managed = TRUE,
                ![n].pinned_ip = IF ip = None THEN @ ELSE ip] = [C EXCEPT ![n] = r]
  BY <1>3
<1>8. UpdatePolicy([C EXCEPT ![n] = r], killed)
  BY <1>7 DEF AddContainer
<1>9. Narrow([C EXCEPT ![n] = r], killed, {n})
  <2>1. ASSUME NEW m \in DOMAIN C \ {n}
        PROVE  /\ m \in DOMAIN containers
               /\ C[m].approved => C[m] = containers[m]
    <3>1. m \in DOMAIN containers /\ C[m] = R[m]
      BY <2>1 DEF WithEntry, Relinquish
    <3>2. containers[m] \in ContainerRecord
      BY <3>1 DEF Inv, TypeOK, Registry
    <3>3. R[m] = containers[m] \/ R[m].approved = FALSE
      BY <3>1, <3>2 DEF Relinquish, ContainerRecord
    <3> QED  BY <3>1, <3>3
  <2> HIDE DEF C, r
  <2> QED  BY <2>1 DEF Narrow, Passes, Authorized
<1>10. QED
  BY <1>6, <1>8, <1>9 DEF Commits

\* Approval, with or without a pin to the last address.
LEMMA ApproveContainerCommits ==
  ASSUME Inv, NEW n \in Names, NEW pinToLastIp \in BOOLEAN,
         ApproveContainer(n, pinToLastIp)
  PROVE  Commits({n})
<1> DEFINE pin == IF pinToLastIp THEN containers[n].last_ip ELSE None
           r == [containers[n] EXCEPT !.approved = TRUE, !.managed = TRUE,
                                      !.pinned_ip = IF pin = None THEN @ ELSE pin]
<1>1. n \in DOMAIN containers /\ containers[n] \in ContainerRecord /\ PinFree(n, pin)
  BY DEF ApproveContainer, Inv, TypeOK, Registry
<1>2. /\ r \in ContainerRecord /\ r.managed
      /\ r.instance = containers[n].instance /\ r.policy_epoch = containers[n].policy_epoch
      /\ r.pinned_ip = IF pin = None THEN containers[n].pinned_ip ELSE pin
  BY <1>1 DEF ContainerRecord
<1>3. \/ r.pinned_ip \in {None, containers[n].pinned_ip}
      \/ \A m \in DOMAIN containers \ {n} : containers[m].pinned_ip # r.pinned_ip
  BY <1>1, <1>2 DEF PinFree
<1>4. EditOK([containers EXCEPT ![n] = r], killed)
  BY <1>1, <1>2, <1>3, SameEdit, RecordEdit
<1>5. [containers EXCEPT ![n].approved = TRUE, ![n].managed = TRUE,
                         ![n].pinned_ip = IF pin = None THEN @ ELSE pin]
        = [containers EXCEPT ![n] = r]
  BY <1>1
<1>6. UpdatePolicy([containers EXCEPT ![n] = r], killed)
  BY <1>5 DEF ApproveContainer
<1>7. QED
  BY <1>1, <1>2, <1>4, <1>6, RecordNarrow DEF Commits

\* Pinning refuses an address another guest holds.
LEMMA SetPinnedIpCommits ==
  ASSUME Inv, NEW n \in Names, NEW ip \in IPs \cup {None}, SetPinnedIp(n, ip)
  PROVE  Commits({n})
<1> DEFINE r == [containers[n] EXCEPT !.pinned_ip = ip, !.managed = TRUE]
<1>1. n \in DOMAIN containers /\ containers[n] \in ContainerRecord /\ PinFree(n, ip)
  BY DEF SetPinnedIp, Inv, TypeOK, Registry
<1>2. /\ r \in ContainerRecord /\ r.managed /\ r.pinned_ip = ip
      /\ r.instance = containers[n].instance /\ r.policy_epoch = containers[n].policy_epoch
  BY <1>1 DEF ContainerRecord
<1>3. EditOK([containers EXCEPT ![n] = r], killed)
  BY <1>1, <1>2, SameEdit, RecordEdit DEF PinFree
<1>4. UpdatePolicy([containers EXCEPT ![n] = r], killed)
  BY <1>1 DEF SetPinnedIp
<1>5. QED
  BY <1>1, <1>2, <1>3, <1>4, RecordNarrow DEF Commits

\* Removal drops the entry, its kill and its grants.
LEMMA RemoveContainerCommits ==
  ASSUME Inv, NEW n \in Names, RemoveContainer(n)
  PROVE  Commits({})
<1> DEFINE C == [m \in DOMAIN containers \ {n} |-> containers[m]]
<1>1. EditOK(containers, killed)
  BY SameEdit
<1>2. EditOK(C, killed \ {n})
  BY <1>1 DEF EditOK, Registry, SharesNoNewPin
<1>3. Narrow(C, killed \ {n}, {})
  BY DEF Narrow, Passes, Authorized
<1>4. QED
  BY <1>2, <1>3 DEF RemoveContainer, Commits

\* The empty registry is acceptable.
LEMMA ResetContainersCommits ==
  ASSUME Inv, ResetContainers
  PROVE  Commits({})
<1>1. EditOK([m \in {} |-> Fresh(stamp)], {})
  BY DEF EditOK, Registry, SharesNoNewPin
<1>2. Narrow([m \in {} |-> Fresh(stamp)], {}, {})
  BY DEF Narrow
<1>3. QED
  BY <1>1, <1>2 DEF ResetContainers, Commits

\* The kill switch makes its guest a managed entry.
LEMMA SetKilledCommits ==
  ASSUME Inv, NEW n \in Names, NEW kill \in BOOLEAN, SetKilled(n, kill)
  PROVE  Commits(IF kill THEN {} ELSE {n})
<1> DEFINE C == WithEntry(containers, n)
           r == [C[n] EXCEPT !.managed = TRUE]
           D == [C EXCEPT ![n] = r]
<1>0. stamp \in Nat
  BY DEF Inv, TypeOK
<1>1. EditOK(C, killed)
  BY <1>0, SameEdit, EntryEdit
<1>2. n \in DOMAIN C /\ C[n] \in ContainerRecord
  BY <1>1 DEF WithEntry, EditOK, Registry
<1>3. /\ r \in ContainerRecord /\ r.managed /\ r.pinned_ip = C[n].pinned_ip
      /\ r.instance = C[n].instance /\ r.policy_epoch = C[n].policy_epoch
  BY <1>2 DEF ContainerRecord
<1>4. EditOK(D, killed)
  BY <1>1, <1>2, <1>3, RecordEdit
<1>5. n \in DOMAIN D /\ D[n].managed
  BY <1>2, <1>3
<1>6. EditOK(D, killed \cup {n}) /\ EditOK(D, killed \ {n})
  BY <1>4, <1>5, KillEdit
<1>7. UpdatePolicy(D, IF kill THEN killed \cup {n} ELSE killed \ {n})
  BY <1>2 DEF SetKilled
<1>8. Narrow(D, killed \cup {n}, {}) /\ Narrow(D, killed \ {n}, {n})
  <2>1. ASSUME NEW m \in DOMAIN D \ {n}
        PROVE  m \in DOMAIN containers /\ D[m] = containers[m]
    BY <1>2 DEF WithEntry
  <2> HIDE DEF D
  <2> QED  BY <2>1 DEF Narrow, Passes, Authorized
<1>9. QED
  BY <1>6, <1>7, <1>8 DEF Commits

\* The Cline access level is no authority.
LEMMA SetClineAccessCommits ==
  ASSUME Inv, NEW n \in Names, NEW access \in ClineAccess, SetClineAccess(n, access)
  PROVE  Commits({})
<1> DEFINE r == [containers[n] EXCEPT !.cline_access = access, !.managed = TRUE]
<1>1. n \in DOMAIN containers /\ containers[n] \in ContainerRecord
  BY DEF SetClineAccess, Inv, TypeOK, Registry
<1>2. /\ r \in ContainerRecord /\ r.managed /\ r.pinned_ip = containers[n].pinned_ip
      /\ r.approved = containers[n].approved
      /\ r.instance = containers[n].instance /\ r.policy_epoch = containers[n].policy_epoch
  BY <1>1 DEF ContainerRecord
<1>3. EditOK([containers EXCEPT ![n] = r], killed)
  BY <1>1, <1>2, SameEdit, RecordEdit
<1>4. UpdatePolicy([containers EXCEPT ![n] = r], killed)
  BY <1>1 DEF SetClineAccess
<1>5. QED
  BY <1>1, <1>2, <1>3, <1>4, RecordNarrow DEF Commits

\* A comment grant is saved.
LEMMA AddCommentPermissionCommits ==
  ASSUME Inv, NEW n \in DOMAIN containers, NEW epoch, NEW revision, NEW t \in Targets,
         NEW b \in Bindings, AddCommentPermission(n, epoch, revision, t, b)
  PROVE  Commits({})
<1> DEFINE gs == {g \in containers[n].comment_permissions : ~(g.target = t /\ g.binding = b)}
                   \cup {[id |-> stamp, target |-> t, binding |-> b]}
           r == [containers[n] EXCEPT !.comment_permissions = gs,
                                      !.comment_revision = stamp, !.managed = TRUE]
<1>0. stamp \in Nat
  BY DEF Inv, TypeOK
<1>1. containers[n] \in ContainerRecord
  BY DEF Inv, TypeOK, Registry
<1>2. gs \in SUBSET Grant
  BY <1>0, <1>1 DEF ContainerRecord, Grant
<1>3. /\ r \in ContainerRecord /\ r.managed /\ r.pinned_ip = containers[n].pinned_ip
      /\ r.approved = containers[n].approved
      /\ r.instance = containers[n].instance /\ r.policy_epoch = containers[n].policy_epoch
  BY <1>0, <1>1, <1>2 DEF ContainerRecord
<1>4. EditOK([containers EXCEPT ![n] = r], killed)
  BY <1>1, <1>3, SameEdit, RecordEdit
<1>5. UpdatePolicy([containers EXCEPT ![n] = r], killed)
  BY <1>1 DEF AddCommentPermission
<1>6. QED
  BY <1>1, <1>3, <1>4, <1>5, RecordNarrow DEF Commits

\* A grant exists only on a managed entry, so revoking one keeps it managed.
LEMMA RevokeCommentPermissionCommits ==
  ASSUME Inv, NEW n \in DOMAIN containers, NEW id, RevokeCommentPermission(n, id)
  PROVE  Commits({})
<1> DEFINE gs == {g \in containers[n].comment_permissions : g.id # id}
           r == [containers[n] EXCEPT !.comment_permissions = gs, !.comment_revision = stamp]
<1>0. stamp \in Nat
  BY DEF Inv, TypeOK
<1>1. containers[n] \in ContainerRecord
  BY DEF Inv, TypeOK, Registry
<1>2. gs \in SUBSET Grant
  BY <1>1 DEF ContainerRecord
<1>3. containers[n].managed
  <2>1. containers[n].comment_permissions # {}
    BY DEF RevokeCommentPermission
  <2>2. QED
    BY <2>1 DEF Inv, DurableAuthority
<1>4. /\ r \in ContainerRecord /\ r.managed /\ r.pinned_ip = containers[n].pinned_ip
      /\ r.approved = containers[n].approved
      /\ r.instance = containers[n].instance /\ r.policy_epoch = containers[n].policy_epoch
  BY <1>0, <1>1, <1>2, <1>3 DEF ContainerRecord
<1>5. EditOK([containers EXCEPT ![n] = r], killed)
  BY <1>1, <1>4, SameEdit, RecordEdit
<1>6. UpdatePolicy([containers EXCEPT ![n] = r], killed)
  BY <1>1 DEF RevokeCommentPermission
<1>7. QED
  BY <1>1, <1>4, <1>5, <1>6, RecordNarrow DEF Commits

-----------------------------------------------------------------------------
(* Guest traffic and request handlers *)

\* Traffic creates or moves join requests and changes no authority.
LEMMA TouchInv ==
  ASSUME Inv, NEW n \in Names, NEW peer \in IPs \cup {None}, Touch(n, peer), RecordStale
  PROVE  Inv'
<1> DEFINE C == WithEntry(containers, n)
<1>0. stamp \in Nat /\ stamp' \in Nat /\ stamp <= stamp' /\ 0 < stamp
      /\ (n \notin DOMAIN containers => stamp < stamp')
  BY DEF Inv, TypeOK, EpochsPast, Touch
<1>1. EditOK(C, killed)
  BY <1>0, SameEdit, EntryEdit
<1>2. DOMAIN containers' = DOMAIN containers \cup {n} /\ DOMAIN C = DOMAIN containers'
      /\ containers' = [m \in DOMAIN containers' |-> containers'[m]]
  BY DEF Touch, WithEntry
<1>3. ASSUME NEW m \in DOMAIN containers'
      PROVE  /\ containers'[m] \in ContainerRecord
             /\ containers'[m] = [C[m] EXCEPT !.last_ip = containers'[m].last_ip]
  <2>1. C[m] \in ContainerRecord
    BY <1>1, <1>2 DEF EditOK, Registry
  <2>2. CASE m = n
    BY <1>2, <2>1, <2>2 DEF Touch, ContainerRecord
  <2>3. CASE m # n
    BY <1>2, <2>1, <2>3 DEF Touch, ContainerRecord
  <2>4. QED
    BY <2>2, <2>3
<1>4. \A m \in DOMAIN containers' :
         /\ containers'[m].approved = C[m].approved
         /\ containers'[m].pinned_ip = C[m].pinned_ip
         /\ containers'[m].managed = C[m].managed
         /\ containers'[m].instance = C[m].instance
         /\ containers'[m].policy_epoch = C[m].policy_epoch
         /\ containers'[m].comment_permissions = C[m].comment_permissions
         /\ containers'[m].cline_access = C[m].cline_access
  <2>1. TAKE m \in DOMAIN containers'
  <2>2. C[m] \in ContainerRecord
    BY <1>1, <1>2 DEF EditOK, Registry
  <2>3. QED
    BY <1>3, <2>2 DEF ContainerRecord
<1>5. /\ \A m \in DOMAIN containers : C[m] = containers[m]
      /\ n \notin DOMAIN containers => C[n] = Fresh(stamp)
  BY DEF WithEntry
<1>6. killed' = killed /\ disk' = disk /\ work' = work
  BY DEF Touch
<1>7. \A m \in DOMAIN containers : ~AuthorityChanged(m)
  BY <1>2, <1>4, <1>5, <1>6 DEF AuthorityChanged
<1>8. TypeOK'
  BY <1>0, <1>1, <1>2, <1>3, <1>6 DEF TypeOK, Inv, Registry, EditOK, RecordStale
<1>9. DurableAuthority'
  <2>1. ~Fresh(stamp).managed
    BY DEF Fresh
  <2>2. {m \in DOMAIN containers' : containers'[m].managed}
          = {m \in DOMAIN containers : containers[m].managed}
    BY <1>2, <1>4, <1>5, <2>1
  <2>3. ASSUME NEW m \in DOMAIN containers', containers'[m].managed
        PROVE  /\ disk'[m].instance \in {None, containers'[m].instance}
               /\ [disk'[m] EXCEPT !.instance = containers'[m].instance]
                    = Saved(containers', killed')[m]
    <3>1. m \in DOMAIN containers /\ containers[m].managed
      BY <2>2, <2>3
    <3>2. Saved(containers', killed')[m] = Saved(containers, killed)[m]
      BY <1>2, <1>4, <1>5, <1>6, <2>3, <3>1 DEF Saved
    <3>3. QED
      BY <1>4, <1>5, <1>6, <2>3, <3>1, <3>2 DEF Inv, DurableAuthority
  <2>4. ASSUME NEW m \in DOMAIN containers', ~containers'[m].managed
        PROVE  Powerless(containers'[m]) /\ m \notin killed'
    BY <1>1, <1>2, <1>4, <1>6, <2>4 DEF EditOK, Powerless
  <2>5. killed' \subseteq DOMAIN containers' /\ DOMAIN disk' = {m \in DOMAIN containers' : containers'[m].managed}
    BY <1>2, <1>6, <2>2 DEF Inv, DurableAuthority
  <2>6. QED
    BY <2>3, <2>4, <2>5 DEF DurableAuthority, Powerless
<1>10. EpochsPast'
  <2>1. ASSUME NEW m \in DOMAIN containers'
        PROVE  0 < containers'[m].policy_epoch /\ containers'[m].policy_epoch < stamp'
    <3>1. C[m].policy_epoch \in Nat
      BY <1>1, <1>2 DEF EditOK, Registry, ContainerRecord
    <3>2. CASE m \in DOMAIN containers
      BY <1>0, <1>4, <1>5, <3>1, <3>2 DEF Inv, EpochsPast
    <3>3. CASE m \notin DOMAIN containers
      <4>1. m = n /\ C[n] = Fresh(stamp)
        BY <1>2, <1>5, <3>3
      <4>2. C[m].policy_epoch = stamp
        BY <4>1 DEF Fresh
      <4>3. QED
        BY <1>0, <1>4, <3>3, <4>1, <4>2
    <3>4. QED
      BY <3>2, <3>3
  <2>2. \A h \in Handlers : work[h].epoch \in Nat
    BY DEF Inv, TypeOK, Work
  <2>3. \A h \in Handlers : work'[h].phase # "idle" =>
          work'[h].name \in Names /\ work'[h].peer \in IPs /\ work'[h].epoch < stamp'
    BY <1>0, <1>6, <2>2 DEF Inv, EpochsPast
  <2>4. ASSUME NEW h \in stale', work'[h].phase = "held",
               work'[h].name \in DOMAIN containers'
        PROVE  containers'[work'[h].name].policy_epoch # work'[h].epoch
    <3>1. h \in Handlers /\ work[h].phase = "held" /\ work[h].epoch < stamp
      BY <1>6, <2>4 DEF RecordStale, Inv, EpochsPast
    <3>2. h \in stale
      BY <1>7, <2>4, <3>1 DEF RecordStale, AuthorityChanged
    <3>3. CASE work[h].name \in DOMAIN containers
      BY <1>4, <1>5, <1>6, <2>4, <3>1, <3>2, <3>3 DEF Inv, EpochsPast
    <3>4. CASE work[h].name \notin DOMAIN containers
      <4>1. work[h].name = n /\ containers'[n].policy_epoch = stamp
        BY <1>2, <1>4, <1>5, <1>6, <2>4, <3>4 DEF Fresh
      <4>2. QED
        BY <1>0, <1>6, <2>2, <3>1, <4>1
    <3>5. QED
      BY <3>3, <3>4
  <2>5. QED
    BY <1>0, <2>1, <2>3, <2>4 DEF EpochsPast, RecordStale
<1>11. AdmittedUnchanged'
  BY <1>6 DEF AdmittedUnchanged, Inv, RecordStale
<1>12. QED
  BY <1>8, <1>9, <1>10, <1>11 DEF Inv

\* A step that only moves handlers keeps everything but the handler parts.
LEMMA PolicyUnchanged ==
  ASSUME Inv, UNCHANGED policyVars, work' \in [Handlers -> Work], RecordStale
  PROVE  /\ TypeOK' /\ DurableAuthority'
         /\ \A n : ~AuthorityChanged(n)
<1>1. TypeOK'
  BY DEF Inv, TypeOK, policyVars, RecordStale
<1>2. DurableAuthority'
  BY DEF Inv, DurableAuthority, policyVars
<1>3. QED
  BY <1>1, <1>2 DEF policyVars, AuthorityChanged

\* A handler captures the current epoch.
LEMMA HoldInv ==
  ASSUME Inv, NEW h \in Handlers, NEW n \in Names, NEW peer \in IPs, Hold(h, n, peer),
         RecordStale
  PROVE  Inv'
<1> DEFINE w == [phase |-> "held", name |-> n, peer |-> peer,
                 instance |-> containers[n].instance, epoch |-> containers[n].policy_epoch]
<1>0. stamp \in Nat /\ work \in [Handlers -> Work]
  BY DEF Inv, TypeOK
<1>1. n \in DOMAIN containers /\ containers[n] \in ContainerRecord
      /\ containers[n].policy_epoch < stamp
  BY DEF Hold, Authorized, Inv, TypeOK, Registry, EpochsPast
<1>2. w \in Work
  BY <1>1 DEF Work, ContainerRecord
<1>3. /\ work' \in [Handlers -> Work] /\ work'[h] = w
      /\ \A k \in Handlers \ {h} : work'[k] = work[k]
  BY <1>0, <1>2 DEF Hold
<1>4. /\ TypeOK' /\ DurableAuthority'
      /\ \A m : ~AuthorityChanged(m)
  BY <1>3, PolicyUnchanged DEF Hold
<1>5. work[h].phase = "idle" /\ h \notin stale
  BY DEF Hold, Inv, EpochsPast
<1>6. stale' \subseteq stale \ {h}
  BY <1>4, <1>5 DEF RecordStale
<1>7. EpochsPast'
  BY <1>1, <1>3, <1>6 DEF Hold, policyVars, Inv, EpochsPast, RecordStale
<1>8. AdmittedUnchanged'
  BY <1>3, <1>6 DEF AdmittedUnchanged, Inv
<1>9. QED
  BY <1>4, <1>7, <1>8 DEF Inv

\* Admission compares the captured epoch with the guest's.
LEMMA AdmitRequestInv ==
  ASSUME Inv, NEW h \in Handlers, AdmitRequest(h), RecordStale
  PROVE  Inv'
<1> DEFINE ph == IF Admissible(work[h]) THEN "admitted" ELSE "refused"
<1>0. work \in [Handlers -> Work] /\ work[h] \in Work /\ work[h].phase = "held"
  BY DEF Inv, TypeOK, AdmitRequest
<1>1. /\ work' \in [Handlers -> Work]
      /\ work'[h] = [work[h] EXCEPT !.phase = ph]
      /\ \A k \in Handlers \ {h} : work'[k] = work[k]
  BY <1>0 DEF AdmitRequest, Work
<1>2. /\ work'[h].phase = ph /\ work'[h].name = work[h].name
      /\ work'[h].peer = work[h].peer /\ work'[h].epoch = work[h].epoch
  BY <1>0, <1>1 DEF Work
<1>3. /\ TypeOK' /\ DurableAuthority'
      /\ \A m : ~AuthorityChanged(m)
  BY <1>1, PolicyUnchanged DEF AdmitRequest
<1>4. stale' \subseteq stale
  BY <1>3 DEF RecordStale
<1>5. EpochsPast'
  BY <1>0, <1>1, <1>2, <1>4 DEF AdmitRequest, policyVars, Inv, EpochsPast, RecordStale
<1>6. AdmittedUnchanged'
  <2>1. ASSUME ph = "admitted" PROVE h \notin stale
    BY <1>0, <2>1 DEF Admissible, Authorized, Inv, EpochsPast
  <2>2. QED
    BY <1>1, <1>2, <1>4, <2>1 DEF AdmittedUnchanged, Inv
<1>7. QED
  BY <1>3, <1>5, <1>6 DEF Inv

-----------------------------------------------------------------------------
(* The theorems *)

\* The first boot satisfies the invariant.
LEMMA InitInv == Init => Inv
<1> SUFFICES ASSUME Init PROVE Inv
  OBVIOUS
<1> DEFINE L == Loaded(InitialDisk, 1)
<1>1. /\ Registry(L, ContainerRecord) /\ DOMAIN L = DOMAIN InitialDisk
      /\ LoadedKills(InitialDisk) \subseteq DOMAIN InitialDisk
      /\ \A n \in DOMAIN InitialDisk :
            /\ L[n].policy_epoch = 1 /\ L[n].managed
            /\ InitialDisk[n].instance \in {None, L[n].instance}
  BY LoadedType, InitialDiskAssumption
<1>2. \A h \in Handlers : work[h].phase = "idle"
  BY DEF Init, IdleWork
<1>3. TypeOK
  <2>1. work \in [Handlers -> Work]
    BY IdleType DEF Init
  <2>2. killed \subseteq Names
    BY <1>1 DEF Init, Registry
  <2>3. QED
    BY <1>1, <2>1, <2>2, InitialDiskAssumption DEF Init, TypeOK
<1>4. DurableAuthority
  <2>1. ASSUME NEW n \in DOMAIN InitialDisk
        PROVE  [InitialDisk[n] EXCEPT !.instance = L[n].instance]
                 = Saved(L, LoadedKills(InitialDisk))[n]
    <3> DEFINE d == InitialDisk
    <3>1. d[n] \in SavedContainer /\ L[n].managed
      BY <1>1, InitialDiskAssumption DEF Registry
    <3>2. (n \in LoadedKills(d)) = d[n].killed
      BY <3>1 DEF LoadedKills, SavedContainer
    <3>3. /\ L[n].approved = d[n].approved
          /\ L[n].pinned_ip = d[n].pinned_ip
          /\ L[n].comment_permissions = d[n].comment_permissions
          /\ L[n].cline_access = d[n].cline_access
      BY DEF Loaded, Fresh
    <3>4. Saved(L, LoadedKills(d))[n] =
            [instance |-> L[n].instance, approved |-> d[n].approved,
             killed |-> d[n].killed, pinned_ip |-> d[n].pinned_ip,
             comment_permissions |-> d[n].comment_permissions,
             cline_access |-> d[n].cline_access]
      BY <1>1, <3>1, <3>2, <3>3 DEF Saved
    <3>5. [d[n] EXCEPT !.instance = L[n].instance] =
            [instance |-> L[n].instance, approved |-> d[n].approved,
             killed |-> d[n].killed, pinned_ip |-> d[n].pinned_ip,
             comment_permissions |-> d[n].comment_permissions,
             cline_access |-> d[n].cline_access]
      BY <3>1 DEF SavedContainer
    <3>6. QED
      BY <3>4, <3>5
  <2>2. DOMAIN disk = {n \in DOMAIN containers : containers[n].managed}
    BY <1>1 DEF Init
  <2>3. QED
    BY <1>1, <2>1, <2>2 DEF Init, DurableAuthority
<1>5. EpochsPast
  BY <1>1, <1>2 DEF Init, EpochsPast
<1>6. QED
  BY <1>1, <1>3, <1>4, <1>5 DEF Inv, Init, AdmittedUnchanged

\* Every step of the registry, its traffic and its handlers preserves the invariant.
LEMMA StepInv == Inv /\ [Next]_vars => Inv'
<1> SUFFICES ASSUME Inv, [Next]_vars PROVE Inv'
  OBVIOUS
<1>1. CASE UNCHANGED vars
  BY <1>1 DEF vars, Inv, TypeOK, DurableAuthority, EpochsPast, AdmittedUnchanged
<1>2. CASE PolicyStep /\ RecordStale
  <2>1. ASSUME NEW n \in Names, NEW ip \in IPs \cup {None},
               AddContainer(n, ip) \/ SetPinnedIp(n, ip)
        PROVE  Inv'
    BY <1>2, <2>1, AddContainerCommits, SetPinnedIpCommits, CommitsInv
  <2>2. ASSUME NEW n \in Names, NEW pin \in BOOLEAN, ApproveContainer(n, pin) PROVE Inv'
    BY <1>2, <2>2, ApproveContainerCommits, CommitsInv
  <2>3. ASSUME NEW n \in Names, RemoveContainer(n) PROVE Inv'
    BY <1>2, <2>3, RemoveContainerCommits, CommitsInv
  <2>4. ASSUME NEW n \in Names, NEW kill \in BOOLEAN, SetKilled(n, kill) PROVE Inv'
    BY <1>2, <2>4, SetKilledCommits, CommitsInv
  <2>5. ASSUME NEW n \in Names, NEW access \in ClineAccess, SetClineAccess(n, access)
        PROVE  Inv'
    BY <1>2, <2>5, SetClineAccessCommits, CommitsInv
  <2>6. ASSUME NEW n \in DOMAIN containers, NEW t \in Targets, NEW b \in Bindings,
               AddCommentPermission(n, containers[n].policy_epoch,
                                    containers[n].comment_revision, t, b)
        PROVE  Inv'
    BY <1>2, <2>6, AddCommentPermissionCommits, CommitsInv
  <2>7. ASSUME NEW n \in DOMAIN containers, NEW g \in containers[n].comment_permissions,
               RevokeCommentPermission(n, g.id)
        PROVE  Inv'
    BY <1>2, <2>7, RevokeCommentPermissionCommits, CommitsInv
  <2>8. CASE ResetContainers
    BY <1>2, <2>8, ResetContainersCommits, CommitsInv
  <2>9. CASE PersistGuestIdentity
    BY <1>2, <2>9, PersistCommits, CommitsInv
  <2>10. CASE Restart
    <3>1. Registry(disk, SavedContainer)
      BY DEF Inv, TypeOK
    <3>2. disk' = disk /\ Boot(disk)
      BY <2>10 DEF Restart
    <3>3. QED
      BY <1>2, <3>1, <3>2, BootInv
  <2>11. QED
    BY <1>2, <2>1, <2>2, <2>3, <2>4, <2>5, <2>6, <2>7, <2>8, <2>9, <2>10 DEF PolicyStep
<1>3. CASE TrafficStep /\ RecordStale
  <2>1. \A peer : PinnedTo(peer) \subseteq Names /\ PendingAt(peer) \subseteq Names
    BY DEF PinnedTo, PendingAt, Inv, TypeOK, Registry
  <2>2. ASSUME NEW peer \in IPs, NEW presented \in Names \cup {None},
               AuthorizeProxyPeer(peer, presented)
        PROVE  Inv'
    <3>1. PICK n \in ProxyNames(peer, presented) : Touch(n, peer)
      BY <2>2 DEF AuthorizeProxyPeer
    <3>2. n \in Names
      BY <2>1, <3>1 DEF ProxyNames
    <3>3. QED
      BY <1>3, <3>1, <3>2, TouchInv
  <2>3. ASSUME NEW n \in Names, NEW peer \in IPs, AnnounceGuest(n, peer) PROVE Inv'
    <3>1. PICK m \in Names : Touch(m, peer)
      BY <2>1, <2>3 DEF AnnounceGuest
    <3>2. QED
      BY <1>3, <3>1, TouchInv
  <2>4. ASSUME NEW n \in Names, Record(n) PROVE Inv'
    BY <1>3, <2>4, TouchInv DEF Record
  <2>5. QED
    BY <1>3, <2>2, <2>3, <2>4 DEF TrafficStep
<1>4. CASE HandlerStep /\ RecordStale
  BY <1>4, HoldInv, AdmitRequestInv DEF HandlerStep
<1>5. QED
  BY <1>1, <1>2, <1>3, <1>4 DEF Next

(***************************************************************************)
(* The inductive invariant holds in every state of every behaviour.        *)
(***************************************************************************)
THEOREM Invariance == Spec => []Inv
<1>1. Inv /\ [Next]_vars => Inv'
  BY StepInv
<1>2. QED
  BY <1>1, InitInv, PTL DEF Spec

(***************************************************************************)
(* Type correctness of the registry, the file and the handlers.            *)
(***************************************************************************)
THEOREM TypeCorrect == Spec => []TypeOK
<1>1. Inv => TypeOK
  BY DEF Inv
<1>2. QED
  BY <1>1, Invariance, PTL

(***************************************************************************)
(* update_policy keeps containers.json equal to the decisions in force, so *)
(* a restart neither loses nor restores authority.                         *)
(***************************************************************************)
THEOREM AuthorityIsDurable == Spec => []DurableAuthority
<1>1. Inv => DurableAuthority
  BY DEF Inv
<1>2. QED
  BY <1>1, Invariance, PTL

(***************************************************************************)
(* admit_request and with_async_identity admit only a handler whose        *)
(* guest's authority did not change since its identity was captured.       *)
(***************************************************************************)
THEOREM AdmissionIsCurrent == Spec => []AdmittedUnchanged
<1>1. Inv => AdmittedUnchanged
  BY DEF Inv
<1>2. QED
  BY <1>1, Invariance, PTL

-----------------------------------------------------------------------------
(* What a step does to a guest's access and identity *)

\* A record after a boot from file d: the host's decisions, and a new epoch.
LEMMA BootRecord ==
  ASSUME Inv, NEW d, Registry(d, SavedContainer), Boot(d)
  PROVE  /\ stamp' = stamp + 1
         /\ DOMAIN containers' = DOMAIN d
         /\ \A n \in DOMAIN d :
               /\ d[n] \in SavedContainer
               /\ containers'[n].approved = d[n].approved
               /\ containers'[n].pinned_ip = d[n].pinned_ip
               /\ containers'[n].policy_epoch = stamp
               /\ containers'[n].instance = IF d[n].instance = None THEN stamp ELSE d[n].instance
               /\ n \in killed' <=> d[n].killed
<1>1. \A n \in DOMAIN d : d[n] \in SavedContainer
  BY DEF Registry
<1>2. containers' = Loaded(d, stamp) /\ killed' = LoadedKills(d) /\ stamp' = stamp + 1
  BY DEF Boot
<1>3. DOMAIN containers' = DOMAIN d /\ \A n \in DOMAIN d : n \in killed' <=> d[n].killed
  BY <1>2 DEF Loaded, LoadedKills
<1>4. ASSUME NEW n \in DOMAIN d
      PROVE  /\ containers'[n].approved = d[n].approved
             /\ containers'[n].pinned_ip = d[n].pinned_ip
             /\ containers'[n].policy_epoch = stamp
             /\ containers'[n].instance = IF d[n].instance = None THEN stamp ELSE d[n].instance
  BY <1>2 DEF Loaded, Fresh
<1> QED  BY <1>1, <1>2, <1>3, <1>4

\* The file written for an edit.
LEMMA SavedRecord ==
  ASSUME NEW C, NEW K, EditOK(C, K)
  PROVE  /\ Registry(Saved(C, K), SavedContainer)
         /\ DOMAIN Saved(C, K) = {m \in DOMAIN C : C[m].managed}
         /\ \A n \in DOMAIN Saved(C, K) :
               /\ Saved(C, K)[n].instance = C[n].instance
               /\ Saved(C, K)[n].approved = C[n].approved
               /\ Saved(C, K)[n].pinned_ip = C[n].pinned_ip
               /\ Saved(C, K)[n].killed <=> n \in K
<1>1. Registry(C, ContainerRecord)
  BY DEF EditOK
<1>2. Registry(Saved(C, K), SavedContainer) /\ DOMAIN Saved(C, K) = {m \in DOMAIN C : C[m].managed}
  BY <1>1, SavedType
<1>3. ASSUME NEW n \in DOMAIN Saved(C, K)
      PROVE  /\ Saved(C, K)[n].instance = C[n].instance
             /\ Saved(C, K)[n].approved = C[n].approved
             /\ Saved(C, K)[n].pinned_ip = C[n].pinned_ip
             /\ Saved(C, K)[n].killed <=> n \in K
  BY <1>3 DEF Saved
<1> QED  BY <1>2, <1>3

\* A record of an edit after its publication.
LEMMA PublishedRecord ==
  ASSUME NEW C, NEW K, EditOK(C, K), containers' = RefreshEpochs(C, K)
  PROVE  /\ DOMAIN containers' = DOMAIN C
         /\ \A n \in DOMAIN C :
               /\ C[n] \in ContainerRecord
               /\ containers'[n].approved = C[n].approved
               /\ containers'[n].pinned_ip = C[n].pinned_ip
               /\ containers'[n].instance = C[n].instance
               /\ containers'[n].policy_epoch =
                     IF n \in Changed(C, K) THEN stamp ELSE C[n].policy_epoch
<1>1. DOMAIN containers' = DOMAIN C
  BY DEF RefreshEpochs
<1>2. ASSUME NEW n \in DOMAIN C
      PROVE  /\ C[n] \in ContainerRecord
             /\ containers'[n].approved = C[n].approved
             /\ containers'[n].pinned_ip = C[n].pinned_ip
             /\ containers'[n].instance = C[n].instance
             /\ containers'[n].policy_epoch = IF n \in Changed(C, K) THEN stamp ELSE C[n].policy_epoch
  <2>1. PICK c \in ContainerRecord : c = C[n]
    BY DEF EditOK, Registry
  <2>2. containers'[n] = IF n \in Changed(C, K) THEN [c EXCEPT !.policy_epoch = stamp] ELSE c
    BY <2>1 DEF RefreshEpochs
  <2> QED  BY <2>1, <2>2 DEF ContainerRecord
<1> QED  BY <1>1, <1>2

\* The file and the registry agree on a managed guest.
LEMMA DiskRecord ==
  ASSUME Inv, NEW n \in DOMAIN disk
  PROVE  /\ n \in DOMAIN containers
         /\ disk[n].instance \in {None, containers[n].instance}
         /\ disk[n].approved = containers[n].approved
         /\ disk[n].pinned_ip = containers[n].pinned_ip
         /\ disk[n].killed <=> n \in killed
<1>1. n \in DOMAIN containers /\ containers[n].managed
  BY DEF Inv, DurableAuthority
<1>2. /\ disk[n].instance \in {None, containers[n].instance}
      /\ [disk[n] EXCEPT !.instance = containers[n].instance] = Saved(containers, killed)[n]
  BY <1>1 DEF Inv, DurableAuthority
<1>3. PICK d \in SavedContainer : d = disk[n]
  BY DEF Inv, TypeOK, Registry
<1>4. PICK e : e = [d EXCEPT !.instance = containers[n].instance]
  OBVIOUS
<1>5. e.approved = d.approved /\ e.pinned_ip = d.pinned_ip /\ e.killed = d.killed
  BY <1>3, <1>4 DEF SavedContainer
<1>6. e = Saved(containers, killed)[n]
  BY <1>2, <1>3, <1>4
<1>7. /\ Saved(containers, killed)[n].approved = containers[n].approved
      /\ Saved(containers, killed)[n].pinned_ip = containers[n].pinned_ip
      /\ Saved(containers, killed)[n].killed <=> n \in killed
  BY <1>1 DEF Saved
<1> QED  BY <1>1, <1>2, <1>3, <1>5, <1>6, <1>7

\* Traffic moves the last address of a guest or adds a join request.
LEMMA TouchRecord ==
  ASSUME Inv, NEW n \in Names, NEW peer, Touch(n, peer)
  PROVE  /\ DOMAIN containers' = DOMAIN containers \cup {n}
         /\ killed' = killed /\ disk' = disk
         /\ \A m \in DOMAIN containers :
               /\ containers'[m].approved = containers[m].approved
               /\ containers'[m].pinned_ip = containers[m].pinned_ip
               /\ containers'[m].instance = containers[m].instance
               /\ containers'[m].policy_epoch = containers[m].policy_epoch
         /\ n \notin DOMAIN containers => /\ stamp' = stamp + 1
                                          /\ containers'[n].approved = FALSE
                                          /\ containers'[n].pinned_ip = None
                                          /\ containers'[n].instance = stamp
                                          /\ containers'[n].policy_epoch = stamp
         /\ n \in DOMAIN containers => stamp' = stamp
<1> DEFINE C == WithEntry(containers, n)
<1>1. /\ DOMAIN C = DOMAIN containers \cup {n}
      /\ \A m \in DOMAIN containers : C[m] = containers[m] /\ C[m] \in ContainerRecord
      /\ n \notin DOMAIN containers => C[n] = Fresh(stamp)
  BY DEF Inv, TypeOK, Registry, WithEntry
<1>2. PICK a : containers' = [C EXCEPT ![n] = [C[n] EXCEPT !.last_ip = a]]
  <2>1. containers' = [C EXCEPT ![n].last_ip = IF peer = None THEN @ ELSE peer]
    BY DEF Touch
  <2> QED  BY <1>1, <2>1
<1> HIDE DEF C
<1>3. DOMAIN containers' = DOMAIN containers \cup {n}
  BY <1>1, <1>2
<1>4. ASSUME NEW m \in DOMAIN containers
      PROVE  /\ containers'[m].approved = containers[m].approved
             /\ containers'[m].pinned_ip = containers[m].pinned_ip
             /\ containers'[m].instance = containers[m].instance
             /\ containers'[m].policy_epoch = containers[m].policy_epoch
  <2>1. containers'[m] = IF m = n THEN [containers[m] EXCEPT !.last_ip = a] ELSE containers[m]
    BY <1>1, <1>2, <1>4
  <2>2. PICK c \in ContainerRecord : c = containers[m]
    BY <1>1
  <2> QED  BY <2>1, <2>2 DEF ContainerRecord
<1>5. n \notin DOMAIN containers => /\ containers'[n].approved = FALSE
                                    /\ containers'[n].pinned_ip = None
                                    /\ containers'[n].instance = stamp
                                    /\ containers'[n].policy_epoch = stamp
  BY <1>1, <1>2 DEF Fresh
<1> QED  BY <1>3, <1>4, <1>5 DEF Touch

\* A guest passes after an update only if the edit lets it.
LEMMA UpdatePasses ==
  ASSUME Inv, NEW C, NEW K, EditOK(C, K), UpdatePolicy(C, K), NEW n, NEW ip, Authorized(n, ip)'
  PROVE  Passes(C, K, n, ip)
<1>1. /\ n \in DOMAIN containers' /\ containers'[n].approved /\ n \notin killed'
      /\ containers'[n].pinned_ip \in {None, ip}
  BY DEF Authorized
<1>2. CASE containers' = RefreshEpochs(C, K) /\ killed' = K
  BY <1>1, <1>2, PublishedRecord DEF Passes
<1>3. CASE Boot(disk')
  <2>1. disk' = Saved(C, K)
    BY DEF UpdatePolicy
  <2>2. PICK d : d = Saved(C, K)
    OBVIOUS
  <2>3. Registry(d, SavedContainer) /\ Boot(d)
    BY <1>3, <2>1, <2>2, SavedRecord
  <2>4. /\ n \in DOMAIN d /\ containers'[n].approved = d[n].approved
        /\ containers'[n].pinned_ip = d[n].pinned_ip
        /\ n \in killed' <=> d[n].killed
    BY <1>1, <2>3, BootRecord
  <2>5. /\ n \in DOMAIN C /\ d[n].approved = C[n].approved
        /\ d[n].pinned_ip = C[n].pinned_ip
        /\ d[n].killed <=> n \in K
    <3>1. n \in DOMAIN Saved(C, K)
      BY <2>2, <2>4
    <3>2. /\ Saved(C, K)[n].approved = C[n].approved
          /\ Saved(C, K)[n].pinned_ip = C[n].pinned_ip
          /\ Saved(C, K)[n].killed <=> n \in K
      BY <3>1, SavedRecord, Zenon
    <3>3. n \in DOMAIN C
      BY <3>1 DEF Saved
    <3> QED  BY <2>2, <3>2, <3>3
  <2> QED  BY <1>1, <2>4, <2>5 DEF Passes
<1> QED  BY <1>2, <1>3 DEF UpdatePolicy

\* A commit lets through from a new address only the guests it names.
LEMMA CommitsAccess ==
  ASSUME Inv, NEW S, Commits(S), NEW n \in Names \ S
  PROVE  AllowedFrom(n)' \subseteq AllowedFrom(n)
<1>1. PICK C, K : EditOK(C, K) /\ Narrow(C, K, S) /\ UpdatePolicy(C, K)
  BY DEF Commits
<1>2. ASSUME NEW ip \in IPs, Authorized(n, ip)' PROVE Authorized(n, ip)
  <2>1. Passes(C, K, n, ip)
    BY <1>1, <1>2, UpdatePasses
  <2> QED  BY <1>1, <2>1 DEF Narrow, Passes
<1> QED  BY <1>2 DEF AllowedFrom

\* Neither does a restart.
LEMMA RestartAccess ==
  ASSUME Inv, Restart, NEW n PROVE AllowedFrom(n)' \subseteq AllowedFrom(n)
<1>1. Registry(disk, SavedContainer) /\ Boot(disk)
  BY DEF Restart, Inv, TypeOK
<1>2. ASSUME NEW ip \in IPs, Authorized(n, ip)' PROVE Authorized(n, ip)
  <2>1. /\ n \in DOMAIN disk /\ containers'[n].approved = disk[n].approved
        /\ containers'[n].pinned_ip = disk[n].pinned_ip
        /\ n \in killed' <=> disk[n].killed
    BY <1>1, <1>2, BootRecord DEF Authorized
  <2> QED  BY <1>2, <2>1, DiskRecord DEF Authorized
<1> QED  BY <1>2 DEF AllowedFrom

\* A step of the registry is a commit that gives access to the guests the host
\* named, a restart, a touch, or a handler's step.
LEMMA StepKinds ==
  ASSUME Inv, [Next]_vars
  PROVE  \/ \E S \in SUBSET Names : Commits(S) /\ \A n \in S : HostNames(n)
         \/ Restart
         \/ \E n \in Names, peer \in IPs \cup {None} : Touch(n, peer)
         \/ UNCHANGED policyVars
<1> DEFINE Named(S) == Commits(S) /\ \A n \in S : HostNames(n)
<1>1. CASE UNCHANGED vars
  BY <1>1 DEF vars, policyVars
<1>2. CASE PolicyStep
  <2>1. ASSUME NEW n \in Names, NEW ip \in IPs \cup {None}, AddContainer(n, ip) \/ SetPinnedIp(n, ip)
        PROVE  Named({n})
    BY <2>1, AddContainerCommits, SetPinnedIpCommits DEF HostNames
  <2>2. ASSUME NEW n \in Names, NEW pin \in BOOLEAN, ApproveContainer(n, pin) PROVE Named({n})
    BY <2>2, ApproveContainerCommits DEF HostNames
  <2>3. ASSUME NEW n \in Names, RemoveContainer(n) PROVE Named({})
    BY <2>3, RemoveContainerCommits
  <2>4. ASSUME NEW n \in Names, NEW kill \in BOOLEAN, SetKilled(n, kill) PROVE Named({}) \/ Named({n})
    <3>1. CASE kill = TRUE
      BY <2>4, <3>1, SetKilledCommits
    <3>2. CASE kill = FALSE
      BY <2>4, <3>2, SetKilledCommits DEF HostNames
    <3> QED  BY <3>1, <3>2
  <2>5. ASSUME NEW n \in Names, NEW access \in ClineAccess, SetClineAccess(n, access)
        PROVE  Named({})
    BY <2>5, SetClineAccessCommits
  <2>6. ASSUME NEW n \in DOMAIN containers, NEW t \in Targets, NEW b \in Bindings,
               AddCommentPermission(n, containers[n].policy_epoch,
                                    containers[n].comment_revision, t, b)
        PROVE  Named({})
    BY <2>6, AddCommentPermissionCommits
  <2>7. ASSUME NEW n \in DOMAIN containers, NEW g \in containers[n].comment_permissions,
               RevokeCommentPermission(n, g.id)
        PROVE  Named({})
    BY <2>7, RevokeCommentPermissionCommits
  <2>8. ASSUME ResetContainers PROVE Named({})
    BY <2>8, ResetContainersCommits
  <2>9. ASSUME PersistGuestIdentity PROVE Named({})
    BY <2>9, PersistCommits
  <2>10. \A n \in Names : {n} \in SUBSET Names
    OBVIOUS
  <2>11. (\E S \in SUBSET Names : Named(S)) \/ Restart
    <3> HIDE DEF Named
    <3>1. CASE \E n \in Names : \/ \E ip \in IPs \cup {None} : AddContainer(n, ip) \/ SetPinnedIp(n, ip)
                                \/ \E pin \in BOOLEAN : ApproveContainer(n, pin)
                                \/ RemoveContainer(n)
                                \/ \E kill \in BOOLEAN : SetKilled(n, kill)
                                \/ \E access \in ClineAccess : SetClineAccess(n, access)
      BY <2>1, <2>2, <2>3, <2>4, <2>5, <2>10, <3>1
    <3>2. CASE \E n \in DOMAIN containers :
                 \/ \E t \in Targets, b \in Bindings :
                       AddCommentPermission(n, containers[n].policy_epoch,
                                            containers[n].comment_revision, t, b)
                 \/ \E g \in containers[n].comment_permissions : RevokeCommentPermission(n, g.id)
      BY <2>6, <2>7, <3>2
    <3>3. CASE ResetContainers \/ PersistGuestIdentity
      BY <2>8, <2>9, <3>3
    <3> QED  BY <1>2, <3>1, <3>2, <3>3 DEF PolicyStep
  <2> QED  BY <2>11
<1>3. CASE TrafficStep
  <2>1. \A peer : PinnedTo(peer) \subseteq Names /\ PendingAt(peer) \subseteq Names
    BY DEF PinnedTo, PendingAt, Inv, TypeOK, Registry
  <2>2. ASSUME NEW peer \in IPs, NEW presented \in Names \cup {None},
               AuthorizeProxyPeer(peer, presented)
        PROVE  \E n \in Names : Touch(n, peer)
    <3>1. PICK n \in ProxyNames(peer, presented) : Touch(n, peer)
      BY <2>2 DEF AuthorizeProxyPeer
    <3>2. n \in Names
      BY <2>1, <3>1 DEF ProxyNames
    <3> QED  BY <3>1, <3>2
  <2>3. ASSUME NEW n \in Names, NEW peer \in IPs, AnnounceGuest(n, peer)
        PROVE  \E m \in Names : Touch(m, peer)
    BY <2>1, <2>3 DEF AnnounceGuest
  <2> QED  BY <1>3, <2>2, <2>3 DEF TrafficStep, Record
<1>4. CASE HandlerStep
  BY <1>4 DEF HandlerStep, Hold, AdmitRequest
<1> QED  BY <1>1, <1>2, <1>3, <1>4 DEF Next

(***************************************************************************)
(* A guest gains an address only in a step where the host names it: no     *)
(* transfer of a pin, no traffic, no crash and no restart lets a guest in  *)
(* (add_container, authorize_proxy_peer, load).                            *)
(***************************************************************************)
THEOREM AccessIsGiven == Spec => AccessGrowsByNameOnly
<1> DEFINE Given == \A n \in Names : AllowedFrom(n)' \subseteq AllowedFrom(n) \/ HostNames(n)
<1>1. Inv /\ [Next]_vars => [Given]_vars
  <2> SUFFICES ASSUME Inv, [Next]_vars, NEW n \in Names
               PROVE  AllowedFrom(n)' \subseteq AllowedFrom(n) \/ HostNames(n)
    OBVIOUS
  <2>1. ASSUME NEW S \in SUBSET Names, Commits(S), \A m \in S : HostNames(m)
        PROVE  AllowedFrom(n)' \subseteq AllowedFrom(n) \/ HostNames(n)
    BY <2>1, CommitsAccess
  <2>2. CASE Restart
    BY <2>2, RestartAccess
  <2>3. ASSUME NEW m \in Names, NEW peer \in IPs \cup {None}, Touch(m, peer)
        PROVE  AllowedFrom(n)' \subseteq AllowedFrom(n)
    <3>1. ASSUME NEW ip \in IPs, Authorized(n, ip)' PROVE Authorized(n, ip)
      BY <2>3, <3>1, TouchRecord DEF Authorized
    <3> QED  BY <3>1 DEF AllowedFrom
  <2>4. CASE UNCHANGED policyVars
    BY <2>4 DEF policyVars, AllowedFrom, Authorized
  <2> HIDE DEF Given
  <2> QED  BY <2>1, <2>2, <2>3, <2>4, StepKinds
<1>2. Spec => [][Given]_vars
  BY <1>1, Invariance, PTL DEF Spec
<1> QED  BY <1>2 DEF AccessGrowsByNameOnly

-----------------------------------------------------------------------------
(* Shared pins *)

\* A transaction, published or found in the file after a crash, leaves the pins
\* of its edit.
LEMMA UpdatePins ==
  ASSUME Inv, NEW C, NEW K, EditOK(C, K), UpdatePolicy(C, K)
  PROVE  SharesNoNewPin(containers, containers')
<1>1. \A n \in DOMAIN containers' :
         n \in DOMAIN C /\ containers'[n].pinned_ip = C[n].pinned_ip
  <2>1. CASE containers' = RefreshEpochs(C, K)
    BY <2>1, PublishedRecord
  <2>2. CASE Boot(disk')
    <3>1. PICK d : d = Saved(C, K)
      OBVIOUS
    <3>2. Registry(d, SavedContainer) /\ Boot(d)
      BY <2>2, <3>1, SavedRecord DEF UpdatePolicy
    <3>3. \A n \in DOMAIN d : n \in DOMAIN C /\ d[n].pinned_ip = C[n].pinned_ip
      <4>1. \A n \in DOMAIN Saved(C, K) : n \in DOMAIN C
        BY DEF Saved
      <4>2. \A n \in DOMAIN Saved(C, K) : Saved(C, K)[n].pinned_ip = C[n].pinned_ip
        BY SavedRecord, Zenon
      <4> QED  BY <3>1, <4>1, <4>2
    <3> QED  BY <3>2, <3>3, BootRecord
  <2> QED  BY <2>1, <2>2 DEF UpdatePolicy
<1> QED  BY <1>1 DEF EditOK, SharesNoNewPin

(***************************************************************************)
(* add_container, approve_container, set_pinned_ip, their crashes and load *)
(* never make two guests share a pin that they did not share.              *)
(***************************************************************************)
THEOREM PinsAreNotShared == Spec => UniquePins
<1>1. Inv /\ [Next]_vars => [SharesNoNewPin(containers, containers')]_vars
  <2> SUFFICES ASSUME Inv, [Next]_vars PROVE SharesNoNewPin(containers, containers')
    OBVIOUS
  <2>1. ASSUME NEW S, Commits(S) PROVE SharesNoNewPin(containers, containers')
    BY <2>1, UpdatePins DEF Commits
  <2>2. CASE Restart
    <3>1. Registry(disk, SavedContainer) /\ Boot(disk)
      BY <2>2 DEF Restart, Inv, TypeOK
    <3>2. \A n \in DOMAIN containers' :
             n \in DOMAIN containers /\ containers'[n].pinned_ip = containers[n].pinned_ip
      BY <3>1, BootRecord, DiskRecord
    <3> QED  BY <3>2 DEF SharesNoNewPin
  <2>3. ASSUME NEW n \in Names, NEW peer \in IPs \cup {None}, Touch(n, peer)
        PROVE  SharesNoNewPin(containers, containers')
    <3>1. DOMAIN containers' = DOMAIN containers \cup {n}
          /\ \A m \in DOMAIN containers : containers'[m].pinned_ip = containers[m].pinned_ip
      BY <2>3, TouchRecord
    <3>2. n \notin DOMAIN containers => containers'[n].pinned_ip = None
      BY <2>3, TouchRecord
    <3> QED  BY <3>1, <3>2 DEF SharesNoNewPin
  <2>4. CASE UNCHANGED policyVars
    BY <2>4 DEF policyVars, SharesNoNewPin
  <2> QED  BY <2>1, <2>2, <2>3, <2>4, StepKinds
<1> QED  BY <1>1, Invariance, PTL DEF Spec, UniquePins

\* No two guests of a registry or a file hold one pin.
PinsUnique(f) ==
  \A m, n \in DOMAIN f : f[m].pinned_ip = f[n].pinned_ip /\ f[m].pinned_ip # None => m = n

(***************************************************************************)
(* Where the first containers.json gives every address to one guest at     *)
(* most, no two guests are ever pinned to one address.                     *)
(***************************************************************************)
THEOREM PinsStayUnique ==
  ASSUME PinsUnique(InitialDisk) PROVE Spec => []PinsUnique(containers)
<1>1. Init => PinsUnique(containers)
  BY LoadedType, InitialDiskAssumption DEF Init, PinsUnique
<1>2. PinsUnique(containers) /\ [SharesNoNewPin(containers, containers')]_vars
        => PinsUnique(containers)'
  BY DEF PinsUnique, SharesNoNewPin, vars
<1> QED  BY <1>1, <1>2, PinsAreNotShared, PTL DEF Spec, UniquePins

-----------------------------------------------------------------------------
(* The refinement of GuestAuthority *)

\* The identity of a guest with these fields.
Person(instance, epoch, peers, durable) ==
  [instance |-> instance, epoch |-> epoch, peers |-> peers, durable |-> durable]

Nobody == Person(0, 0, {}, FALSE)

Durable(n) == n \in DOMAIN disk /\ disk[n].instance # None

\* What the workers are told of a known and of an unknown guest.
LEMMA IdentityCases ==
  ASSUME Inv, NEW n \in Names
  PROVE  /\ n \in DOMAIN containers =>
              /\ IdentityOf(n) = Person(containers[n].instance, containers[n].policy_epoch,
                                        AllowedFrom(n), Durable(n))
              /\ containers[n].instance \in Nat
              /\ containers[n].policy_epoch \in Nat /\ containers[n].policy_epoch # 0
         /\ n \notin DOMAIN containers => IdentityOf(n) = Nobody
         /\ AllowedFrom(n) \in SUBSET IPs
         /\ Durable(n) \in BOOLEAN
<1>1. AllowedFrom(n) \in SUBSET IPs /\ Durable(n) \in BOOLEAN
  BY DEF AllowedFrom, Durable
<1>2. n \notin DOMAIN containers => IdentityOf(n) = Nobody
  BY DEF IdentityOf, Nobody, Person
<1>3. n \in DOMAIN containers =>
        IdentityOf(n) = Person(containers[n].instance, containers[n].policy_epoch,
                               AllowedFrom(n), Durable(n))
  BY DEF IdentityOf, Person, Durable
<1>4. n \in DOMAIN containers =>
        /\ containers[n].instance \in Nat
        /\ containers[n].policy_epoch \in Nat /\ containers[n].policy_epoch # 0
  BY DEF Inv, TypeOK, Registry, ContainerRecord, EpochsPast
<1> QED  BY <1>1, <1>2, <1>3, <1>4

\* The successors that the contract allows an identity.
LEMMA SuccessorCases ==
  ASSUME NEW a \in Nat, NEW e \in Nat, NEW p \in SUBSET IPs, NEW d \in BOOLEAN,
         NEW q \in SUBSET IPs, NEW f \in BOOLEAN, NEW i
  PROVE  /\ Nobody \in Authority!Successors(i)
         /\ i \in Authority!Successors(i)
         /\ Person(stamp, stamp, q, f) \in Authority!Successors(i)
         /\ Person(a, e, p, TRUE) \in Authority!Successors(Person(a, e, p, d))
         /\ e # 0 /\ f \in {d, TRUE} =>
              Person(a, stamp, q, f) \in Authority!Successors(Person(a, e, p, d))
<1>1. Nobody = Authority!Absent
  BY DEF Nobody, Person, Authority!Absent
<1>2. Nobody \in Authority!Successors(i) /\ i \in Authority!Successors(i)
  BY <1>1 DEF Authority!Successors
<1>3. Person(stamp, stamp, q, f) \in
        [instance : {stamp}, epoch : {stamp}, peers : SUBSET IPs, durable : BOOLEAN]
  BY DEF Person
<1>4. Person(stamp, stamp, q, f) \in Authority!Successors(i)
  BY <1>3 DEF Authority!Successors, Authority!Renewed
<1>5. Person(a, e, p, TRUE) = [Person(a, e, p, d) EXCEPT !.durable = TRUE]
  <2>1. \A yes, was : Person(a, e, p, yes) = [Person(a, e, p, was) EXCEPT !.durable = yes]
    BY DEF Person
  <2> QED  BY <2>1
<1>6. Person(a, e, p, TRUE) \in Authority!Successors(Person(a, e, p, d))
  BY <1>5 DEF Authority!Successors
<1>7. ASSUME e # 0, f \in {d, TRUE}
      PROVE  Person(a, stamp, q, f) \in Authority!Successors(Person(a, e, p, d))
  <2>1. Person(a, e, p, d).epoch = e /\ Authority!Absent.epoch = 0
    BY DEF Person, Authority!Absent
  <2>2. Person(a, e, p, d) # Authority!Absent
    BY <1>7, <2>1
  <2>3. Person(a, e, p, d).instance = a /\ Person(a, e, p, d).durable = d
    BY DEF Person
  <2>4. Person(a, stamp, q, f) \in
          [instance : {a}, epoch : {stamp}, peers : SUBSET IPs, durable : {d, TRUE}]
    BY <1>7 DEF Person
  <2>5. Person(a, stamp, q, f) \in Authority!Renewed(Person(a, e, p, d))
    BY <2>2, <2>3, <2>4 DEF Authority!Renewed
  <2> QED  BY <2>5 DEF Authority!Successors
<1> QED  BY <1>2, <1>4, <1>6, <1>7

\* What the workers are told after a step.
LEMMA NextIdentity ==
  ASSUME NEW n
  PROVE  /\ n \in DOMAIN containers' =>
              IdentityOf(n)' = Person(containers'[n].instance, containers'[n].policy_epoch,
                                      AllowedFrom(n)', Durable(n)')
         /\ n \notin DOMAIN containers' => IdentityOf(n)' = Nobody
         /\ AllowedFrom(n)' \in SUBSET IPs
         /\ Durable(n)' \in BOOLEAN
  BY DEF IdentityOf, Person, Nobody, AllowedFrom, Durable

\* The identity of guest n moves as the contract allows.
Follows(n) == IdentityOf(n)' \in Authority!Successors(IdentityOf(n))

\* An unknown guest may follow any identity, and a new incarnation too.
LEMMA FollowsNew ==
  ASSUME Inv, NEW n \in Names,
         \/ n \notin DOMAIN containers'
         \/ /\ n \in DOMAIN containers'
            /\ containers'[n].instance = stamp
            /\ containers'[n].policy_epoch = stamp
  PROVE  Follows(n)
<1>1. PICK q \in SUBSET IPs, f \in BOOLEAN : q = AllowedFrom(n)' /\ f = Durable(n)'
  BY NextIdentity
<1>2. IdentityOf(n)' = Nobody \/ IdentityOf(n)' = Person(stamp, stamp, q, f)
  BY <1>1, NextIdentity
<1>3. PICK i : i = IdentityOf(n)
  OBVIOUS
<1>4. Nobody \in Authority!Successors(i) /\ Person(stamp, stamp, q, f) \in Authority!Successors(i)
  <2>1. 0 \in Nat
    OBVIOUS
  <2> QED  BY <2>1, SuccessorCases
<1> QED  BY <1>2, <1>3, <1>4 DEF Follows

\* A known guest keeps its incarnation under a new epoch, or under the old one
\* with the same access; the file does not lose it.
LEMMA FollowsKnown ==
  ASSUME Inv, NEW n \in Names, n \in DOMAIN containers, n \in DOMAIN containers',
         containers'[n].instance = containers[n].instance,
         \/ containers'[n].policy_epoch = stamp
         \/ /\ containers'[n].policy_epoch = containers[n].policy_epoch
            /\ AllowedFrom(n)' = AllowedFrom(n),
         Durable(n) => Durable(n)'
  PROVE  Follows(n)
<1>1. PICK q \in SUBSET IPs, f \in BOOLEAN : q = AllowedFrom(n)' /\ f = Durable(n)'
  BY NextIdentity
<1>2. PICK a \in Nat, e \in Nat, p \in SUBSET IPs, d \in BOOLEAN :
        /\ a = containers[n].instance /\ e = containers[n].policy_epoch /\ e # 0
        /\ p = AllowedFrom(n) /\ d = Durable(n)
  BY IdentityCases
<1>3. IdentityOf(n) = Person(a, e, p, d)
  BY <1>2, IdentityCases
<1>4. IdentityOf(n)' = Person(a, containers'[n].policy_epoch, q, f)
  BY <1>1, <1>2, NextIdentity
<1>5. f \in {d, TRUE}
  BY <1>1, <1>2
<1>6. /\ Person(a, stamp, q, f) \in Authority!Successors(Person(a, e, p, d))
      /\ Person(a, e, p, f) \in Authority!Successors(Person(a, e, p, d))
  BY <1>2, <1>5, SuccessorCases
<1>7. CASE containers'[n].policy_epoch = stamp
  BY <1>3, <1>4, <1>6, <1>7 DEF Follows
<1>8. CASE containers'[n].policy_epoch = e /\ q = p
  BY <1>3, <1>4, <1>6, <1>8 DEF Follows
<1> QED  BY <1>1, <1>2, <1>7, <1>8

\* A transaction, published or found in the file after a crash.
LEMMA UpdateFollows ==
  ASSUME Inv, NEW C, NEW K, EditOK(C, K), UpdatePolicy(C, K), NEW n \in Names
  PROVE  Follows(n)
<1>1. disk' = Saved(C, K)
  BY DEF UpdatePolicy
<1>2. n \in DOMAIN containers => /\ containers[n] \in ContainerRecord
                                 /\ Durable(n) => containers[n].managed
  BY DEF Inv, TypeOK, Registry, Durable, DurableAuthority
<1>3. ASSUME NEW c, n \in DOMAIN C, c = C[n]
      PROVE  /\ c \in ContainerRecord /\ c.instance \in Nat /\ c.instance # None
             /\ n \in DOMAIN containers => /\ c.instance = containers[n].instance
                                           /\ c.policy_epoch = containers[n].policy_epoch
                                           /\ containers[n].managed => c.managed
             /\ n \notin DOMAIN containers => c.instance = stamp /\ c.policy_epoch = stamp
             /\ c.managed => Durable(n)'
  <2>1. c \in ContainerRecord
    BY <1>3 DEF EditOK, Registry
  <2>2. c.instance \in Nat /\ c.instance # None
    BY <2>1, ConstantsAssumption DEF ContainerRecord
  <2>3. ASSUME c.managed PROVE Durable(n)'
    <3>1. n \in DOMAIN Saved(C, K) /\ Saved(C, K)[n].instance = c.instance
      BY <1>3, <2>3 DEF Saved
    <3> QED  BY <1>1, <2>2, <3>1 DEF Durable
  <2> QED  BY <1>3, <2>1, <2>2, <2>3 DEF EditOK
<1>4. CASE containers' = RefreshEpochs(C, K) /\ killed' = K
  <2>1. CASE n \notin DOMAIN C
    BY <1>4, <2>1, PublishedRecord, FollowsNew
  <2>2. CASE n \in DOMAIN C
    <3>1. PICK c : c = C[n]
      OBVIOUS
    <3>2. /\ n \in DOMAIN containers' /\ containers'[n].instance = c.instance
          /\ containers'[n].approved = c.approved /\ containers'[n].pinned_ip = c.pinned_ip
          /\ containers'[n].policy_epoch = IF n \in Changed(C, K) THEN stamp ELSE c.policy_epoch
      BY <1>4, <2>2, <3>1, PublishedRecord
    <3>3. CASE n \notin DOMAIN containers
      BY <1>3, <2>2, <3>1, <3>2, <3>3, FollowsNew
    <3>4. CASE n \in DOMAIN containers
      <4>1. Durable(n) => Durable(n)'
        BY <1>2, <1>3, <2>2, <3>1, <3>4
      <4>2. containers'[n].instance = containers[n].instance
        BY <1>3, <2>2, <3>1, <3>2, <3>4
      <4>3. CASE n \in Changed(C, K)
        BY <3>2, <3>4, <4>1, <4>2, <4>3, FollowsKnown
      <4>4. CASE n \notin Changed(C, K)
        <5>1. /\ c.approved = containers[n].approved
              /\ c.pinned_ip = containers[n].pinned_ip
              /\ (n \in K) = (n \in killed)
          BY <2>2, <3>1, <3>4, <4>4 DEF Changed
        <5>2. AllowedFrom(n)' = AllowedFrom(n)
          BY <1>4, <3>2, <3>4, <5>1 DEF AllowedFrom, Authorized
        <5>3. containers'[n].policy_epoch = containers[n].policy_epoch
          BY <1>3, <2>2, <3>1, <3>2, <3>4, <4>4
        <5> QED  BY <3>2, <3>4, <4>1, <4>2, <5>2, <5>3, FollowsKnown
      <4> QED  BY <4>3, <4>4
    <3> QED  BY <3>3, <3>4
  <2> QED  BY <2>1, <2>2
<1>5. CASE Boot(disk')
  <2>1. PICK d : d = Saved(C, K)
    OBVIOUS
  <2>2. Registry(d, SavedContainer) /\ Boot(d)
    BY <1>1, <1>5, <2>1, SavedRecord
  <2>3. CASE n \notin DOMAIN d
    BY <2>2, <2>3, BootRecord, FollowsNew
  <2>4. CASE n \in DOMAIN d
    <3>1. PICK c : c = C[n]
      OBVIOUS
    <3>2. n \in DOMAIN C /\ c.managed /\ d[n].instance = c.instance
      BY <2>1, <2>4, <3>1 DEF Saved
    <3>3. /\ n \in DOMAIN containers' /\ containers'[n].policy_epoch = stamp
          /\ containers'[n].instance = c.instance
      BY <1>3, <2>2, <2>4, <3>1, <3>2, BootRecord
    <3>4. CASE n \notin DOMAIN containers
      BY <1>3, <3>1, <3>2, <3>3, <3>4, FollowsNew
    <3>5. CASE n \in DOMAIN containers
      BY <1>3, <3>1, <3>2, <3>3, <3>5, FollowsKnown
    <3> QED  BY <3>4, <3>5
  <2> QED  BY <2>3, <2>4
<1> QED  BY <1>4, <1>5 DEF UpdatePolicy

\* A restart from the file as it is.
LEMMA RestartFollows ==
  ASSUME Inv, Restart, NEW n \in Names PROVE Follows(n)
<1>1. Registry(disk, SavedContainer) /\ Boot(disk) /\ disk' = disk
  BY DEF Restart, Inv, TypeOK
<1>2. CASE n \notin DOMAIN disk
  BY <1>1, <1>2, BootRecord, FollowsNew
<1>3. CASE n \in DOMAIN disk
  <2>1. /\ n \in DOMAIN containers' /\ containers'[n].policy_epoch = stamp
        /\ containers'[n].instance = IF disk[n].instance = None THEN stamp ELSE disk[n].instance
    BY <1>1, <1>3, BootRecord
  <2>2. n \in DOMAIN containers /\ disk[n].instance \in {None, containers[n].instance}
    BY <1>3, DiskRecord
  <2>3. CASE disk[n].instance = None
    BY <2>1, <2>3, FollowsNew
  <2>4. CASE disk[n].instance # None
    BY <1>1, <2>1, <2>2, <2>4, FollowsKnown DEF Durable
  <2> QED  BY <2>3, <2>4
<1> QED  BY <1>2, <1>3

\* Traffic adds a join request, under a new incarnation, or changes nothing.
LEMMA TouchFollows ==
  ASSUME Inv, NEW m \in Names, NEW peer, Touch(m, peer), NEW n \in Names
  PROVE  IF m \in DOMAIN containers THEN IdentityOf(n)' = IdentityOf(n) ELSE Follows(n)
<1>1. Durable(n)' = Durable(n)
  BY TouchRecord DEF Durable
<1>2. n \in DOMAIN containers => AllowedFrom(n)' = AllowedFrom(n)
  BY TouchRecord DEF AllowedFrom, Authorized
<1>3. CASE n \in DOMAIN containers
  <2>1. /\ n \in DOMAIN containers' /\ containers'[n].instance = containers[n].instance
        /\ containers'[n].policy_epoch = containers[n].policy_epoch
    BY <1>3, TouchRecord
  <2>2. Follows(n)
    BY <1>1, <1>2, <1>3, <2>1, FollowsKnown
  <2>3. IdentityOf(n)' = IdentityOf(n)
    BY <1>1, <1>2, <1>3, <2>1, NextIdentity, IdentityCases
  <2> QED  BY <2>2, <2>3
<1>4. CASE n \notin DOMAIN containers /\ n = m
  BY <1>4, TouchRecord, FollowsNew
<1>5. CASE n \notin DOMAIN containers /\ n # m
  <2>1. n \notin DOMAIN containers'
    BY <1>5, TouchRecord
  <2> QED  BY <1>5, <2>1, FollowsNew, NextIdentity, IdentityCases
<1> QED  BY <1>3, <1>4, <1>5

\* The first boot starts where the contract starts.
LEMMA AuthorityStarts == Init => Authority!AuthorityInit
<1> SUFFICES ASSUME Init PROVE Authority!AuthorityInit
  OBVIOUS
<1>1. Inv /\ stamp = 2
  BY InitInv DEF Init
<1>2. ASSUME NEW n \in Names
      PROVE  /\ IdentityOf(n) \in Authority!Identity
             /\ IdentityOf(n).instance < stamp /\ IdentityOf(n).epoch < stamp
  <2>1. ASSUME n \in DOMAIN containers
        PROVE  containers[n].instance \in {0, 1} /\ containers[n].policy_epoch = 1
    <3>1. n \in DOMAIN InitialDisk /\ containers = Loaded(InitialDisk, 1)
      BY <2>1 DEF Init, Loaded
    <3>2. InitialDisk[n].instance \in {0, None}
      BY <3>1, InitialDiskAssumption
    <3> QED  BY <3>1, <3>2, ConstantsAssumption DEF Loaded, Fresh
  <2>2. PICK a \in {0, 1}, e \in {0, 1}, p \in SUBSET IPs, d \in BOOLEAN :
          IdentityOf(n) = Person(a, e, p, d)
    <3>1. CASE n \in DOMAIN containers
      BY <1>1, <2>1, <3>1, IdentityCases
    <3>2. CASE n \notin DOMAIN containers
      <4>1. IdentityOf(n) = Person(0, 0, {}, FALSE)
        BY <1>1, <3>2, IdentityCases DEF Nobody
      <4> QED  BY <4>1
    <3> QED  BY <3>1, <3>2
  <2>3. Person(a, e, p, d) \in Authority!Identity
    BY DEF Person, Authority!Identity
  <2>4. Person(a, e, p, d).instance = a /\ Person(a, e, p, d).epoch = e
    BY DEF Person
  <2> QED  BY <1>1, <2>2, <2>3, <2>4
<1> QED  BY <1>1, <1>2 DEF Authority!AuthorityInit

\* Every step is a step of the contract or invisible to it.
LEMMA AuthorityFollows ==
  ASSUME Inv, [Next]_vars
  PROVE  \/ /\ \A n \in Names : Follows(n)
            /\ stamp' = stamp + 1
         \/ /\ \A n \in Names : IdentityOf(n)' = IdentityOf(n)
            /\ stamp' = stamp
<1>1. ASSUME NEW S, Commits(S) PROVE (\A n \in Names : Follows(n)) /\ stamp' = stamp + 1
  <2>1. PICK C, K : EditOK(C, K) /\ UpdatePolicy(C, K)
    BY <1>1 DEF Commits
  <2>2. stamp' = stamp + 1
    BY <2>1 DEF UpdatePolicy, Boot
  <2> QED  BY <2>1, <2>2, UpdateFollows
<1>2. CASE Restart
  <2>1. stamp' = stamp + 1
    BY <1>2 DEF Restart, Boot
  <2> QED  BY <1>2, <2>1, RestartFollows
<1>3. ASSUME NEW m \in Names, NEW peer \in IPs \cup {None}, Touch(m, peer)
      PROVE  \/ (\A n \in Names : Follows(n)) /\ stamp' = stamp + 1
             \/ (\A n \in Names : IdentityOf(n)' = IdentityOf(n)) /\ stamp' = stamp
  <2>1. CASE m \in DOMAIN containers
    BY <1>3, <2>1, TouchRecord, TouchFollows
  <2>2. CASE m \notin DOMAIN containers
    BY <1>3, <2>2, TouchRecord, TouchFollows
  <2> QED  BY <2>1, <2>2
<1>4. CASE UNCHANGED policyVars
  BY <1>4 DEF policyVars, IdentityOf, AllowedFrom, Authorized
<1> QED  BY <1>1, <1>2, <1>3, <1>4, StepKinds

(***************************************************************************)
(* The registry keeps the contract the workers rely on: whatever policy    *)
(* writer, crash or restart changes what a guest is allowed, its epoch is  *)
(* one never used before, and a name that was removed returns as a new     *)
(* incarnation (update_policy, load, touch_container).                     *)
(***************************************************************************)
THEOREM AuthorityImplemented == Spec => ImplementsAuthority
<1> DEFINE told == [n \in Names |-> IdentityOf(n)]
<1>1. Inv /\ [Next]_vars => [Authority!AuthorityNext]_<<told, stamp>>
  <2> SUFFICES ASSUME Inv, [Next]_vars
               PROVE  Authority!AuthorityNext \/ UNCHANGED <<told, stamp>>
    OBVIOUS
  <2>1. told' = [n \in Names |-> told'[n]] /\ \A n \in Names : told'[n] = IdentityOf(n)'
    OBVIOUS
  <2>2. ASSUME \A n \in Names : Follows(n), stamp' = stamp + 1
        PROVE  Authority!AuthorityNext
    <3>1. \A n \in Names : told'[n] \in Authority!Successors(told[n])
      BY <2>2 DEF Follows
    <3>2. Authority!Revise
      BY <2>2, <3>1 DEF Authority!Revise
    <3> QED  BY <2>1, <3>2 DEF Authority!AuthorityNext
  <2>3. ASSUME \A n \in Names : IdentityOf(n)' = IdentityOf(n), stamp' = stamp
        PROVE  UNCHANGED <<told, stamp>>
    BY <2>3
  <2> QED  BY <2>2, <2>3, AuthorityFollows
<1>2. Spec => Authority!AuthorityInit /\ [][Authority!AuthorityNext]_<<told, stamp>>
  BY <1>1, AuthorityStarts, Invariance, PTL DEF Spec
<1> QED  BY <1>2, PTL DEF ImplementsAuthority, Authority!AuthoritySpec
=============================================================================
