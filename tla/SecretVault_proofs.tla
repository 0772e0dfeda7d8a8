------------------------ MODULE SecretVault_proofs ------------------------
(***************************************************************************)
(* Proofs about SecretVault, for any number of brokers, any snapshots and  *)
(* any number of chunks: the snapshot the manifest selects is intact, no   *)
(* entry is orphaned, and the store implements the register Settings takes *)
(* it for.                                                                 *)
(*                                                                         *)
(* Neither invariant is inductive.  What makes them so is what the process *)
(* that holds the lock knows at each of its steps: that the manifest in    *)
(* its hand is the one in the store, that what it is about to delete is    *)
(* named as pending or retired, that what it is about to write is named as *)
(* pending, and, for the refinement, whose snapshot it has in hand.        *)
(***************************************************************************)
EXTENDS SecretVault, SequenceTheorems, TLAPS

-----------------------------------------------------------------------------
(* The inductive invariant *)

\* The entries of a list.
SetOf(s) == {s[i] : i \in DOMAIN s}

Named == {manifest.current, manifest.pending, manifest.retired}

\* The snapshot the manifest selects.
Selected == IF manifest.current = None THEN None ELSE manifest.current.snapshot

\* What a first start saves.
AtFirst == IF legacy = None THEN Empty ELSE legacy

\* What holds in the stores whoever is running.  Until a migration is marked,
\* a store without a file can only hold the empty snapshot.
StoreOK ==
  /\ Valid(manifest)
  /\ Readable(manifest.current)
  /\ NoOrphans
  /\ \A g \in Named : g # None => g.id < nextId
  /\ ~marker /\ legacy = None => Selected \in {None, Empty}

\* The store a process works with, and when it serves.
ModePart(p) ==
  /\ IF p.pc = "off" THEN p = Off ELSE p.mode # None
  /\ p.cache # None <=> (p.pc = "serving" \/ p.task = "update")
  /\ p.pc = "serving" => p.task = None
  /\ p.pc \in {"off", "serving", "file", "return"} \/ p.mode = "os"
  /\ p.mode = "file" => p.pc = "serving" \/ p.task = "update"
  /\ p.pc = "file" => p.mode = "file"
  /\ p.mode = "os" /\ p.cache # None => legacy = None /\ marker /\ manifest.current # None

InVault == {"read", "sweep", "stage", "write", "commit"}
Last == {"marker", "unlink"}

\* What is being done, and which snapshot it is done with.
TaskPart(p) ==
  /\ p.pc \in InVault \cup {"migrate", "return", "file"} \cup Last => p.task # None
  /\ p.task \in Loading =>
       p.gen = None /\ p.pc \in {"read", "sweep", "migrate"} \cup Last
  /\ p.task = "confirm" => legacy # None /\ p.goal = legacy
  /\ p.task = "init" => p.pc \in InVault \cup {"return"} \cup Last /\ p.goal = AtFirst
  /\ p.task = "init" /\ p.pc \notin Last => ~marker
  /\ p.task = "update" =>
       p.goal \in Snapshots /\ p.pc \in InVault \cup {"return", "file"}

\* What a process knows of the stores at each of its steps.
StepPart(p) ==
  /\ p.pc = "read" => p.gen = None
  /\ p.pc \in {"sweep", "stage", "write", "commit"} => p.local = manifest
  /\ p.pc = "sweep" =>
       /\ SetOf(p.todo) \subseteq Keys(manifest.pending) \cup Keys(manifest.retired)
       /\ DOMAIN chunks \subseteq Keys(manifest.current) \cup SetOf(p.todo)
       /\ p.gen # None => p.gen = manifest.current /\ p.gen.snapshot = p.goal
  /\ p.pc \in {"sweep", "migrate"} /\ p.task \in Loading => p.got = Selected
  /\ p.pc = "stage" => p.gen = None /\ manifest.pending = None /\ manifest.retired = None
  /\ p.pc \in {"write", "commit"} =>
       /\ p.gen # None /\ p.gen = manifest.pending /\ p.gen.snapshot = p.goal
       /\ manifest.retired = None
  /\ p.pc = "write" => SetOf(p.todo) \subseteq Keys(p.gen)
  /\ p.pc = "commit" => Readable(p.gen)
  /\ p.pc = "return" => IF p.mode = "os" THEN Selected = p.goal ELSE legacy = p.goal
  /\ p.pc \in Last => Selected = p.goal /\ p.goal # None /\ legacy \in {None, p.goal}
  /\ p.pc = "unlink" => marker

ProcessOK(p) == ModePart(p) /\ TaskPart(p) /\ StepPart(p)

IInv == TypeOK /\ StoreOK /\ \A b \in Brokers : ProcessOK(broker[b])

-----------------------------------------------------------------------------
(* Entries and manifests *)

\* Different generations have different entries.
LEMMA KeysApart ==
  ASSUME NEW g, NEW h, g # None /\ h # None => g.id # h.id
  PROVE  Keys(g) \cap Keys(h) = {}
BY DEF Keys

LEMMA KeysShape ==
  ASSUME NEW g \in Generation \cup {None}
  PROVE  /\ Keys(g) \subseteq Nat \X Nat
         /\ KeysOf(g) \in Seq(Nat \X Nat)
         /\ SetOf(KeysOf(g)) = Keys(g)
<1>1. CASE g = None
  BY <1>1 DEF Keys, KeysOf, SetOf
<1>2. CASE g # None
  <2>1. g.id \in Nat /\ Chunks[g.snapshot] \in Nat
    BY <1>2, VaultAssumption DEF Generation
  <2>2. \A i \in 1 .. Chunks[g.snapshot] : <<g.id, i>> \in Nat \X Nat
    BY <2>1
  <2>3. KeysOf(g) = [i \in 1 .. Chunks[g.snapshot] |-> <<g.id, i>>]
    BY <1>2 DEF KeysOf
  <2>4. KeysOf(g) \in [1 .. Chunks[g.snapshot] -> Nat \X Nat]
    BY <2>2, <2>3
  <2>5. KeysOf(g) \in Seq(Nat \X Nat)
    BY <2>1, <2>4, SeqDef
  <2>6. Keys(g) = {<<g.id, i>> : i \in 1 .. Chunks[g.snapshot]}
    BY <1>2 DEF Keys
  <2>7. SetOf(KeysOf(g)) = Keys(g)
    BY <2>3, <2>6 DEF SetOf
  <2> QED  BY <2>2, <2>5, <2>6, <2>7
<1> QED  BY <1>1, <1>2

LEMMA SetOfConcat ==
  ASSUME NEW S, NEW s \in Seq(S), NEW t \in Seq(S)
  PROVE  s \o t \in Seq(S) /\ SetOf(s \o t) = SetOf(s) \cup SetOf(t)
<1>1. s \o t \in Seq(S) /\ Len(s \o t) = Len(s) + Len(t)
  BY ConcatProperties
<1>2. \A i \in 1 .. Len(s) : (s \o t)[i] = s[i]
  OBVIOUS
<1>3. \A i \in 1 .. Len(t) : (s \o t)[Len(s) + i] = t[i]
  OBVIOUS
<1>4. ASSUME NEW i \in DOMAIN (s \o t) PROVE (s \o t)[i] \in SetOf(s) \cup SetOf(t)
  <2>1. i \in 1 .. Len(s) \/ i - Len(s) \in 1 .. Len(t)
    BY <1>1
  <2> QED  BY <1>2, <1>3, <2>1 DEF SetOf
<1>5. ASSUME NEW i \in DOMAIN s PROVE s[i] \in SetOf(s \o t)
  BY <1>1, <1>2 DEF SetOf
<1>6. ASSUME NEW i \in DOMAIN t PROVE t[i] \in SetOf(s \o t)
  <2>1. Len(s) + i \in DOMAIN (s \o t) /\ i \in 1 .. Len(t)
    BY <1>1
  <2> QED  BY <1>3, <2>1 DEF SetOf
<1> QED  BY <1>1, <1>4, <1>5, <1>6 DEF SetOf

LEMMA SetOfTail ==
  ASSUME NEW S, NEW s \in Seq(S), s # <<>>
  PROVE  /\ Tail(s) \in Seq(S) /\ Head(s) \in SetOf(s)
         /\ SetOf(s) \subseteq SetOf(Tail(s)) \cup {Head(s)}
         /\ SetOf(Tail(s)) \subseteq SetOf(s)
<1>1. /\ Tail(s) \in Seq(S) /\ Len(Tail(s)) = Len(s) - 1 /\ Len(s) \in Nat \ {0}
      /\ Head(s) = s[1] /\ 1 \in DOMAIN s
  OBVIOUS
<1>2. \A i \in 1 .. Len(s) - 1 : Tail(s)[i] = s[i + 1]
  OBVIOUS
<1>3. ASSUME NEW i \in DOMAIN s PROVE s[i] \in SetOf(Tail(s)) \cup {Head(s)}
  <2>1. i = 1 \/ i - 1 \in DOMAIN Tail(s)
    BY <1>1
  <2> QED  BY <1>1, <1>2, <2>1 DEF SetOf
<1>4. ASSUME NEW i \in DOMAIN Tail(s) PROVE Tail(s)[i] \in SetOf(s)
  <2>1. i + 1 \in DOMAIN s /\ i \in 1 .. Len(s) - 1
    BY <1>1
  <2> QED  BY <1>2, <2>1 DEF SetOf
<1> QED  BY <1>1, <1>3, <1>4 DEF SetOf

LEMMA ValidShape ==
  ASSUME NEW m \in Manifest
  PROVE  Valid(m) <=>
           /\ m.current # None /\ m.pending # None => m.current.id # m.pending.id
           /\ m.current # None /\ m.retired # None => m.current.id # m.retired.id
           /\ m.pending # None /\ m.retired # None => m.pending.id # m.retired.id
BY DEF Valid, Manifest

-----------------------------------------------------------------------------
(* Processes *)

LEMMA OffShape == Off \in Process /\ Off.pc = "off" /\ ProcessOK(Off)
<1>1. NoManifest \in Manifest /\ <<>> \in Seq(Nat \X Nat)
  BY DEF NoManifest, Manifest
<1>2. Off \in Process /\ Off.pc = "off" /\ Off.cache = None /\ Off.task = None /\ Off.mode = None
  BY <1>1 DEF Off, Process, Counters, Tasks
<1> QED  BY <1>2, NoneAssumption
         DEF ProcessOK, ModePart, TaskPart, StepPart, InVault, Last, Loading, Tasks

\* A process that is off is so whatever the stores hold.
LEMMA OffOK == ProcessOK(Off)'
<1>1. Off.pc = "off" /\ Off.cache = None /\ Off.task = None /\ Off.mode = None
  BY DEF Off
<1> QED  BY <1>1, NoneAssumption
         DEF ProcessOK, ModePart, TaskPart, StepPart, InVault, Last, Loading, Tasks

LEMMA CalledShape ==
  ASSUME NEW p \in Process, NEW task \in Tasks, NEW goal \in Snapshots \cup {None}
  PROVE  LET q == Called(p, task, goal)
         IN /\ q \in Process /\ q.pc = "read" /\ q.task = task /\ q.goal = goal /\ q.gen = None
            /\ q.mode = p.mode /\ q.cache = p.cache
<1>1. NoManifest \in Manifest /\ <<>> \in Seq(Nat \X Nat)
  BY DEF NoManifest, Manifest
<1> QED  BY <1>1 DEF Called, Process, Counters

LEMMA ServingShape ==
  ASSUME NEW mode \in {"os", "file", None}, NEW values \in Snapshots \cup {None}
  PROVE  LET q == Serving(mode, values)
         IN /\ q \in Process /\ q.pc = "serving" /\ q.mode = mode /\ q.cache = values
            /\ q.task = None
<1>1. NoManifest \in Manifest /\ <<>> \in Seq(Nat \X Nat)
  BY DEF NoManifest, Manifest
<1> QED  BY <1>1 DEF Serving, Off, Process, Counters, Tasks

LEMMA CalledOK ==
  ASSUME NEW q \in Process, q.pc = "read", q.mode = "os", q.task \in Tasks, q.gen = None,
         q.cache # None <=> q.task = "update",
         q.task = "confirm" => legacy # None /\ q.goal = legacy,
         q.task = "init" => q.goal = AtFirst /\ ~marker,
         q.task = "update" => q.goal \in Snapshots /\ legacy = None /\ marker /\ manifest.current # None
  PROVE  ProcessOK(q)
<1>1. ModePart(q)
  BY NoneAssumption DEF ModePart
<1>2. TaskPart(q)
  BY NoneAssumption DEF TaskPart, InVault, Last, Loading
<1>3. StepPart(q)
  BY DEF StepPart, Last
<1> QED  BY <1>1, <1>2, <1>3 DEF ProcessOK

LEMMA ServingOK ==
  ASSUME NEW q \in Process, q.pc = "serving", q.task = None, q.mode \in {"os", "file"},
         q.cache \in Snapshots, q.mode = "os" => legacy = None /\ marker /\ manifest.current # None
  PROVE  ProcessOK(q)
<1>1. ModePart(q)
  BY VaultAssumption, NoneAssumption DEF ModePart, Tasks
<1>2. TaskPart(q)
  BY NoneAssumption DEF TaskPart, InVault, Last, Loading, Tasks
<1>3. StepPart(q)
  BY DEF StepPart, Last
<1> QED  BY <1>1, <1>2, <1>3 DEF ProcessOK

\* What a process becomes whose step failed, made or not.
LEMMA AbortedOK ==
  ASSUME NEW p \in Process, ProcessOK(p), UNCHANGED <<legacy, marker>>,
         p.mode = "os" /\ p.task = "update" => manifest'.current # None,
         p.pc = "sweep" => manifest'.current = manifest.current
  PROVE  Aborted(p) \in Process /\ ProcessOK(Aborted(p))'
<1>1. CASE p.pc = "sweep" /\ p.gen # None
  <2> DEFINE q == [p EXCEPT !.pc = "return"]
  <2>1. /\ Aborted(p) = q /\ q \in Process /\ q.pc = "return" /\ q.mode = p.mode
        /\ q.task = p.task /\ q.cache = p.cache /\ q.goal = p.goal
    BY <1>1 DEF Aborted, Process, Counters
  <2>2. /\ p.mode = "os" /\ p.task # None /\ p.task \notin Loading
        /\ manifest.current = p.gen /\ Selected = p.goal
        /\ p.cache # None <=> p.task = "update"
    BY <1>1 DEF ProcessOK, ModePart, TaskPart, StepPart, InVault, Selected
  <2> HIDE DEF q
  <2>3. ModePart(q)'
    BY <1>1, <2>1, <2>2 DEF ProcessOK, ModePart
  <2>4. TaskPart(q)'
    BY <1>1, <2>1, <2>2 DEF ProcessOK, TaskPart, InVault, Last, AtFirst, Loading
  <2>5. StepPart(q)'
    BY <1>1, <2>1, <2>2 DEF StepPart, Last, Selected
  <2> QED  BY <2>1, <2>3, <2>4, <2>5 DEF ProcessOK
<1>2. CASE ~(p.pc = "sweep" /\ p.gen # None) /\ p.task = "update"
  <2>1. p.mode \in {"os", "file"} /\ p.cache \in Snapshots /\ (p.mode = "os" => legacy = None /\ marker)
    BY <1>2 DEF ProcessOK, ModePart, TaskPart, InVault, Process
  <2>2. PICK q : q = Serving(p.mode, p.cache)
    OBVIOUS
  <2>3. q \in Process /\ q.pc = "serving" /\ q.mode = p.mode /\ q.cache = p.cache /\ q.task = None
    BY <2>1, <2>2, ServingShape
  <2>4. ProcessOK(q)'
    <3>1. q.mode = "os" => legacy' = None /\ marker' /\ manifest'.current # None
      BY <1>2, <2>1, <2>3
    <3> QED  BY <2>1, <2>3, <3>1, VaultAssumption, NoneAssumption
             DEF ProcessOK, ModePart, TaskPart, StepPart, InVault, Last, Loading, Tasks
  <2>5. Aborted(p) = q
    BY <1>2, <2>2 DEF Aborted
  <2> QED  BY <2>3, <2>4, <2>5
<1>3. CASE ~(p.pc = "sweep" /\ p.gen # None) /\ p.task # "update"
  <2>1. Aborted(p) = Off
    BY <1>3 DEF Aborted
  <2> QED  BY <2>1, OffShape, OffOK
<1> QED  BY <1>1, <1>2, <1>3

-----------------------------------------------------------------------------
(* Steps *)

\* What a process knows depends on the stores alone.
LEMMA Frame ==
  ASSUME NEW q, ProcessOK(q), UNCHANGED <<legacy, marker, manifest, chunks>>
  PROVE  ProcessOK(q)'
BY DEF ProcessOK, ModePart, TaskPart, StepPart, AtFirst, Selected, Readable

\* The process that runs holds the lock, and is the only one.
LEMMA Holder ==
  ASSUME IInv, NEW b \in Brokers, broker[b].pc # "off"
  PROVE  lock = b /\ broker[b] \in Process /\ ProcessOK(broker[b])
<1>1. broker[b] # Off
  BY OffShape
<1> QED  BY <1>1 DEF IInv, TypeOK

LEMMA Advance ==
  ASSUME IInv, NEW b \in Brokers, lock \in {b, None},
         NEW q \in Process, Continue(b, q), ProcessOK(q)',
         legacy' \in Snapshots \cup {None}, marker' \in BOOLEAN, manifest' \in Manifest,
         DOMAIN chunks' \subseteq Nat \X Nat, \A k \in DOMAIN chunks' : chunks'[k] \in Snapshots,
         nextId' \in Nat \ {0}, StoreOK'
  PROVE  IInv'
<1>1. broker \in [Brokers -> Process] /\ \A c \in Brokers : broker[c] # Off <=> lock = c
  BY DEF IInv, TypeOK
<1>2. broker' = [broker EXCEPT ![b] = q] /\ lock' = IF q.pc = "off" THEN None ELSE b
  BY DEF Continue
<1>3. q.pc = "off" <=> q = Off
  BY OffShape DEF ProcessOK, ModePart
<1>4. None \notin Brokers
  BY VaultAssumption
<1>5. broker' \in [Brokers -> Process] /\ broker'[b] = q
  BY <1>1, <1>2
<1>6. ASSUME NEW c \in Brokers \ {b} PROVE broker'[c] = Off
  BY <1>1, <1>2, <1>4
<1>7. lock' \in Brokers \cup {None} /\ \A c \in Brokers : broker'[c] # Off <=> lock' = c
  BY <1>2, <1>3, <1>4, <1>5, <1>6
<1>8. TypeOK'
  BY <1>5, <1>7 DEF TypeOK
<1>9. ASSUME NEW c \in Brokers PROVE ProcessOK(broker[c])'
  <2>1. CASE c = b
    <3>1. (broker[c] = q)'
      BY <1>5, <2>1
    <3> QED  BY <3>1 DEF ProcessOK, ModePart, TaskPart, StepPart, AtFirst, Selected, Readable
  <2>2. CASE c # b
    <3>1. (broker[c] = Off)'
      BY <1>6, <2>2
    <3> QED  BY <3>1, OffOK DEF ProcessOK, ModePart, TaskPart, StepPart, AtFirst, Selected, Readable
  <2> QED  BY <2>1, <2>2
<1> QED  BY <1>8, <1>9 DEF IInv

\* A step that leaves the stores alone.
LEMMA AdvanceAlone ==
  ASSUME IInv, NEW b \in Brokers, lock \in {b, None},
         NEW q \in Process, Continue(b, q), ProcessOK(q), UNCHANGED <<Files, Store, nextId>>
  PROVE  IInv'
<1>1. UNCHANGED <<legacy, marker, manifest, chunks, nextId>>
  BY DEF Files, Store
<1>2. ProcessOK(q)'
  BY <1>1, Frame
<1>3. StoreOK'
  BY <1>1 DEF IInv, StoreOK, Readable, NoOrphans, Named, Selected
<1> QED  BY <1>1, <1>2, <1>3, Advance DEF IInv, TypeOK

\* The steps that fail without effect.
LEMMA AbortedInv ==
  ASSUME IInv, NEW b \in Brokers, broker[b].pc # "off", Continue(b, Aborted(broker[b])),
         UNCHANGED <<Files, Store, nextId>>
  PROVE  IInv'
<1>1. PICK p \in Process : p = broker[b] /\ ProcessOK(p) /\ lock = b
  BY Holder
<1>2. UNCHANGED <<legacy, marker, manifest, chunks, nextId>>
  BY DEF Files, Store
<1>3. p.mode = "os" /\ p.task = "update" => manifest.current # None
  BY <1>1 DEF ProcessOK, ModePart
<1>4. Aborted(p) \in Process /\ ProcessOK(Aborted(p))'
  BY <1>1, <1>2, <1>3, AbortedOK
<1>5. StoreOK'
  BY <1>2 DEF IInv, StoreOK, Readable, NoOrphans, Named, Selected
<1>6. Continue(b, Aborted(p))
  BY <1>1
<1>7. PICK q \in Process : q = Aborted(p) /\ ProcessOK(q)'
  BY <1>4
<1> QED  BY <1>1, <1>2, <1>5, <1>6, <1>7, Advance DEF IInv, TypeOK

LEMMA OpenOsInv ==
  ASSUME IInv, NEW b \in Brokers, OpenOs(b)
  PROVE  IInv'
<1> DEFINE o == [Off EXCEPT !.mode = "os"]
<1>1. o \in Process /\ o.mode = "os" /\ o.cache = None
  BY OffShape DEF Process, Off
<1> HIDE DEF o
<1>2. PICK q : q = Called(o, "open", None)
  OBVIOUS
<1>3. /\ q \in Process /\ q.pc = "read" /\ q.task = "open" /\ q.goal = None /\ q.gen = None
      /\ q.mode = "os" /\ q.cache = None
  BY <1>1, <1>2, CalledShape DEF Tasks
<1>4. ProcessOK(q)
  BY <1>3, CalledOK DEF Tasks
<1>5. lock = None /\ Continue(b, q) /\ UNCHANGED <<Files, Store, nextId>>
  BY <1>2 DEF OpenOs, Unlocked, o
<1> QED  BY <1>3, <1>4, <1>5, AdvanceAlone

LEMMA OpenFileInv ==
  ASSUME IInv, NEW b \in Brokers, OpenFile(b)
  PROVE  IInv'
<1>1. AtFirst \in Snapshots
  BY VaultAssumption DEF IInv, TypeOK, AtFirst
<1>2. PICK q : q = Serving("file", AtFirst)
  OBVIOUS
<1>3. /\ q \in Process /\ q.pc = "serving" /\ q.task = None /\ q.mode = "file"
      /\ q.cache \in Snapshots
  BY <1>1, <1>2, ServingShape
<1>4. ProcessOK(q)
  BY <1>3, ServingOK
<1>5. lock = None /\ Continue(b, q) /\ UNCHANGED <<Files, Store, nextId>>
  BY <1>2 DEF OpenFile, Unlocked, AtFirst
<1> QED  BY <1>3, <1>4, <1>5, AdvanceAlone

LEMMA StopInv ==
  ASSUME IInv, NEW b \in Brokers, lock = b, Continue(b, Off), UNCHANGED <<Files, Store, nextId>>
  PROVE  IInv'
BY OffShape, AdvanceAlone

\* The last step of a migration before the marker: the store selects the goal.
LEMMA ToMarkerOK ==
  ASSUME NEW p \in Process, ProcessOK(p), p.pc \in {"migrate", "return"}, p.mode = "os",
         p.task \in {"open", "init", "confirm"}, NEW goal \in Snapshots,
         Selected = goal, legacy \in {None, goal},
         p.task # "open" => goal = p.goal
  PROVE  LET q == [p EXCEPT !.pc = "marker", !.goal = goal]
         IN q \in Process /\ ProcessOK(q)
<1> DEFINE q == [p EXCEPT !.pc = "marker", !.goal = goal]
<1>1. /\ q \in Process /\ q.pc = "marker" /\ q.goal = goal /\ q.mode = "os"
      /\ q.task = p.task /\ q.cache = p.cache /\ q.gen = p.gen
  BY DEF Process, Counters
<1> HIDE DEF q
<1>2. ModePart(q)
  BY <1>1 DEF ProcessOK, ModePart
<1>3. TaskPart(q)
  BY <1>1, NoneAssumption DEF ProcessOK, TaskPart, InVault, Last, Loading
<1>4. StepPart(q)
  BY <1>1, VaultAssumption DEF StepPart, Last
<1> QED  BY <1>1, <1>2, <1>3, <1>4 DEF ProcessOK, q

LEMMA MigrateInv ==
  ASSUME IInv, NEW b \in Brokers, Migrate(b)
  PROVE  IInv'
<1>1. PICK p \in Process : p = broker[b] /\ ProcessOK(p) /\ lock = b /\ p.pc = "migrate"
  BY Holder DEF Migrate
<1>2. UNCHANGED <<Files, Store, nextId>>
  BY DEF Migrate
<1>3. /\ p.mode = "os" /\ p.task \in Loading /\ p.got = Selected /\ p.cache = None
      /\ p.got \in Snapshots \cup {None}
  BY <1>1, NoneAssumption DEF ProcessOK, ModePart, TaskPart, StepPart, InVault, Last, Process, Tasks, Loading
<1>4. legacy \in Snapshots \cup {None} /\ AtFirst \in Snapshots
  BY VaultAssumption DEF IInv, TypeOK, AtFirst
<1>5. CASE p.task = "confirm" /\ p.got = p.goal
  <2>1. PICK q : q = [p EXCEPT !.pc = "marker"]
    OBVIOUS
  <2>2. p.goal \in Snapshots /\ legacy = p.goal
    BY <1>1, <1>3, <1>4, <1>5 DEF ProcessOK, TaskPart
  <2>3. q = [p EXCEPT !.pc = "marker", !.goal = p.goal]
    BY <2>1 DEF Process
  <2>4. q \in Process /\ ProcessOK(q)
    BY <1>1, <1>3, <1>5, <2>2, <2>3, ToMarkerOK
  <2>5. Continue(b, q)
    BY <1>1, <1>5, <2>1 DEF Migrate
  <2> QED  BY <1>1, <1>2, <2>4, <2>5, AdvanceAlone
<1>6. CASE p.task # "confirm" /\ p.got = None /\ ~marker
  <2>1. PICK q, goal : q = Called(p, "init", goal) /\ goal = AtFirst
    OBVIOUS
  <2>2. /\ q \in Process /\ q.pc = "read" /\ q.task = "init" /\ q.goal = AtFirst /\ q.gen = None
        /\ q.mode = "os" /\ q.cache = None
    <3>1. "init" \in Tasks /\ goal \in Snapshots \cup {None}
      BY <1>4, <2>1 DEF Tasks
    <3> QED  BY <1>1, <1>3, <2>1, <3>1, CalledShape
  <2>3. ProcessOK(q)
    BY <1>6, <2>2, CalledOK DEF Tasks
  <2>4. Continue(b, q)
    BY <1>1, <1>6, <2>1 DEF Migrate, AtFirst
  <2> QED  BY <1>1, <1>2, <2>2, <2>3, <2>4, AdvanceAlone
<1>7. CASE p.task # "confirm" /\ p.got # None /\ legacy = None
  <2>1. PICK q : q = [p EXCEPT !.pc = "marker", !.goal = p.got]
    OBVIOUS
  <2>2. q \in Process /\ ProcessOK(q)
    BY <1>1, <1>3, <1>7, <2>1, ToMarkerOK DEF Loading
  <2>3. Continue(b, q)
    BY <1>1, <1>7, <2>1 DEF Migrate
  <2> QED  BY <1>1, <1>2, <2>2, <2>3, AdvanceAlone
<1>8. CASE p.task # "confirm" /\ p.got # None /\ legacy # None /\ legacy = p.got
  <2>1. PICK q, goal : q = Called(p, "confirm", goal) /\ goal = legacy
    OBVIOUS
  <2>2. /\ q \in Process /\ q.pc = "read" /\ q.task = "confirm" /\ q.goal = legacy /\ q.gen = None
        /\ q.mode = "os" /\ q.cache = None
    <3>1. "confirm" \in Tasks /\ goal \in Snapshots \cup {None}
      BY <1>4, <2>1 DEF Tasks
    <3> QED  BY <1>1, <1>3, <2>1, <3>1, CalledShape
  <2>3. ProcessOK(q)
    BY <1>8, <2>2, CalledOK DEF Tasks
  <2>4. Continue(b, q)
    BY <1>1, <1>8, <2>1 DEF Migrate
  <2> QED  BY <1>1, <1>2, <2>2, <2>3, <2>4, AdvanceAlone
<1>9. CASE Continue(b, Off)
  BY <1>1, <1>2, <1>9, StopInv
<1> QED  BY <1>1, <1>5, <1>6, <1>7, <1>8, <1>9 DEF Migrate

LEMMA WriteMarkerInv ==
  ASSUME IInv, NEW b \in Brokers, WriteMarker(b)
  PROVE  IInv'
<1>1. PICK p \in Process : p = broker[b] /\ ProcessOK(p) /\ lock = b /\ p.pc = "marker"
  BY Holder DEF WriteMarker
<1>2. UNCHANGED <<legacy, manifest, chunks, nextId>> /\ marker' = TRUE
  BY DEF WriteMarker, Store
<1>3. PICK q : q = [p EXCEPT !.pc = "unlink"]
  OBVIOUS
<1>4. /\ q \in Process /\ q.pc = "unlink" /\ q.goal = p.goal /\ q.mode = p.mode
      /\ q.task = p.task /\ q.cache = p.cache /\ q.gen = p.gen
  BY <1>3 DEF Process, Counters
<1>5. ModePart(q)'
  BY <1>1, <1>2, <1>4 DEF ProcessOK, ModePart
<1>6. TaskPart(q)'
  BY <1>1, <1>2, <1>4 DEF ProcessOK, TaskPart, AtFirst, InVault, Last
<1>7. StepPart(q)'
  BY <1>1, <1>2, <1>4 DEF ProcessOK, StepPart, Last, Selected
<1>8. Continue(b, q)
  BY <1>1, <1>3 DEF WriteMarker
<1>9. StoreOK'
  BY <1>2 DEF IInv, StoreOK, Readable, NoOrphans, Named, Selected
<1> QED  BY <1>1, <1>2, <1>4, <1>5, <1>6, <1>7, <1>8, <1>9, Advance DEF IInv, TypeOK, ProcessOK

LEMMA UnlinkInv ==
  ASSUME IInv, NEW b \in Brokers, Unlink(b)
  PROVE  IInv'
<1>1. PICK p \in Process : p = broker[b] /\ ProcessOK(p) /\ lock = b /\ p.pc = "unlink"
  BY Holder DEF Unlink
<1>2. UNCHANGED <<marker, manifest, chunks, nextId>> /\ legacy' = None
  BY DEF Unlink, Store
<1>3. p.goal \in Snapshots /\ Selected = p.goal /\ manifest.current # None /\ marker
  BY <1>1 DEF ProcessOK, StepPart, Last, Process, Selected
<1>4. PICK q : q = Serving("os", p.goal)
  OBVIOUS
<1>5. q \in Process /\ q.pc = "serving" /\ q.task = None /\ q.mode = "os" /\ q.cache \in Snapshots
  BY <1>3, <1>4, ServingShape
<1>6. ProcessOK(q)'
  BY <1>2, <1>3, <1>5, VaultAssumption, NoneAssumption
  DEF ProcessOK, ModePart, TaskPart, StepPart, InVault, Last, Loading, Tasks
<1>7. Continue(b, q)
  BY <1>1, <1>4 DEF Unlink
<1>8. StoreOK'
  BY <1>2, <1>3 DEF IInv, StoreOK, Readable, NoOrphans, Named, Selected
<1> QED  BY <1>1, <1>2, <1>5, <1>6, <1>7, <1>8, Advance DEF IInv, TypeOK

\* What a load or save has read.
LEMMA ReadManifestInv ==
  ASSUME IInv, NEW b \in Brokers, ReadManifest(b)
  PROVE  IInv'
<1>1. PICK p \in Process : p = broker[b] /\ ProcessOK(p) /\ lock = b /\ p.pc = "read"
  BY Holder DEF ReadManifest
<1>2. UNCHANGED <<Files, Store, nextId>>
  BY DEF ReadManifest
<1> DEFINE loaded == manifest.current # None /\ p.task \in Loading
           got == IF loaded THEN manifest.current.snapshot ELSE None
           todo == KeysOf(manifest.pending) \o KeysOf(manifest.retired)
<1>3. /\ manifest \in Manifest /\ manifest.current \in Generation \cup {None}
      /\ manifest.pending \in Generation \cup {None} /\ manifest.retired \in Generation \cup {None}
  BY DEF IInv, TypeOK, Manifest
<1>4. todo \in Seq(Nat \X Nat) /\ SetOf(todo) = Keys(manifest.pending) \cup Keys(manifest.retired)
  <2>1. PICK s, t : s = KeysOf(manifest.pending) /\ t = KeysOf(manifest.retired)
    OBVIOUS
  <2>2. /\ s \in Seq(Nat \X Nat) /\ SetOf(s) = Keys(manifest.pending)
        /\ t \in Seq(Nat \X Nat) /\ SetOf(t) = Keys(manifest.retired)
    BY <1>3, <2>1, KeysShape
  <2>3. s \o t \in Seq(Nat \X Nat) /\ SetOf(s \o t) = SetOf(s) \cup SetOf(t)
    BY <2>2, SetOfConcat
  <2> QED  BY <2>1, <2>2, <2>3
<1>5. got \in Snapshots \cup {None} /\ (p.task \in Loading => got = Selected)
  BY <1>3 DEF Generation, Selected
<1> HIDE DEF got, todo
<1>6. CASE Continue(b, Aborted(p))
  BY <1>1, <1>2, <1>6, AbortedInv
<1>7. CASE Continue(b, [p EXCEPT !.pc = "sweep", !.local = manifest, !.got = got, !.todo = todo])
  <2>1. PICK q : q = [p EXCEPT !.pc = "sweep", !.local = manifest, !.got = got, !.todo = todo]
    OBVIOUS
  <2>2. /\ q \in Process /\ q.pc = "sweep" /\ q.local = manifest /\ q.got = got /\ q.todo = todo
        /\ q.goal = p.goal /\ q.mode = p.mode /\ q.task = p.task /\ q.cache = p.cache
        /\ q.gen = p.gen
    BY <1>1, <1>3, <1>4, <1>5, <2>1 DEF Process, Counters
  <2>3. ModePart(q)
    BY <1>1, <2>2 DEF ProcessOK, ModePart
  <2>4. TaskPart(q)
    BY <1>1, <2>2 DEF ProcessOK, TaskPart, InVault, Last
  <2>5. StepPart(q)
    <3>1. p.gen = None
      BY <1>1 DEF ProcessOK, StepPart
    <3>2. DOMAIN chunks \subseteq Keys(manifest.current) \cup SetOf(todo)
      BY <1>4 DEF IInv, StoreOK, NoOrphans
    <3> QED  BY <1>4, <1>5, <2>2, <3>1, <3>2 DEF StepPart, Last
  <2>6. Continue(b, q)
    BY <1>7, <2>1
  <2> QED  BY <1>1, <1>2, <2>2, <2>3, <2>4, <2>5, <2>6, AdvanceAlone DEF ProcessOK
<1> QED  BY <1>1, <1>6, <1>7 DEF ReadManifest, got, todo

\* How a vault step that may fail after it was made goes on.
LEMMA AfterInv ==
  ASSUME IInv, NEW b \in Brokers, NEW ok \in BOOLEAN, NEW p \in Process, NEW q \in Process,
         p = broker[b], p.pc # "off", After(b, ok, q), ProcessOK(q)',
         UNCHANGED <<legacy, marker>>, manifest' \in Manifest,
         p.mode = "os" /\ p.task = "update" => manifest'.current # None,
         p.pc = "sweep" => manifest'.current = manifest.current,
         DOMAIN chunks' \subseteq Nat \X Nat, \A k \in DOMAIN chunks' : chunks'[k] \in Snapshots,
         nextId' \in Nat \ {0}, StoreOK'
  PROVE  IInv'
<1>1. lock = b /\ ProcessOK(p)
  BY Holder
<1>2. legacy' \in Snapshots \cup {None} /\ marker' \in BOOLEAN
  BY DEF IInv, TypeOK
<1>3. Aborted(p) \in Process /\ ProcessOK(Aborted(p))'
  BY <1>1, AbortedOK
<1>4. PICK r \in Process : r = Aborted(p) /\ ProcessOK(r)'
  BY <1>3
<1>5. Continue(b, q) \/ Continue(b, r)
  BY <1>4 DEF After
<1>6. CASE Continue(b, q)
  BY <1>1, <1>2, <1>6, Advance
<1>7. CASE Continue(b, r)
  BY <1>1, <1>2, <1>4, <1>7, Advance
<1> QED  BY <1>5, <1>6, <1>7

LEMMA DeleteChunkInv ==
  ASSUME IInv, NEW b \in Brokers, NEW ok \in BOOLEAN, DeleteChunk(b, ok)
  PROVE  IInv'
<1>1. PICK p \in Process : p = broker[b] /\ ProcessOK(p) /\ lock = b /\ p.pc = "sweep"
  BY Holder DEF DeleteChunk
<1>2. UNCHANGED <<legacy, marker, manifest, nextId>>
  BY DEF DeleteChunk, Files
<1>3. PICK key : key = Head(p.todo)
  OBVIOUS
<1>4. DOMAIN chunks' = DOMAIN chunks \ {key} /\ \A k \in DOMAIN chunks' : chunks'[k] = chunks[k]
  BY <1>1, <1>3 DEF DeleteChunk
<1>5. PICK rest : rest = Tail(p.todo)
  OBVIOUS
<1>6. /\ rest \in Seq(Nat \X Nat) /\ key \in SetOf(p.todo) /\ SetOf(rest) \subseteq SetOf(p.todo)
      /\ SetOf(p.todo) \subseteq SetOf(rest) \cup {key}
  <2>1. p.todo \in Seq(Nat \X Nat) /\ p.todo # <<>>
    BY <1>1 DEF DeleteChunk, Process
  <2> QED  BY <1>3, <1>5, <2>1, SetOfTail
<1>7. /\ SetOf(p.todo) \subseteq Keys(manifest.pending) \cup Keys(manifest.retired)
      /\ DOMAIN chunks \subseteq Keys(manifest.current) \cup SetOf(p.todo)
  BY <1>1 DEF ProcessOK, StepPart
<1>8. key \notin Keys(manifest.current)
  <2>1. /\ Keys(manifest.current) \cap Keys(manifest.pending) = {}
        /\ Keys(manifest.current) \cap Keys(manifest.retired) = {}
    BY KeysApart, ValidShape DEF IInv, TypeOK, StoreOK
  <2> QED  BY <1>6, <1>7, <2>1
<1>9. PICK q : q = [p EXCEPT !.todo = rest]
  OBVIOUS
<1>10. /\ q \in Process /\ q.pc = "sweep" /\ q.local = p.local /\ q.got = p.got /\ q.todo = rest
       /\ q.goal = p.goal /\ q.mode = p.mode /\ q.task = p.task /\ q.cache = p.cache
       /\ q.gen = p.gen
  BY <1>1, <1>6, <1>9 DEF Process
<1>11. ModePart(q)'
  BY <1>1, <1>2, <1>10 DEF ProcessOK, ModePart
<1>12. TaskPart(q)'
  BY <1>1, <1>2, <1>10 DEF ProcessOK, TaskPart, AtFirst, InVault, Last
<1>13. StepPart(q)'
  <2>1. DOMAIN chunks' \subseteq Keys(manifest.current) \cup SetOf(rest)
    BY <1>4, <1>6, <1>7
  <2>2. SetOf(rest) \subseteq Keys(manifest.pending) \cup Keys(manifest.retired)
    BY <1>6, <1>7
  <2> QED  BY <1>1, <1>2, <1>10, <2>1, <2>2 DEF ProcessOK, StepPart, Last, Selected
<1>14. StoreOK'
  <2>1. Readable(manifest.current)'
    BY <1>2, <1>4, <1>8 DEF IInv, StoreOK, Readable
  <2>2. NoOrphans'
    BY <1>2, <1>4 DEF IInv, StoreOK, NoOrphans
  <2> QED  BY <1>2, <2>1, <2>2 DEF IInv, StoreOK, Named, Selected
<1>15. After(b, ok, q)
  BY <1>1, <1>5, <1>9 DEF DeleteChunk
<1>16. /\ manifest' \in Manifest /\ nextId' \in Nat \ {0} /\ DOMAIN chunks' \subseteq Nat \X Nat
       /\ \A k \in DOMAIN chunks' : chunks'[k] \in Snapshots
  BY <1>2, <1>4 DEF IInv, TypeOK
<1>17. p.mode = "os" /\ p.task = "update" => manifest'.current # None
  BY <1>1, <1>2 DEF ProcessOK, ModePart
<1> QED  BY <1>1, <1>2, <1>10, <1>11, <1>12, <1>13, <1>14, <1>15, <1>16, <1>17, AfterInv DEF ProcessOK

LEMMA EndCleanupInv ==
  ASSUME IInv, NEW b \in Brokers, NEW ok \in BOOLEAN, EndCleanup(b, ok)
  PROVE  IInv'
<1>1. PICK p \in Process : p = broker[b] /\ ProcessOK(p) /\ lock = b /\ p.pc = "sweep"
  BY Holder DEF EndCleanup
<1>2. UNCHANGED <<legacy, marker, chunks, nextId>>
  BY DEF EndCleanup, Files
<1>3. manifest \in Manifest /\ p.local = manifest
  BY <1>1 DEF IInv, TypeOK, ProcessOK, StepPart
<1>4. PICK m : m = [p.local EXCEPT !.pending = None, !.retired = None]
  OBVIOUS
<1>5. m \in Manifest /\ m.current = manifest.current /\ m.pending = None /\ m.retired = None
  BY <1>3, <1>4 DEF Manifest
<1>6. manifest' = m
  BY <1>1, <1>4 DEF EndCleanup
<1>7. DOMAIN chunks \subseteq Keys(manifest.current)
  <2>1. p.todo = <<>>
    BY <1>1 DEF EndCleanup
  <2>2. SetOf(p.todo) = {}
    BY <2>1 DEF SetOf
  <2> QED  BY <1>1, <2>2 DEF ProcessOK, StepPart
<1>8. PICK next : next = IF p.task \in Loading THEN "migrate"
                         ELSE IF p.gen = None THEN "stage" ELSE "return"
  OBVIOUS
<1>9. PICK q : q = [p EXCEPT !.pc = next, !.local = m]
  OBVIOUS
<1>10. /\ q \in Process /\ q.pc = next /\ q.local = m /\ q.got = p.got
       /\ q.goal = p.goal /\ q.mode = p.mode /\ q.task = p.task /\ q.cache = p.cache
       /\ q.gen = p.gen
  <2>1. next \in Counters
    BY <1>8 DEF Counters
  <2> QED  BY <1>1, <1>5, <1>9, <2>1 DEF Process
<1>11. ModePart(q)'
  BY <1>1, <1>2, <1>5, <1>6, <1>8, <1>10 DEF ProcessOK, ModePart
<1>12. TaskPart(q)'
  BY <1>1, <1>2, <1>8, <1>10, NoneAssumption DEF ProcessOK, TaskPart, AtFirst, InVault, Last, Loading
<1>13. StepPart(q)'
  <2>1. Selected' = Selected
    BY <1>5, <1>6 DEF Selected
  <2>2. p.gen # None => Selected = p.goal
    BY <1>1 DEF ProcessOK, StepPart, Selected
  <2>3. p.task \in Loading => p.got = Selected
    BY <1>1 DEF ProcessOK, StepPart
  <2>4. p.mode = "os"
    BY <1>1 DEF ProcessOK, ModePart
  <2> QED  BY <1>5, <1>6, <1>8, <1>10, <2>1, <2>2, <2>3, <2>4 DEF StepPart, Last
<1>14. StoreOK'
  <2>1. Readable(manifest.current)'
    BY <1>2, <1>5, <1>6 DEF IInv, StoreOK, Readable
  <2>2. NoOrphans'
    BY <1>2, <1>5, <1>6, <1>7 DEF NoOrphans
  <2>3. Valid(manifest)'
    BY <1>5, <1>6, ValidShape
  <2>4. Selected' = Selected
    BY <1>5, <1>6 DEF Selected
  <2>5. \A g \in {m.current, m.pending, m.retired} : g # None => g.id < nextId
    BY <1>5 DEF IInv, StoreOK, Named
  <2> QED  BY <1>2, <1>6, <2>1, <2>2, <2>3, <2>4, <2>5 DEF IInv, StoreOK, Named
<1>15. After(b, ok, q)
  BY <1>1, <1>4, <1>8, <1>9 DEF EndCleanup
<1>16. /\ manifest' \in Manifest /\ nextId' \in Nat \ {0} /\ DOMAIN chunks' \subseteq Nat \X Nat
       /\ \A k \in DOMAIN chunks' : chunks'[k] \in Snapshots
  BY <1>2, <1>5, <1>6 DEF IInv, TypeOK
<1>17. /\ p.mode = "os" /\ p.task = "update" => manifest'.current # None
       /\ manifest'.current = manifest.current
  BY <1>1, <1>5, <1>6 DEF ProcessOK, ModePart
<1> QED  BY <1>1, <1>2, <1>10, <1>11, <1>12, <1>13, <1>14, <1>15, <1>16, <1>17, AfterInv DEF ProcessOK

LEMMA StageInv ==
  ASSUME IInv, NEW b \in Brokers, NEW ok \in BOOLEAN, Stage(b, ok)
  PROVE  IInv'
<1>1. PICK p \in Process : p = broker[b] /\ ProcessOK(p) /\ lock = b /\ p.pc = "stage"
  BY Holder DEF Stage
<1>2. UNCHANGED <<legacy, marker, chunks>> /\ nextId' = nextId + 1 /\ nextId \in Nat \ {0}
  BY DEF Stage, Files, IInv, TypeOK
<1>3. /\ manifest \in Manifest /\ p.local = manifest /\ manifest.pending = None
      /\ manifest.retired = None
  BY <1>1 DEF IInv, TypeOK, ProcessOK, StepPart
<1>4. p.goal \in Snapshots
  <2>1. AtFirst \in Snapshots
    BY VaultAssumption DEF IInv, TypeOK, AtFirst
  <2> QED  BY <1>1, <2>1 DEF ProcessOK, TaskPart, InVault, Last, Loading, Process, Tasks
<1>5. PICK g : g = [id |-> nextId, snapshot |-> p.goal]
  OBVIOUS
<1>6. g \in Generation /\ g.id = nextId /\ g.snapshot = p.goal /\ g # None
  BY <1>2, <1>4, <1>5, NoneAssumption DEF Generation
<1>7. PICK m : m = [p.local EXCEPT !.pending = g]
  OBVIOUS
<1>8. m \in Manifest /\ m.current = manifest.current /\ m.pending = g /\ m.retired = None
  BY <1>3, <1>6, <1>7 DEF Manifest
<1>9. manifest' = m
  BY <1>1, <1>5, <1>7 DEF Stage
<1>10. PICK todo : todo = KeysOf(g)
  OBVIOUS
<1>11. todo \in Seq(Nat \X Nat) /\ SetOf(todo) = Keys(g)
  BY <1>6, <1>10, KeysShape
<1>12. PICK q : q = [p EXCEPT !.pc = "write", !.gen = g, !.local = m, !.todo = todo]
  OBVIOUS
<1>13. /\ q \in Process /\ q.pc = "write" /\ q.local = m /\ q.todo = todo /\ q.gen = g
       /\ q.goal = p.goal /\ q.mode = p.mode /\ q.task = p.task /\ q.cache = p.cache
  BY <1>1, <1>6, <1>8, <1>11, <1>12 DEF Process, Counters
<1>14. ModePart(q)'
  BY <1>1, <1>2, <1>8, <1>9, <1>13 DEF ProcessOK, ModePart
<1>15. TaskPart(q)'
  BY <1>1, <1>2, <1>13 DEF ProcessOK, TaskPart, AtFirst, InVault, Last, Loading
<1>16. StepPart(q)'
  BY <1>6, <1>8, <1>9, <1>11, <1>13 DEF StepPart, Last
<1>17. StoreOK'
  <2>1. Readable(manifest.current)'
    BY <1>2, <1>8, <1>9 DEF IInv, StoreOK, Readable
  <2>2. NoOrphans'
    <3>1. DOMAIN chunks \subseteq Keys(manifest.current)
      BY <1>3 DEF IInv, StoreOK, NoOrphans, Keys
    <3> QED  BY <1>2, <1>8, <1>9, <3>1 DEF NoOrphans
  <2>3. manifest.current \in Generation \cup {None} /\ (manifest.current # None => manifest.current.id < nextId)
    BY <1>3 DEF IInv, StoreOK, Named, Manifest
  <2>4. Valid(manifest)'
    <3>1. m.current # None => m.current.id # g.id
      BY <1>2, <1>6, <1>8, <2>3 DEF Generation
    <3> QED  BY <1>8, <1>9, <3>1, ValidShape
  <2>5. Selected' = Selected
    BY <1>8, <1>9 DEF Selected
  <2>6. \A h \in {m.current, m.pending, m.retired} : h # None => h.id < nextId + 1
    BY <1>2, <1>6, <1>8, <2>3 DEF Generation
  <2> QED  BY <1>2, <1>9, <2>1, <2>2, <2>4, <2>5, <2>6 DEF IInv, StoreOK, Named
<1>18. After(b, ok, q)
  BY <1>1, <1>5, <1>7, <1>10, <1>12 DEF Stage
<1>19. /\ manifest' \in Manifest /\ nextId' \in Nat \ {0} /\ DOMAIN chunks' \subseteq Nat \X Nat
       /\ \A k \in DOMAIN chunks' : chunks'[k] \in Snapshots
  BY <1>2, <1>8, <1>9 DEF IInv, TypeOK
<1>20. p.mode = "os" /\ p.task = "update" => manifest'.current # None
  BY <1>1, <1>8, <1>9 DEF ProcessOK, ModePart
<1> QED  BY <1>1, <1>2, <1>13, <1>14, <1>15, <1>16, <1>17, <1>18, <1>19, <1>20, AfterInv DEF ProcessOK

LEMMA WriteChunkInv ==
  ASSUME IInv, NEW b \in Brokers, NEW ok \in BOOLEAN, WriteChunk(b, ok)
  PROVE  IInv'
<1>1. PICK p \in Process : p = broker[b] /\ ProcessOK(p) /\ lock = b /\ p.pc = "write"
  BY Holder DEF WriteChunk
<1>2. UNCHANGED <<legacy, marker, manifest, nextId>>
  BY DEF WriteChunk, Files
<1>3. PICK key : key = Head(p.todo)
  OBVIOUS
<1>4. /\ DOMAIN chunks' = DOMAIN chunks \cup {key}
      /\ \A k \in DOMAIN chunks' : chunks'[k] = IF k = key THEN p.goal ELSE chunks[k]
  BY <1>1, <1>3 DEF WriteChunk
<1>5. PICK rest : rest = Tail(p.todo)
  OBVIOUS
<1>6. /\ rest \in Seq(Nat \X Nat) /\ key \in SetOf(p.todo) /\ SetOf(rest) \subseteq SetOf(p.todo)
  <2>1. p.todo \in Seq(Nat \X Nat) /\ p.todo # <<>>
    BY <1>1 DEF WriteChunk, Process
  <2> QED  BY <1>3, <1>5, <2>1, SetOfTail
<1>7. /\ p.gen \in Generation /\ p.gen = manifest.pending /\ p.gen.snapshot = p.goal
      /\ SetOf(p.todo) \subseteq Keys(p.gen)
  BY <1>1 DEF ProcessOK, StepPart, Process
<1>8. key \notin Keys(manifest.current) /\ key \in Keys(manifest.pending)
  <2>1. Keys(manifest.current) \cap Keys(manifest.pending) = {}
    BY KeysApart, ValidShape DEF IInv, TypeOK, StoreOK
  <2> QED  BY <1>6, <1>7, <2>1
<1>9. PICK q : q = [p EXCEPT !.todo = rest]
  OBVIOUS
<1>10. /\ q \in Process /\ q.pc = "write" /\ q.local = p.local /\ q.todo = rest
       /\ q.goal = p.goal /\ q.mode = p.mode /\ q.task = p.task /\ q.cache = p.cache
       /\ q.gen = p.gen
  BY <1>1, <1>6, <1>9 DEF Process
<1>11. ModePart(q)'
  BY <1>1, <1>2, <1>10 DEF ProcessOK, ModePart
<1>12. TaskPart(q)'
  BY <1>1, <1>2, <1>10 DEF ProcessOK, TaskPart, AtFirst, InVault, Last
<1>13. StepPart(q)'
  <2>1. SetOf(rest) \subseteq Keys(p.gen)
    BY <1>6, <1>7
  <2> QED  BY <1>1, <1>2, <1>10, <2>1 DEF ProcessOK, StepPart, Last
<1>14. StoreOK'
  <2>1. Readable(manifest.current)'
    BY <1>2, <1>4, <1>8 DEF IInv, StoreOK, Readable
  <2>2. NoOrphans'
    BY <1>2, <1>4, <1>8 DEF IInv, StoreOK, NoOrphans
  <2> QED  BY <1>2, <2>1, <2>2 DEF IInv, StoreOK, Named, Selected
<1>15. After(b, ok, q)
  BY <1>1, <1>5, <1>9 DEF WriteChunk
<1>16. /\ manifest' \in Manifest /\ nextId' \in Nat \ {0} /\ DOMAIN chunks' \subseteq Nat \X Nat
       /\ \A k \in DOMAIN chunks' : chunks'[k] \in Snapshots
  <2>1. key \in Nat \X Nat
    BY <1>6, <1>7, KeysShape
  <2>2. p.goal \in Snapshots
    BY <1>7 DEF Generation
  <2> QED  BY <1>2, <1>4, <2>1, <2>2 DEF IInv, TypeOK
<1>17. p.mode = "os" /\ p.task = "update" => manifest'.current # None
  BY <1>1, <1>2 DEF ProcessOK, ModePart
<1> QED  BY <1>1, <1>2, <1>10, <1>11, <1>12, <1>13, <1>14, <1>15, <1>16, <1>17, AfterInv DEF ProcessOK

LEMMA VerifyInv ==
  ASSUME IInv, NEW b \in Brokers, Verify(b)
  PROVE  IInv'
<1>1. PICK p \in Process : p = broker[b] /\ ProcessOK(p) /\ lock = b /\ p.pc = "write"
  BY Holder DEF Verify
<1>2. UNCHANGED <<Files, Store, nextId>>
  BY DEF Verify
<1>3. CASE Readable(p.gen)
  <2>1. PICK q : q = [p EXCEPT !.pc = "commit"]
    OBVIOUS
  <2>2. /\ q \in Process /\ q.pc = "commit" /\ q.local = p.local
        /\ q.goal = p.goal /\ q.mode = p.mode /\ q.task = p.task /\ q.cache = p.cache
        /\ q.gen = p.gen
    BY <1>1, <2>1 DEF Process, Counters
  <2>3. ModePart(q)
    BY <1>1, <2>2 DEF ProcessOK, ModePart
  <2>4. TaskPart(q)
    BY <1>1, <2>2 DEF ProcessOK, TaskPart, InVault, Last
  <2>5. StepPart(q)
    BY <1>1, <1>3, <2>2 DEF ProcessOK, StepPart, Last
  <2>6. Continue(b, q)
    BY <1>1, <1>3, <2>1 DEF Verify
  <2> QED  BY <1>1, <1>2, <2>2, <2>3, <2>4, <2>5, <2>6, AdvanceAlone DEF ProcessOK
<1>4. CASE ~Readable(p.gen)
  BY <1>1, <1>2, <1>4, AbortedInv DEF Verify
<1> QED  BY <1>3, <1>4

\* The generation in hand becomes current, the current one retired.
LEMMA CommitInv ==
  ASSUME IInv, NEW b \in Brokers, NEW ok \in BOOLEAN, Commit(b, ok)
  PROVE  IInv'
<1>1. PICK p \in Process : p = broker[b] /\ ProcessOK(p) /\ lock = b /\ p.pc = "commit"
  BY Holder DEF Commit
<1>2. UNCHANGED <<legacy, marker, chunks, nextId>>
  BY DEF Commit, Files
<1>3. /\ manifest \in Manifest /\ p.local = manifest /\ manifest.pending = p.gen
      /\ manifest.retired = None /\ p.gen \in Generation /\ p.gen # None
      /\ p.gen.snapshot = p.goal /\ Readable(p.gen) /\ p.mode = "os"
  BY <1>1 DEF IInv, TypeOK, ProcessOK, ModePart, StepPart, Process
<1>4. PICK m : m = [current |-> p.gen, pending |-> None, retired |-> p.local.current]
  OBVIOUS
<1>5. m \in Manifest /\ m.current = p.gen /\ m.pending = None /\ m.retired = manifest.current
  BY <1>3, <1>4 DEF Manifest
<1>6. manifest' = m
  BY <1>1, <1>4 DEF Commit
<1>7. PICK todo : todo = KeysOf(m.retired)
  OBVIOUS
<1>8. todo \in Seq(Nat \X Nat) /\ SetOf(todo) = Keys(manifest.current)
  BY <1>3, <1>5, <1>7, KeysShape DEF Manifest
<1>9. DOMAIN chunks \subseteq Keys(p.gen) \cup Keys(manifest.current)
  BY <1>3 DEF IInv, StoreOK, NoOrphans, Keys
<1>10. PICK q : q = [p EXCEPT !.pc = "sweep", !.local = m, !.todo = todo]
  OBVIOUS
<1>11. /\ q \in Process /\ q.pc = "sweep" /\ q.local = m /\ q.todo = todo /\ q.gen = p.gen
       /\ q.goal = p.goal /\ q.mode = p.mode /\ q.task = p.task /\ q.cache = p.cache
  BY <1>1, <1>5, <1>8, <1>10 DEF Process, Counters
<1>12. ModePart(q)'
  BY <1>1, <1>2, <1>3, <1>5, <1>6, <1>11 DEF ProcessOK, ModePart
<1>13. TaskPart(q)'
  BY <1>1, <1>2, <1>11 DEF ProcessOK, TaskPart, AtFirst, InVault, Last, Loading
<1>14. StepPart(q)'
  <2>1. p.task \notin Loading
    BY <1>1, <1>3 DEF ProcessOK, TaskPart
  <2> QED  BY <1>2, <1>3, <1>5, <1>6, <1>8, <1>9, <1>11, <2>1 DEF StepPart, Last
<1>15. StoreOK'
  <2>1. Readable(manifest.current)'
    BY <1>2, <1>3, <1>5, <1>6 DEF Readable
  <2>2. NoOrphans'
    BY <1>2, <1>5, <1>6, <1>9 DEF NoOrphans
  <2>3. Valid(manifest)'
    <3>1. m.current # None /\ m.retired # None => m.current.id # m.retired.id
      BY <1>3, <1>5, ValidShape DEF IInv, StoreOK
    <3> QED  BY <1>5, <1>6, <3>1, ValidShape
  <2>4. ~marker /\ legacy = None => p.goal = Empty
    BY <1>1, <1>3 DEF ProcessOK, ModePart, TaskPart, InVault, Last, AtFirst, Process, Tasks, Loading
  <2>5. Selected' = p.goal
    BY <1>3, <1>5, <1>6 DEF Selected
  <2>6. \A g \in {m.current, m.pending, m.retired} : g # None => g.id < nextId
    BY <1>3, <1>5 DEF IInv, StoreOK, Named
  <2> QED  BY <1>2, <1>6, <2>1, <2>2, <2>3, <2>4, <2>5, <2>6 DEF StoreOK, Named
<1>16. After(b, ok, q)
  BY <1>1, <1>4, <1>7, <1>10 DEF Commit
<1>17. /\ manifest' \in Manifest /\ nextId' \in Nat \ {0} /\ DOMAIN chunks' \subseteq Nat \X Nat
       /\ \A k \in DOMAIN chunks' : chunks'[k] \in Snapshots
  BY <1>2, <1>5, <1>6 DEF IInv, TypeOK
<1>18. manifest'.current # None
  BY <1>3, <1>5, <1>6
<1> QED  BY <1>1, <1>2, <1>11, <1>12, <1>13, <1>14, <1>15, <1>16, <1>17, <1>18, AfterInv DEF ProcessOK

LEMMA ReturnInv ==
  ASSUME IInv, NEW b \in Brokers, Return(b)
  PROVE  IInv'
<1>1. PICK p \in Process : p = broker[b] /\ ProcessOK(p) /\ lock = b /\ p.pc = "return"
  BY Holder DEF Return
<1>2. UNCHANGED <<Files, Store, nextId>>
  BY DEF Return
<1>3. CASE p.task = "update"
  <2>1. /\ p.mode \in {"os", "file"} /\ p.goal \in Snapshots
        /\ p.mode = "os" => legacy = None /\ marker /\ manifest.current # None
    BY <1>1, <1>3 DEF ProcessOK, ModePart, TaskPart, Process
  <2>2. PICK q : q = Serving(p.mode, p.goal)
    OBVIOUS
  <2>3. q \in Process /\ q.pc = "serving" /\ q.mode = p.mode /\ q.cache = p.goal /\ q.task = None
    BY <2>1, <2>2, ServingShape
  <2>4. ProcessOK(q)
    BY <2>1, <2>3, ServingOK
  <2>5. Continue(b, q)
    BY <1>1, <1>3, <2>2 DEF Return
  <2> QED  BY <1>1, <1>2, <2>3, <2>4, <2>5, AdvanceAlone
<1>4. p.task # "update" =>
        /\ p.task = "init" /\ p.mode = "os" /\ p.goal = AtFirst /\ p.goal \in Snapshots
        /\ p.cache = None /\ Selected = p.goal
  <2>1. AtFirst \in Snapshots
    BY VaultAssumption DEF IInv, TypeOK, AtFirst
  <2>2. p.task # "update" => p.task = "init" /\ p.goal = AtFirst
    BY <1>1 DEF ProcessOK, TaskPart, InVault, Last, Process, Tasks, Loading
  <2>3. p.task # "update" => p.mode # "file" /\ p.cache = None
    BY <1>1 DEF ProcessOK, ModePart
  <2>4. p.mode # None
    BY <1>1 DEF ProcessOK, TaskPart, ModePart
  <2> QED  BY <1>1, <2>1, <2>2, <2>3, <2>4 DEF ProcessOK, StepPart, Process
<1>5. CASE p.task # "update" /\ legacy = None
  <2>1. PICK q : q = [p EXCEPT !.pc = "marker"]
    OBVIOUS
  <2>2. q = [p EXCEPT !.pc = "marker", !.goal = p.goal]
    BY <2>1 DEF Process
  <2>3. q \in Process /\ ProcessOK(q)
    BY <1>1, <1>4, <1>5, <2>2, ToMarkerOK
  <2>4. Continue(b, q)
    BY <1>1, <1>5, <2>1 DEF Return
  <2> QED  BY <1>1, <1>2, <2>3, <2>4, AdvanceAlone
<1>6. CASE p.task # "update" /\ legacy # None
  <2>1. PICK q : q = Called(p, "confirm", p.goal)
    OBVIOUS
  <2>2. /\ q \in Process /\ q.pc = "read" /\ q.task = "confirm" /\ q.goal = p.goal /\ q.gen = None
        /\ q.mode = "os" /\ q.cache = None
    <3>1. "confirm" \in Tasks /\ p.goal \in Snapshots \cup {None}
      BY <1>4, <1>6 DEF Tasks
    <3> QED  BY <1>1, <1>4, <1>6, <2>1, <3>1, CalledShape
  <2>3. ProcessOK(q)
    BY <1>4, <1>6, <2>2, CalledOK DEF Tasks, AtFirst
  <2>4. Continue(b, q)
    BY <1>1, <1>6, <2>1 DEF Return
  <2> QED  BY <1>1, <1>2, <2>2, <2>3, <2>4, AdvanceAlone
<1> QED  BY <1>3, <1>5, <1>6

LEMMA SaveInv ==
  ASSUME IInv, NEW b \in Brokers, NEW v \in Snapshots, Save(b, v)
  PROVE  IInv'
<1>1. PICK p \in Process : p = broker[b] /\ ProcessOK(p) /\ lock = b /\ p.pc = "serving"
  BY Holder DEF Save
<1>2. UNCHANGED <<Files, Store, nextId>>
  BY DEF Save
<1>3. p.cache # None /\ p.mode \in {"os", "file"}
  BY <1>1 DEF ProcessOK, ModePart, Process
<1>4. CASE p.mode = "os"
  <2>1. PICK q : q = Called(p, "update", v)
    OBVIOUS
  <2>2. /\ q \in Process /\ q.pc = "read" /\ q.task = "update" /\ q.goal = v /\ q.gen = None
        /\ q.mode = "os" /\ q.cache # None
    <3>1. "update" \in Tasks /\ v \in Snapshots \cup {None}
      BY DEF Tasks
    <3> QED  BY <1>1, <1>3, <1>4, <2>1, <3>1, CalledShape
  <2>3. legacy = None /\ marker /\ manifest.current # None
    BY <1>1, <1>3, <1>4 DEF ProcessOK, ModePart
  <2>4. ProcessOK(q)
    BY <2>2, <2>3, CalledOK DEF Tasks
  <2>5. Continue(b, q)
    BY <1>1, <1>4, <2>1 DEF Save
  <2> QED  BY <1>1, <1>2, <2>2, <2>4, <2>5, AdvanceAlone
<1>5. CASE p.mode = "file"
  <2>1. PICK q : q = [p EXCEPT !.pc = "file", !.task = "update", !.goal = v]
    OBVIOUS
  <2>2. /\ q \in Process /\ q.pc = "file" /\ q.task = "update" /\ q.goal = v
        /\ q.mode = "file" /\ q.cache = p.cache
    BY <1>1, <1>5, <2>1 DEF Process, Counters, Tasks
  <2>3. ModePart(q)
    BY <1>3, <2>2, NoneAssumption DEF ModePart
  <2>4. TaskPart(q)
    BY <2>2, NoneAssumption DEF TaskPart, InVault, Last, Loading, Tasks
  <2>5. StepPart(q)
    BY <2>2 DEF StepPart, Last
  <2>6. Continue(b, q)
    BY <1>1, <1>5, <2>1 DEF Save
  <2> QED  BY <1>1, <1>2, <2>2, <2>3, <2>4, <2>5, <2>6, AdvanceAlone DEF ProcessOK
<1> QED  BY <1>3, <1>4, <1>5

LEMMA WriteFileInv ==
  ASSUME IInv, NEW b \in Brokers, WriteFile(b)
  PROVE  IInv'
<1>1. PICK p \in Process : p = broker[b] /\ ProcessOK(p) /\ lock = b /\ p.pc = "file"
  BY Holder DEF WriteFile
<1>2. UNCHANGED <<marker, manifest, chunks, nextId>> /\ legacy' = p.goal
  BY <1>1 DEF WriteFile, Store
<1>3. p.mode = "file" /\ p.task = "update" /\ p.goal \in Snapshots /\ p.cache # None
  BY <1>1 DEF ProcessOK, ModePart, TaskPart
<1>4. PICK q : q = [p EXCEPT !.pc = "return"]
  OBVIOUS
<1>5. /\ q \in Process /\ q.pc = "return" /\ q.task = "update" /\ q.goal = p.goal
      /\ q.mode = "file" /\ q.cache = p.cache
  BY <1>1, <1>3, <1>4 DEF Process, Counters
<1>6. ModePart(q)'
  BY <1>3, <1>5, NoneAssumption DEF ModePart
<1>7. TaskPart(q)'
  BY <1>3, <1>5, NoneAssumption DEF TaskPart, InVault, Last, Loading, Tasks
<1>8. StepPart(q)'
  BY <1>2, <1>3, <1>5 DEF StepPart, Last
<1>9. Continue(b, q)
  BY <1>1, <1>4 DEF WriteFile
<1>10. StoreOK'
  BY <1>2, <1>3, VaultAssumption DEF IInv, StoreOK, Readable, NoOrphans, Named, Selected
<1> QED  BY <1>1, <1>2, <1>3, <1>5, <1>6, <1>7, <1>8, <1>9, <1>10, Advance DEF IInv, TypeOK, ProcessOK

LEMMA InitInv == Init => IInv
<1> SUFFICES ASSUME Init PROVE IInv
  OBVIOUS
<1>1. /\ lock = None /\ legacy \in Snapshots \cup {None} /\ marker = FALSE
      /\ manifest = NoManifest /\ DOMAIN chunks = {} /\ nextId = 1
      /\ broker = [b \in Brokers |-> Off]
  BY VaultAssumption DEF Init
<1>2. NoManifest \in Manifest /\ NoManifest.current = None /\ NoManifest.pending = None /\ NoManifest.retired = None
  BY DEF NoManifest, Manifest
<1>3. TypeOK
  <2>1. broker \in [Brokers -> Process] /\ \A b \in Brokers : broker[b] = Off
    BY <1>1, OffShape
  <2>2. \A b \in Brokers : lock # b
    BY <1>1, VaultAssumption
  <2>3. marker \in BOOLEAN
    BY DEF Init
  <2>4. DOMAIN chunks \subseteq Nat \X Nat /\ \A k \in DOMAIN chunks : chunks[k] \in Snapshots
    BY <1>1
  <2> QED  BY <1>1, <1>2, <2>1, <2>2, <2>3, <2>4 DEF TypeOK
<1>4. StoreOK
  <2>1. Valid(manifest)
    BY <1>1, <1>2, ValidShape
  <2> QED  BY <1>1, <1>2, <2>1 DEF StoreOK, Readable, NoOrphans, Named, Selected, Keys
<1>5. ASSUME NEW b \in Brokers PROVE ProcessOK(broker[b])
  BY <1>1, OffShape
<1> QED  BY <1>3, <1>4, <1>5 DEF IInv

LEMMA StepInv == IInv /\ [Next]_vars => IInv'
<1> SUFFICES ASSUME IInv, [Next]_vars PROVE IInv'
  OBVIOUS
<1>1. ASSUME NEW b \in Brokers, StartStep(b) PROVE IInv'
  BY <1>1, OpenOsInv, OpenFileInv, MigrateInv, WriteMarkerInv, UnlinkInv DEF StartStep
<1>2. ASSUME NEW b \in Brokers, VaultStep(b) PROVE IInv'
  BY <1>2, ReadManifestInv, VerifyInv, ReturnInv, DeleteChunkInv, EndCleanupInv, StageInv,
     WriteChunkInv, CommitInv DEF VaultStep
<1>3. ASSUME NEW b \in Brokers, SettingsStep(b) PROVE IInv'
  BY <1>3, WriteFileInv, SaveInv DEF SettingsStep
<1>4. ASSUME NEW b \in Brokers, Fail(b) PROVE IInv'
  BY <1>4, AbortedInv DEF Fail
<1>5. ASSUME NEW b \in Brokers, Crash(b) PROVE IInv'
  BY <1>5, Holder, StopInv DEF Crash
<1>6. CASE UNCHANGED vars
  BY <1>6 DEF vars, IInv, TypeOK, StoreOK, ProcessOK, ModePart, TaskPart, StepPart, AtFirst,
              Selected, Readable, NoOrphans, Named
<1> QED  BY <1>1, <1>2, <1>3, <1>4, <1>5, <1>6 DEF Next

-----------------------------------------------------------------------------
(* The invariants *)

THEOREM Invariance == Spec => []IInv
BY InitInv, StepInv, PTL DEF Spec

(***************************************************************************)
(* The types, and that a process that runs holds the lock (lock_directory).*)
(***************************************************************************)
THEOREM TypeCorrect == Spec => []TypeOK
<1>1. IInv => TypeOK
  BY DEF IInv
<1> QED  BY <1>1, Invariance, PTL

(***************************************************************************)
(* Whatever fails and wherever a broker stops, load accepts the manifest   *)
(* and finds the whole of the snapshot it selects (Vault::cleanup and      *)
(* Vault::save).                                                           *)
(***************************************************************************)
THEOREM SnapshotSurvives == Spec => []SnapshotIntact
<1>1. IInv => SnapshotIntact
  BY DEF IInv, StoreOK, SnapshotIntact
<1> QED  BY <1>1, Invariance, PTL

(***************************************************************************)
(* Every entry with a part of the secrets is named by the manifest, so     *)
(* that a cleanup finds it (Vault::save).                                  *)
(***************************************************************************)
THEOREM EntriesAreNamed == Spec => []NoOrphans
<1>1. IInv => NoOrphans
  BY DEF IInv, StoreOK
<1> QED  BY <1>1, Invariance, PTL

-----------------------------------------------------------------------------
(* The refinement.  Register!registerVars is <<Value, CacheOf, SavingOf>>. *)

Goal(p) == IF p.task = "update" THEN p.goal ELSE None
CacheOf == [b \in Brokers |-> broker[b].cache]
SavingOf == [b \in Brokers |-> IF broker[b].task = "update" THEN broker[b].goal ELSE None]

\* How a step of one process changes the register's variables.
LEMMA Mapped ==
  ASSUME IInv, NEW b \in Brokers, NEW q, Continue(b, q)
  PROVE  /\ CacheOf' = [CacheOf EXCEPT ![b] = q.cache]
         /\ SavingOf' = [SavingOf EXCEPT ![b] = Goal(q)]
         /\ CacheOf[b] = broker[b].cache /\ SavingOf[b] = Goal(broker[b])
         /\ q.cache = broker[b].cache => CacheOf' = CacheOf
         /\ Goal(q) = Goal(broker[b]) => SavingOf' = SavingOf
<1>1. broker \in [Brokers -> Process] /\ broker' = [broker EXCEPT ![b] = q]
  BY DEF IInv, TypeOK, Continue
<1>2. /\ CacheOf' = [CacheOf EXCEPT ![b] = q.cache]
      /\ SavingOf' = [SavingOf EXCEPT ![b] = Goal(q)]
      /\ CacheOf[b] = broker[b].cache /\ SavingOf[b] = Goal(broker[b])
  BY <1>1 DEF CacheOf, SavingOf, Goal
<1>3. q.cache = broker[b].cache => CacheOf' = CacheOf
  BY <1>1 DEF CacheOf
<1>4. Goal(q) = Goal(broker[b]) => SavingOf' = SavingOf
  BY <1>1 DEF SavingOf, Goal
<1> QED  BY <1>2, <1>3, <1>4

LEMMA MapStutter ==
  ASSUME IInv, NEW b \in Brokers, NEW q, Continue(b, q), Value' = Value,
         q.cache = broker[b].cache, Goal(q) = Goal(broker[b])
  PROVE  UNCHANGED Register!registerVars
<1>1. CacheOf' = CacheOf /\ SavingOf' = SavingOf
  BY Mapped
<1> QED  BY <1>1 DEF Register!registerVars, CacheOf, SavingOf

LEMMA MapOpen ==
  ASSUME IInv, NEW b \in Brokers, lock \in {b, None}, broker[b].cache = None,
         NEW q, Continue(b, q), Value' = Value, q.cache = Value, Goal(q) = Goal(broker[b])
  PROVE  Register!Open(b)
<1>1. CacheOf' = [CacheOf EXCEPT ![b] = Value] /\ SavingOf' = SavingOf
  BY Mapped
<1>2. ASSUME NEW c \in Brokers PROVE CacheOf[c] = None
  <2>1. c # b => broker[c] = Off
    BY VaultAssumption DEF IInv, TypeOK
  <2> QED  BY <2>1 DEF CacheOf, Off
<1> QED  BY <1>1, <1>2 DEF Register!Open, CacheOf, SavingOf

LEMMA MapBegin ==
  ASSUME IInv, NEW b \in Brokers, NEW v, NEW q, Continue(b, q), Value' = Value,
         broker[b].cache # None, Goal(broker[b]) = None, q.cache = broker[b].cache, Goal(q) = v
  PROVE  Register!Begin(b, v)
<1>1. /\ CacheOf' = CacheOf /\ SavingOf' = [SavingOf EXCEPT ![b] = v]
      /\ CacheOf[b] # None /\ SavingOf[b] = None
  BY Mapped
<1> QED  BY <1>1 DEF Register!Begin, CacheOf, SavingOf

LEMMA MapCommit ==
  ASSUME IInv, NEW b \in Brokers, NEW q, Continue(b, q), Goal(broker[b]) # None,
         Value' = Goal(broker[b]), q.cache = broker[b].cache, Goal(q) = Goal(broker[b])
  PROVE  Register!Commit(b)
<1>1. /\ CacheOf' = CacheOf /\ SavingOf' = SavingOf /\ SavingOf[b] = Goal(broker[b])
  BY Mapped
<1> QED  BY <1>1 DEF Register!Commit, CacheOf, SavingOf

LEMMA MapSucceed ==
  ASSUME IInv, NEW b \in Brokers, NEW q, Continue(b, q), Goal(broker[b]) # None,
         Value = Goal(broker[b]), Value' = Value, q.cache = Goal(broker[b]), Goal(q) = None
  PROVE  Register!Succeed(b)
<1>1. /\ SavingOf[b] = Goal(broker[b]) /\ CacheOf' = [CacheOf EXCEPT ![b] = SavingOf[b]]
      /\ SavingOf' = [SavingOf EXCEPT ![b] = None]
  BY Mapped
<1> QED  BY <1>1 DEF Register!Succeed, CacheOf, SavingOf

LEMMA MapFail ==
  ASSUME IInv, NEW b \in Brokers, NEW q, Continue(b, q), Goal(broker[b]) # None,
         Value' \in {Value, Goal(broker[b])}, q.cache = broker[b].cache, Goal(q) = None
  PROVE  Register!Fail(b)
<1>1. /\ SavingOf[b] = Goal(broker[b]) /\ CacheOf' = CacheOf
      /\ SavingOf' = [SavingOf EXCEPT ![b] = None]
  BY Mapped
<1> QED  BY <1>1 DEF Register!Fail, CacheOf, SavingOf

LEMMA MapClose ==
  ASSUME IInv, NEW b \in Brokers, Continue(b, Off), Value' = Value, broker[b].cache # None
  PROVE  Register!Close(b)
<1>1. Off.cache = None /\ Goal(Off) = None
  BY DEF Off, Goal
<1>2. /\ CacheOf[b] # None /\ CacheOf' = [CacheOf EXCEPT ![b] = None]
      /\ SavingOf' = [SavingOf EXCEPT ![b] = None]
  BY <1>1, Mapped
<1> QED  BY <1>2 DEF Register!Close, CacheOf, SavingOf

\* A step of the register, or none.
RegisterStep == Register!RegisterNext \/ UNCHANGED Register!registerVars

\* A save that fails, or a start that does.
LEMMA MapAborted ==
  ASSUME IInv, NEW b \in Brokers, broker[b].pc # "off", Continue(b, Aborted(broker[b])),
         broker[b].task # "update" \/ broker[b].pc = "sweep" => Value' = Value,
         broker[b].task = "update" => Value' \in {Value, broker[b].goal}
  PROVE  RegisterStep
<1>1. PICK p \in Process : p = broker[b] /\ ProcessOK(p)
  BY Holder
<1>2. PICK q : q = Aborted(p)
  OBVIOUS
<1>3. CASE p.pc = "sweep" /\ p.gen # None
  <2>1. q.cache = p.cache /\ Goal(q) = Goal(p)
    BY <1>2, <1>3 DEF Aborted, Goal, Process
  <2> QED  BY <1>1, <1>2, <1>3, <2>1, MapStutter DEF RegisterStep
<1>4. CASE ~(p.pc = "sweep" /\ p.gen # None) /\ p.task = "update"
  <2>1. q = Serving(p.mode, p.cache)
    BY <1>2, <1>4 DEF Aborted
  <2>2. q.cache = p.cache /\ Goal(q) = None
    BY <2>1, NoneAssumption DEF Serving, Off, Goal, Tasks
  <2>3. Goal(p) = p.goal /\ p.goal # None
    BY <1>1, <1>4, VaultAssumption DEF Goal, ProcessOK, TaskPart
  <2>4. Register!Fail(b)
    BY <1>1, <1>2, <1>4, <2>2, <2>3, MapFail
  <2> QED  BY <2>4 DEF RegisterStep, Register!RegisterNext
<1>5. CASE ~(p.pc = "sweep" /\ p.gen # None) /\ p.task # "update"
  <2>1. q = Off
    BY <1>2, <1>5 DEF Aborted
  <2>2. CASE p.cache = None
    <3>1. q.cache = p.cache /\ Goal(q) = Goal(p)
      BY <1>5, <2>1, <2>2, NoneAssumption DEF Off, Goal, Tasks
    <3> QED  BY <1>1, <1>2, <1>5, <3>1, MapStutter DEF RegisterStep
  <2>3. CASE p.cache # None
    <3>1. Register!Close(b)
      BY <1>1, <1>2, <1>5, <2>1, <2>3, MapClose
    <3> QED  BY <3>1 DEF RegisterStep, Register!RegisterNext
  <2> QED  BY <2>2, <2>3
<1> QED  BY <1>3, <1>4, <1>5

LEMMA ValueStays ==
  ASSUME UNCHANGED legacy, manifest'.current = manifest.current
  PROVE  Value' = Value
BY DEF Value

LEMMA ValueAtFirst ==
  ASSUME IInv, ~marker
  PROVE  Value = AtFirst
<1>1. manifest.current # None => manifest.current.snapshot \in Snapshots
  BY DEF IInv, TypeOK, Manifest, Generation
<1> QED  BY <1>1, VaultAssumption DEF IInv, StoreOK, Selected, Value, AtFirst

\* The steps of a start: it serves the register's value at its last one.
LEMMA StartRegister ==
  ASSUME IInv, NEW b \in Brokers, StartStep(b)
  PROVE  RegisterStep
<1>1. CASE OpenOs(b)
  <2>1. PICK q : q = Called([Off EXCEPT !.mode = "os"], "open", None)
    OBVIOUS
  <2>2. Continue(b, q) /\ Value' = Value /\ broker[b] = Off
    BY <1>1, <2>1 DEF OpenOs, Files, Store, Value
  <2>3. q.cache = None /\ Goal(q) = None /\ Off.cache = None /\ Goal(Off) = None
    BY <2>1 DEF Called, Off, Goal
  <2> QED  BY <2>2, <2>3, MapStutter DEF RegisterStep
<1>2. CASE OpenFile(b)
  <2>1. PICK q : q = Serving("file", AtFirst)
    OBVIOUS
  <2>2. Continue(b, q) /\ Value' = Value /\ broker[b] = Off /\ lock = None /\ ~marker
    BY <1>2, <2>1 DEF OpenFile, Files, Store, Value, AtFirst, Unlocked
  <2>3. q.cache = AtFirst /\ Goal(q) = None /\ Off.cache = None /\ Goal(Off) = None
    BY <2>1, NoneAssumption DEF Serving, Off, Goal, Tasks
  <2>4. Value = AtFirst
    BY <2>2, ValueAtFirst
  <2>5. Register!Open(b)
    BY <2>2, <2>3, <2>4, MapOpen
  <2> QED  BY <2>5 DEF RegisterStep, Register!RegisterNext
<1>3. CASE Migrate(b)
  <2>1. PICK p \in Process : p = broker[b] /\ ProcessOK(p) /\ p.pc = "migrate"
    BY <1>3, Holder DEF Migrate
  <2>2. p.task \in Loading /\ p.cache = None
    BY <2>1 DEF ProcessOK, ModePart, TaskPart, InVault, Last, Process, Tasks, Loading
  <2>3. PICK q : /\ Continue(b, q)
                 /\ \/ q = [p EXCEPT !.pc = "marker"] \/ q = Off
                    \/ q = Called(p, "init", IF legacy = None THEN Empty ELSE legacy)
                    \/ q = [p EXCEPT !.pc = "marker", !.goal = p.got]
                    \/ q = Called(p, "confirm", legacy)
    BY <1>3, <2>1, Zenon DEF Migrate
  <2>4. q.cache = None /\ Goal(q) = None
    <3>1. Off.cache = None /\ Goal(Off) = None
      BY DEF Off, Goal
    <3>2. ASSUME NEW task \in {"init", "confirm"}, NEW goal
          PROVE  Called(p, task, goal).cache = None /\ Goal(Called(p, task, goal)) = None
      BY <2>1, <2>2 DEF Called, Process, Goal
    <3>3. p.task # "update"
      BY <2>2 DEF Loading
    <3>4. ASSUME NEW r, r = [p EXCEPT !.pc = "marker"] \/ r = [p EXCEPT !.pc = "marker", !.goal = p.got]
          PROVE  r.cache = None /\ Goal(r) = None
      BY <2>1, <2>2, <3>3, <3>4 DEF Process, Goal
    <3> QED  BY <2>3, <3>1, <3>2, <3>4
  <2>5. Goal(p) = None /\ Value' = Value
    BY <1>3, <2>2 DEF Goal, Loading, Value, Migrate, Files, Store
  <2> QED  BY <2>1, <2>2, <2>3, <2>4, <2>5, MapStutter DEF RegisterStep
<1>4. CASE WriteMarker(b)
  <2>1. PICK p \in Process : p = broker[b]
    BY DEF IInv, TypeOK
  <2>2. PICK q : q = [p EXCEPT !.pc = "unlink"]
    OBVIOUS
  <2>3. Continue(b, q) /\ Value' = Value
    BY <1>4, <2>1, <2>2 DEF WriteMarker, Store, Value
  <2>4. q.cache = p.cache /\ Goal(q) = Goal(p)
    BY <2>2 DEF Process, Goal
  <2> QED  BY <2>1, <2>3, <2>4, MapStutter DEF RegisterStep
<1>5. CASE Unlink(b)
  <2>1. PICK p \in Process : p = broker[b] /\ ProcessOK(p) /\ lock = b /\ p.pc = "unlink"
    BY <1>5, Holder DEF Unlink
  <2>2. /\ Selected = p.goal /\ p.goal # None /\ legacy \in {None, p.goal}
        /\ p.cache = None /\ p.task # "update"
    BY <2>1 DEF ProcessOK, ModePart, TaskPart, StepPart, InVault, Last
  <2>3. PICK q : q = Serving("os", p.goal)
    OBVIOUS
  <2>4. Continue(b, q) /\ legacy' = None /\ manifest' = manifest
    BY <1>5, <2>1, <2>3 DEF Unlink, Store
  <2>5. Value = p.goal /\ Value' = p.goal
    BY <2>2, <2>4 DEF Value, Selected
  <2>6. q.cache = p.goal /\ Goal(q) = None /\ Goal(p) = None
    BY <2>2, <2>3, NoneAssumption DEF Serving, Off, Goal, Tasks
  <2>7. Register!Open(b)
    BY <2>1, <2>2, <2>4, <2>5, <2>6, MapOpen
  <2> QED  BY <2>7 DEF RegisterStep, Register!RegisterNext
<1> QED  BY <1>1, <1>2, <1>3, <1>4, <1>5 DEF StartStep

\* A vault step that leaves the selected snapshot alone.
LEMMA QuietRegister ==
  ASSUME IInv, NEW b \in Brokers, broker[b].pc # "off", Value' = Value, NEW q,
         Continue(b, q) \/ Continue(b, Aborted(broker[b])),
         q.cache = broker[b].cache, q.task = broker[b].task, q.goal = broker[b].goal
  PROVE  RegisterStep
<1>1. Goal(q) = Goal(broker[b])
  BY DEF Goal
<1>2. CASE Continue(b, q)
  BY <1>1, <1>2, MapStutter DEF RegisterStep
<1>3. CASE Continue(b, Aborted(broker[b]))
  BY <1>3, MapAborted
<1> QED  BY <1>2, <1>3

LEMMA VaultRegister ==
  ASSUME IInv, NEW b \in Brokers, VaultStep(b)
  PROVE  RegisterStep
<1>1. PICK p \in Process : p = broker[b] /\ ProcessOK(p) /\ lock = b /\ p.pc # "off"
  BY Holder DEF VaultStep, ReadManifest, Verify, Return, DeleteChunk, EndCleanup, Stage, WriteChunk, Commit
<1>2. CASE ReadManifest(b)
  <2>1. PICK q : /\ Continue(b, q) \/ Continue(b, Aborted(p))
                 /\ \E got, todo : q = [p EXCEPT !.pc = "sweep", !.local = manifest, !.got = got, !.todo = todo]
    BY <1>1, <1>2, Zenon DEF ReadManifest
  <2>2. q.cache = p.cache /\ q.task = p.task /\ q.goal = p.goal
    BY <2>1 DEF Process
  <2>3. Value' = Value
    BY <1>2 DEF ReadManifest, Files, Store, Value
  <2> QED  BY <1>1, <2>1, <2>2, <2>3, QuietRegister
<1>3. CASE Verify(b)
  <2>1. PICK q : q = [p EXCEPT !.pc = "commit"]
    OBVIOUS
  <2>2. q.cache = p.cache /\ q.task = p.task /\ q.goal = p.goal
    BY <2>1 DEF Process
  <2>3. Value' = Value /\ (Continue(b, q) \/ Continue(b, Aborted(p)))
    BY <1>1, <1>3, <2>1 DEF Verify, Files, Store, Value
  <2> QED  BY <1>1, <2>2, <2>3, QuietRegister
<1>4. ASSUME NEW ok \in BOOLEAN, DeleteChunk(b, ok) PROVE RegisterStep
  <2>1. PICK q : q = [p EXCEPT !.todo = Tail(@)]
    OBVIOUS
  <2>2. q.cache = p.cache /\ q.task = p.task /\ q.goal = p.goal
    BY <2>1 DEF Process
  <2>3. Value' = Value /\ (Continue(b, q) \/ Continue(b, Aborted(p)))
    BY <1>1, <1>4, <2>1 DEF DeleteChunk, After, Files, Value
  <2> QED  BY <1>1, <2>2, <2>3, QuietRegister
<1>5. ASSUME NEW ok \in BOOLEAN, WriteChunk(b, ok) PROVE RegisterStep
  <2>1. PICK q : q = [p EXCEPT !.todo = Tail(@)]
    OBVIOUS
  <2>2. q.cache = p.cache /\ q.task = p.task /\ q.goal = p.goal
    BY <2>1 DEF Process
  <2>3. Value' = Value /\ (Continue(b, q) \/ Continue(b, Aborted(p)))
    BY <1>1, <1>5, <2>1 DEF WriteChunk, After, Files, Value
  <2> QED  BY <1>1, <2>2, <2>3, QuietRegister
<1>6. ASSUME NEW ok \in BOOLEAN, EndCleanup(b, ok) PROVE RegisterStep
  <2>1. p.local = manifest /\ manifest \in Manifest
    BY <1>1, <1>6 DEF EndCleanup, ProcessOK, StepPart, IInv, TypeOK
  <2>2. manifest' = [p.local EXCEPT !.pending = None, !.retired = None] /\ UNCHANGED legacy
    BY <1>1, <1>6 DEF EndCleanup, Files
  <2>3. Value' = Value
    BY <2>1, <2>2, ValueStays DEF Manifest
  <2>4. PICK next, m : /\ m = [p.local EXCEPT !.pending = None, !.retired = None]
                       /\ next = IF p.task \in Loading THEN "migrate"
                                 ELSE IF p.gen = None THEN "stage" ELSE "return"
    OBVIOUS
  <2>5. PICK q : q = [p EXCEPT !.pc = next, !.local = m]
    OBVIOUS
  <2>6. q.cache = p.cache /\ q.task = p.task /\ q.goal = p.goal
    BY <2>5 DEF Process
  <2>7. Continue(b, q) \/ Continue(b, Aborted(p))
    BY <1>1, <1>6, <2>4, <2>5 DEF EndCleanup, After
  <2> QED  BY <1>1, <2>3, <2>6, <2>7, QuietRegister
<1>7. ASSUME NEW ok \in BOOLEAN, Stage(b, ok) PROVE RegisterStep
  <2>1. p.local = manifest /\ manifest \in Manifest
    BY <1>1, <1>7 DEF Stage, ProcessOK, StepPart, IInv, TypeOK
  <2>2. PICK g : manifest' = [p.local EXCEPT !.pending = g] /\ UNCHANGED legacy
    BY <1>1, <1>7 DEF Stage, Files
  <2>3. Value' = Value
    BY <2>1, <2>2, ValueStays DEF Manifest
  <2>4. PICK h : h = [id |-> nextId, snapshot |-> p.goal]
    OBVIOUS
  <2>5. PICK q : q = [p EXCEPT !.pc = "write", !.gen = h, !.local = [p.local EXCEPT !.pending = h],
                               !.todo = KeysOf(h)]
    OBVIOUS
  <2>6. q.cache = p.cache /\ q.task = p.task /\ q.goal = p.goal
    BY <2>5 DEF Process
  <2>7. Continue(b, q) \/ Continue(b, Aborted(p))
    BY <1>1, <1>7, <2>4, <2>5 DEF Stage, After
  <2> QED  BY <1>1, <2>3, <2>6, <2>7, QuietRegister
<1>8. ASSUME NEW ok \in BOOLEAN, Commit(b, ok) PROVE RegisterStep
  <2>1. /\ p.gen # None /\ p.gen.snapshot = p.goal /\ p.mode = "os" /\ p.pc = "commit"
        /\ p.task \in {"init", "update"} /\ p.goal \in Snapshots
    BY <1>1, <1>8 DEF Commit, ProcessOK, ModePart, TaskPart, StepPart, InVault, Last, Loading,
       Process, Tasks, Generation
  <2>2. PICK m : manifest' = m /\ m.current = p.gen
    BY <1>1, <1>8 DEF Commit
  <2>3. UNCHANGED legacy
    BY <1>8 DEF Commit, Files
  <2>4. PICK q : /\ Continue(b, q) \/ Continue(b, Aborted(p))
                 /\ \E local, todo : q = [p EXCEPT !.pc = "sweep", !.local = local, !.todo = todo]
    BY <1>1, <1>8, Zenon DEF Commit, After
  <2>5. q.cache = p.cache /\ q.task = p.task /\ q.goal = p.goal
    BY <2>4 DEF Process
  <2>6. CASE p.task = "init"
    <3>1. ~marker /\ p.goal = AtFirst
      BY <1>1, <2>1, <2>6 DEF ProcessOK, TaskPart, Last
    <3>2. Value = AtFirst
      BY <3>1, ValueAtFirst
    <3>3. Value' = AtFirst
      BY <2>1, <2>2, <2>3, <3>1 DEF Value, AtFirst
    <3> QED  BY <1>1, <2>4, <2>5, <3>2, <3>3, QuietRegister
  <2>7. CASE p.task = "update"
    <3>1. legacy = None
      BY <1>1, <2>1, <2>7 DEF ProcessOK, ModePart
    <3>2. Value' = p.goal
      BY <2>1, <2>2, <2>3, <3>1 DEF Value
    <3>3. Goal(p) = p.goal /\ p.goal # None /\ Goal(q) = p.goal
      BY <2>1, <2>5, <2>7, VaultAssumption DEF Goal
    <3>4. CASE Continue(b, q)
      <4>1. Register!Commit(b)
        BY <1>1, <2>5, <3>2, <3>3, <3>4, MapCommit
      <4> QED  BY <4>1 DEF RegisterStep, Register!RegisterNext
    <3>5. CASE Continue(b, Aborted(p))
      BY <1>1, <2>1, <2>7, <3>2, <3>5, MapAborted
    <3> QED  BY <2>4, <3>4, <3>5
  <2> QED  BY <2>1, <2>6, <2>7
<1>9. CASE Return(b)
  <2>1. Value' = Value /\ p.pc = "return"
    BY <1>1, <1>9 DEF Return, Files, Store, Value
  <2>2. CASE p.task = "update"
    <3>1. PICK q : q = Serving(p.mode, p.goal)
      OBVIOUS
    <3>2. Continue(b, q) /\ q.cache = p.goal /\ Goal(q) = None
      BY <1>1, <1>9, <2>2, <3>1, NoneAssumption DEF Return, Serving, Off, Goal, Tasks
    <3>3. Goal(p) = p.goal /\ p.goal # None
      BY <1>1, <2>2, VaultAssumption DEF Goal, ProcessOK, TaskPart
    <3>4. Value = p.goal
      <4>1. p.mode = "os" => legacy = None /\ Selected = p.goal
        BY <1>1, <2>1, <2>2 DEF ProcessOK, ModePart, StepPart
      <4>2. p.mode # "os" => legacy = p.goal
        BY <1>1, <2>1 DEF ProcessOK, StepPart
      <4> QED  BY <3>3, <4>1, <4>2 DEF Value, Selected
    <3>5. Register!Succeed(b)
      BY <1>1, <2>1, <3>2, <3>3, <3>4, MapSucceed
    <3> QED  BY <3>5 DEF RegisterStep, Register!RegisterNext
  <2>3. CASE p.task # "update"
    <3>1. PICK q : /\ Continue(b, q)
                   /\ \/ q = [p EXCEPT !.pc = "marker"]
                      \/ q = Called(p, "confirm", p.goal)
      BY <1>1, <1>9, <2>3, Zenon DEF Return
    <3>2. q.cache = p.cache /\ Goal(q) = Goal(p)
      <4>1. CASE q = [p EXCEPT !.pc = "marker"]
        BY <2>3, <4>1 DEF Process, Goal
      <4>2. CASE q = Called(p, "confirm", p.goal)
        BY <2>3, <4>2 DEF Called, Process, Goal
      <4> QED  BY <3>1, <4>1, <4>2
    <3> QED  BY <1>1, <2>1, <3>1, <3>2, MapStutter DEF RegisterStep
  <2> QED  BY <2>2, <2>3
<1> QED  BY <1>2, <1>3, <1>4, <1>5, <1>6, <1>7, <1>8, <1>9 DEF VaultStep

LEMMA SettingsRegister ==
  ASSUME IInv, NEW b \in Brokers, SettingsStep(b) \/ Fail(b) \/ Crash(b)
  PROVE  RegisterStep
<1>1. CASE WriteFile(b)
  <2>1. PICK p \in Process : p = broker[b] /\ ProcessOK(p) /\ p.pc = "file"
    BY <1>1, Holder DEF WriteFile
  <2>2. p.task = "update" /\ p.goal \in Snapshots /\ p.goal # None
    BY <2>1, VaultAssumption DEF ProcessOK, TaskPart, InVault, Last, Process, Tasks, Loading
  <2>3. PICK q : q = [p EXCEPT !.pc = "return"]
    OBVIOUS
  <2>4. Continue(b, q) /\ legacy' = p.goal
    BY <1>1, <2>1, <2>3 DEF WriteFile
  <2>5. q.cache = p.cache /\ Goal(q) = p.goal /\ Goal(p) = p.goal
    BY <2>2, <2>3 DEF Process, Goal
  <2>6. Value' = p.goal
    BY <2>2, <2>4 DEF Value
  <2>7. Register!Commit(b)
    BY <2>1, <2>2, <2>4, <2>5, <2>6, MapCommit
  <2> QED  BY <2>7 DEF RegisterStep, Register!RegisterNext
<1>2. ASSUME NEW v \in Snapshots, Save(b, v) PROVE RegisterStep
  <2>1. PICK p \in Process : p = broker[b] /\ ProcessOK(p) /\ p.pc = "serving"
    BY <1>2, Holder DEF Save
  <2>2. p.cache # None /\ Goal(p) = None /\ Value' = Value
    BY <1>2, <2>1, NoneAssumption DEF ProcessOK, ModePart, Goal, Tasks, Save, Files, Store, Value
  <2>3. PICK q : /\ Continue(b, q)
                 /\ \/ q = Called(p, "update", v)
                    \/ q = [p EXCEPT !.pc = "file", !.task = "update", !.goal = v]
    BY <1>2, <2>1, Zenon DEF Save
  <2>4. q.cache = p.cache /\ Goal(q) = v
    BY <2>3 DEF Called, Process, Goal
  <2>5. Register!Begin(b, v)
    BY <2>1, <2>2, <2>3, <2>4, MapBegin
  <2> QED  BY <1>2, <2>5 DEF RegisterStep, Register!RegisterNext
<1>3. CASE Fail(b)
  <2>1. Value' = Value
    BY <1>3 DEF Fail, Files, Store, Value
  <2> QED  BY <1>3, <2>1, MapAborted DEF Fail
<1>4. CASE Crash(b)
  <2>1. PICK p \in Process : p = broker[b] /\ ProcessOK(p) /\ p.pc # "off"
    BY <1>4, Holder DEF Crash
  <2>2. Value' = Value /\ Continue(b, Off)
    BY <1>4 DEF Crash, Files, Store, Value
  <2>3. CASE p.cache # None
    <3>1. Register!Close(b)
      BY <2>1, <2>2, <2>3, MapClose
    <3> QED  BY <3>1 DEF RegisterStep, Register!RegisterNext
  <2>4. CASE p.cache = None
    <3>1. Off.cache = None /\ Goal(Off) = None /\ Goal(p) = None
      BY <2>1, <2>4 DEF Off, Goal, ProcessOK, ModePart
    <3> QED  BY <2>1, <2>2, <2>4, <3>1, MapStutter DEF RegisterStep
  <2> QED  BY <2>3, <2>4
<1> QED  BY <1>1, <1>2, <1>3, <1>4 DEF SettingsStep

(***************************************************************************)
(* The store is the register of whole snapshots that Settings takes it     *)
(* for: every step of a migration, a save, a cleanup, a failure or a crash *)
(* is a step of the register or invisible to it (open, migrate,            *)
(* Vault::save, Secrets::save).                                            *)
(***************************************************************************)
THEOREM RegisterImplemented == Spec => ImplementsRegister
<1>1. Init => Register!RegisterInit
  <2> SUFFICES ASSUME Init PROVE Register!RegisterInit
    OBVIOUS
  <2>1. Value \in Snapshots
    BY VaultAssumption DEF Init, Value, NoManifest
  <2>2. /\ CacheOf = [b \in Brokers |-> None]
        /\ SavingOf = [b \in Brokers |-> None]
    BY NoneAssumption DEF Init, CacheOf, SavingOf, Off, Tasks
  <2> QED  BY <2>1, <2>2 DEF Register!RegisterInit, CacheOf, SavingOf
<1>2. IInv /\ [Next]_vars => [Register!RegisterNext]_Register!registerVars
  <2> SUFFICES ASSUME IInv, [Next]_vars PROVE [Register!RegisterNext]_Register!registerVars
    OBVIOUS
  <2>1. CASE Next
    BY <2>1, StartRegister, VaultRegister, SettingsRegister DEF Next, RegisterStep
  <2>2. CASE UNCHANGED vars
    BY <2>2 DEF vars, Register!registerVars, Value
  <2> QED  BY <2>1, <2>2
<1> QED  BY <1>1, <1>2, Invariance, PTL DEF Spec, ImplementsRegister, Register!RegisterSpec
=============================================================================
