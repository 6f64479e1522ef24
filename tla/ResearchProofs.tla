-------------------------- MODULE ResearchProofs --------------------------
(***************************************************************************)
(* Proofs about the research side: the registry of models and its shadow    *)
(* predictions, the sealed holdout season, the paid archive of historical   *)
(* odds, and what research predictions have seen. Each part states its       *)
(* inductive invariant, shows that every action keeps it, and ends in the    *)
(* theorems of its specification.                                          *)
(***************************************************************************)
EXTENDS ModelRegistry, Holdout, OddsArchive, WalkForward, MarketCoverage, SumProofs

-----------------------------------------------------------------------------
(* 1. The registry of models and predictions *)

(* Registered hashes stay.                                                        *)
Grows ==
    \A t \in Tables : \A k \in Keys(t) : registry[t][k] # None => registry'[t][k] = registry[t][k]

(* What a worker is installing: it has put in place, or found in place, every entry *)
(* it is past, and nobody else has what it holds.                                  *)
InstallSound(w) ==
    /\ transaction[w].manifest \in Manifests /\ transaction[w].table \in Tables
    /\ transaction[w].next \in 1..(Len(Items(w)) + 1)
    /\ transaction[w].found => More(w)
    /\ transaction[w].held \subseteq Range(Items(w))
    /\ \A e \in transaction[w].held : registry[transaction[w].table][e.key] = None
    /\ \A i \in 1..(transaction[w].next - 1) :
          \/ Items(w)[i] \in transaction[w].held
          \/ registry[transaction[w].table][Items(w)[i].key] = Items(w)[i].hash
    /\ transaction[w].table = "artifacts" => Installed(transaction[w].manifest, "models")

RecordSound(w) ==
    transaction[w].draft \in Drafts /\ (transaction[w].found => Recordable(transaction[w].draft))

AttachSound(w) ==
    /\ transaction[w].final \in Finals /\ transaction[w].draft = transaction[w].final.of
    /\ transaction[w].found =>
          /\ transaction[w].draft \in predictions
          /\ transaction[w].final.at >= Kickoff[transaction[w].draft.event]

CallSound(w) ==
    /\ transaction[w].call = "install" => InstallSound(w)
    /\ transaction[w].call = "record" => RecordSound(w)
    /\ transaction[w].call = "attach" => AttachSound(w)

(* No two workers hold one key of one table.                                      *)
Apart(v, w) ==
    transaction[v].call = "install" /\ transaction[w].call = "install"
      /\ transaction[v].table = transaction[w].table =>
        \A e \in transaction[v].held, f \in transaction[w].held : e.key # f.key

Graded ==
    \A d \in Drafts : outcomes[d] # None =>
        outcomes[d].result = Grade(d, outcomes[d].final.margin, outcomes[d].final.total)

RowsGood ==
    /\ DOMAIN registry = Tables /\ \A t \in Tables : DOMAIN registry[t] = Keys(t)
    /\ DOMAIN outcomes = Drafts
    /\ RegistryTypeOK /\ ManifestsWhole /\ ShadowInOrder /\ Graded

RegistryInv ==
    /\ DOMAIN transaction = Worker
    /\ RowsGood
    /\ \A w \in Worker : CallSound(w)
    /\ \A v, w \in Worker : v # w => Apart(v, w)

------------------------------------------------------------------------------
(* Entries of manifests have a key in their table, a hash, and no other entry of   *)
(* their manifest has their key.                                                  *)
LEMMA EntryShape ==
  ASSUME NEW m \in Manifests, NEW t \in Tables
  PROVE  /\ Len(m[t]) \in Nat \ {0} /\ DOMAIN m[t] = 1..Len(m[t])
         /\ \A i \in 1..Len(m[t]) : m[t][i] \in Range(m[t])
         /\ \A e \in Range(m[t]) : e.key \in Keys(t) /\ e.hash # None
         /\ \A e \in Range(m[t]) : \E i \in 1..Len(m[t]) : e = m[t][i]
         /\ \A e, f \in Range(m[t]) : e.key = f.key => e = f
<1>1. m[t] \in Seq(Range(m[t])) /\ m[t] # <<>>
  BY RegistryAssumption
<1>2. Len(m[t]) \in Nat \ {0} /\ DOMAIN m[t] = 1..Len(m[t])
  BY <1>1
<1>3. \A i, j \in DOMAIN m[t] : m[t][i].key = m[t][j].key => i = j
  <2>1. PICK f : f = [i \in DOMAIN m[t] |-> m[t][i].key]
    OBVIOUS
  <2>2. \A i, j \in DOMAIN f : f[i] = f[j] => i = j
    BY <2>1, RegistryAssumption DEF IsInjective
  <2> QED BY <2>1, <2>2
<1>4. \A e \in Range(m[t]) : e.key \in Keys(t) /\ e.hash # None
  <2>1. PICK keys : keys = {e.key : e \in Range(m[t])}
    OBVIOUS
  <2>2. keys \subseteq Keys(t)
    BY <2>1 DEF Keys
  <2>3. \A e \in Range(m[t]) : e.key \in keys
    BY <2>1
  <2>4. \A e \in Range(m[t]) : e.hash # None
    BY RegistryAssumption
  <2> QED BY <2>2, <2>3, <2>4
<1> QED BY <1>2, <1>3, <1>4 DEF Range

(* A call stays sound while hashes stay, predictions stay and nobody takes a key    *)
(* that it holds.                                                                 *)
LEMMA CallStands ==
  ASSUME NEW w \in Worker, CallSound(w), transaction'[w] = transaction[w],
         Grows, predictions \subseteq predictions',
         transaction[w].call = "install" => \A e \in transaction[w].held :
            registry'[transaction[w].table][e.key] = registry[transaction[w].table][e.key]
  PROVE  CallSound(w)'
<1>1. Items(w)' = Items(w)
  BY DEF Items
<1>2. CASE transaction[w].call = "install"
  <2>1. InstallSound(w)
    BY <1>2 DEF CallSound
  <2>2. ASSUME NEW m \in Manifests, NEW t \in Tables, Installed(m, t) PROVE Installed(m, t)'
    BY <2>2, EntryShape DEF Installed, Grows
  <2>3. \A i \in 1..(transaction[w].next - 1) :
          \/ Items(w)[i] \in transaction[w].held
          \/ registry'[transaction[w].table][Items(w)[i].key] = Items(w)[i].hash
    <3> SUFFICES ASSUME NEW i \in 1..(transaction[w].next - 1), Items(w)[i] \notin transaction[w].held
                 PROVE  registry'[transaction[w].table][Items(w)[i].key] = Items(w)[i].hash
      OBVIOUS
    <3>1. i \in 1..Len(Items(w)) /\ transaction[w].manifest \in Manifests
          /\ transaction[w].table \in Tables
      BY <2>1, EntryShape DEF InstallSound, Items
    <3>2. Items(w)[i].key \in Keys(transaction[w].table) /\ Items(w)[i].hash # None
      BY <3>1, EntryShape DEF Items
    <3> QED BY <2>1, <3>1, <3>2 DEF InstallSound, Grows
  <2>4. InstallSound(w)'
    BY <1>1, <1>2, <2>1, <2>2, <2>3 DEF InstallSound, More, Tables
  <2> QED BY <1>2, <2>4 DEF CallSound
<1>3. CASE transaction[w].call = "record"
  <2>1. RecordSound(w)
    BY <1>3 DEF CallSound
  <2>2. ASSUME NEW d \in Drafts, Recordable(d) PROVE Recordable(d)'
    BY <2>2 DEF Recordable, Registered, Grows, Tables
  <2> QED BY <1>3, <2>1, <2>2 DEF CallSound, RecordSound
<1>4. CASE transaction[w].call = "attach"
  BY <1>4 DEF CallSound, AttachSound
<1> QED BY <1>2, <1>3, <1>4 DEF CallSound

(* A step of one worker that writes no row.                                       *)
LEMMA OneWorkerMoves ==
  ASSUME RegistryInv, NEW w \in Worker, UNCHANGED <<registry, predictions, outcomes>>,
         DOMAIN transaction' = Worker, \A v \in Worker \ {w} : transaction'[v] = transaction[v],
         CallSound(w)', \A v \in Worker \ {w} : Apart(v, w)' /\ Apart(w, v)'
  PROVE  RegistryInv'
<1>1. Grows
  BY DEF Grows
<1>2. \A v \in Worker : CallSound(v)'
  BY <1>1, CallStands DEF RegistryInv
<1>3. ASSUME NEW u \in Worker, NEW v \in Worker, u # v PROVE Apart(u, v)'
  <2>1. CASE u # w /\ v # w
    BY <1>3, <2>1 DEF RegistryInv, Apart
  <2> QED BY <1>3, <2>1
<1>4. RowsGood'
  BY DEF RegistryInv, RowsGood, RegistryTypeOK, ManifestsWhole, Installed, ShadowInOrder,
         Recordable, Registered, Graded
<1> QED BY <1>2, <1>3, <1>4 DEF RegistryInv

(* A call that ends without a row.                                                *)
LEMMA RolledBack ==
  ASSUME RegistryInv, NEW w \in Worker, RollBack(w)
  PROVE  RegistryInv'
<1>1. /\ UNCHANGED <<registry, predictions, outcomes>> /\ DOMAIN transaction' = Worker
      /\ \A v \in Worker \ {w} : transaction'[v] = transaction[v]
      /\ transaction'[w].call = "none"
  BY DEF RollBack, Finish, RegistryInv, Quiet
<1>2. CallSound(w)' /\ \A v \in Worker \ {w} : Apart(v, w)' /\ Apart(w, v)'
  BY <1>1 DEF CallSound, Apart
<1> QED BY <1>1, <1>2, OneWorkerMoves

(* A call that begins holds nothing.                                              *)
LEMMA CallKeeps ==
  ASSUME RegistryInv, NEW w \in Worker, Install(w) \/ Record(w) \/ Attach(w)
  PROVE  RegistryInv'
<1>1. ASSUME NEW k, Call(w, k)
      PROVE  /\ UNCHANGED <<registry, predictions, outcomes>> /\ DOMAIN transaction' = Worker
             /\ \A v \in Worker \ {w} : transaction'[v] = transaction[v]
             /\ transaction'[w] = k
  BY <1>1 DEF Call, RegistryInv
<1>2. CASE Install(w)
  <2>1. PICK m \in Manifests : Call(w, [Quiet EXCEPT !.call = "install", !.manifest = m])
    BY <1>2 DEF Install
  <2>2. PICK k : k = [Quiet EXCEPT !.call = "install", !.manifest = m]
    OBVIOUS
  <2>3. /\ k.call = "install" /\ k.manifest = m /\ k.table = "models" /\ k.next = 1
        /\ k.found = FALSE /\ k.held = {}
    BY <2>2 DEF Quiet
  <2>4. transaction'[w] = k
    BY <1>1, <2>1, <2>2
  <2>5. InstallSound(w)'
    BY <2>3, <2>4, EntryShape DEF InstallSound, Items, Tables
  <2>6. CallSound(w)' /\ \A v \in Worker \ {w} : Apart(v, w)' /\ Apart(w, v)'
    BY <2>3, <2>4, <2>5 DEF CallSound, Apart
  <2> QED BY <1>1, <2>1, <2>2, <2>6, OneWorkerMoves
<1>3. CASE Record(w)
  <2>1. PICK d \in Drafts : Call(w, [Quiet EXCEPT !.call = "record", !.draft = d])
    BY <1>3 DEF Record
  <2>2. PICK k : k = [Quiet EXCEPT !.call = "record", !.draft = d]
    OBVIOUS
  <2>3. k.call = "record" /\ k.draft = d /\ k.found = FALSE
    BY <2>2 DEF Quiet
  <2>4. transaction'[w] = k
    BY <1>1, <2>1, <2>2
  <2>5. CallSound(w)' /\ \A v \in Worker \ {w} : Apart(v, w)' /\ Apart(w, v)'
    BY <2>3, <2>4 DEF CallSound, RecordSound, Apart
  <2> QED BY <1>1, <2>1, <2>2, <2>5, OneWorkerMoves
<1>4. CASE Attach(w)
  <2>1. PICK f \in Finals : Call(w, [Quiet EXCEPT !.call = "attach", !.draft = f.of, !.final = f])
    BY <1>4 DEF Attach
  <2>2. PICK k : k = [Quiet EXCEPT !.call = "attach", !.draft = f.of, !.final = f]
    OBVIOUS
  <2>3. k.call = "attach" /\ k.draft = f.of /\ k.final = f /\ k.found = FALSE
    BY <2>2 DEF Quiet
  <2>4. transaction'[w] = k
    BY <1>1, <2>1, <2>2
  <2>5. CallSound(w)' /\ \A v \in Worker \ {w} : Apart(v, w)' /\ Apart(w, v)'
    BY <2>3, <2>4 DEF CallSound, AttachSound, Apart
  <2> QED BY <1>1, <2>1, <2>2, <2>5, OneWorkerMoves
<1> QED BY <1>2, <1>3, <1>4

(* What an installing worker is looking at.                                       *)
LEMMA ItemShape ==
  ASSUME RegistryInv, NEW w \in Worker, transaction[w].call = "install", More(w)
  PROVE  /\ InstallSound(w) /\ transaction[w].next \in 1..Len(Items(w))
         /\ Item(w) \in Range(Items(w)) /\ Item(w) = Items(w)[transaction[w].next]
         /\ Item(w).key \in Keys(transaction[w].table) /\ Item(w).hash # None
<1>1. InstallSound(w)
  BY DEF RegistryInv, CallSound
<1>2. transaction[w].next \in 1..Len(Items(w))
  BY <1>1, EntryShape DEF InstallSound, Items, More
<1> QED BY <1>1, <1>2, EntryShape DEF InstallSound, Items, Item

(* A look-up goes on to the insert, past an entry that is in place, or fails.      *)
LEMMA LookUpKeeps ==
  ASSUME RegistryInv, NEW w \in Worker, LookUp(w)
  PROVE  RegistryInv'
<1>1. /\ InstallSound(w) /\ transaction[w].next \in 1..Len(Items(w))
      /\ Item(w) = Items(w)[transaction[w].next] /\ More(w) /\ transaction[w].call = "install"
      /\ Len(Items(w)) \in Nat
  BY ItemShape, EntryShape DEF LookUp, InstallSound, Items
<1>2. ASSUME NEW k, transaction' = [transaction EXCEPT ![w] = k],
             UNCHANGED <<registry, predictions, outcomes>>,
             k.call = "install", k.manifest = transaction[w].manifest,
             k.table = transaction[w].table, k.held = transaction[w].held,
             \/ k.next = transaction[w].next /\ k.found
             \/ k.next = transaction[w].next + 1 /\ ~k.found /\ Committed(w) = Item(w).hash
      PROVE  RegistryInv'
  <2>1. /\ DOMAIN transaction' = Worker /\ \A v \in Worker \ {w} : transaction'[v] = transaction[v]
        /\ transaction'[w] = k
    BY <1>2 DEF RegistryInv
  <2>2. Items(w)' = Items(w)
    BY <1>2, <2>1 DEF Items
  <2>3. \A i \in 1..(k.next - 1) : i \in 1..(transaction[w].next - 1) \/ i = transaction[w].next
    BY <1>1, <1>2
  <2>4. InstallSound(w)'
    BY <1>1, <1>2, <2>1, <2>2, <2>3 DEF InstallSound, More, Committed, Installed
  <2>5. CallSound(w)'
    BY <1>2, <2>1, <2>4 DEF CallSound
  <2>6. \A v \in Worker \ {w} : Apart(v, w)' /\ Apart(w, v)'
    BY <1>1, <1>2, <2>1 DEF RegistryInv, Apart
  <2> QED BY <1>2, <2>1, <2>5, <2>6, OneWorkerMoves
<1>3. PICK k : k = [transaction[w] EXCEPT !.found = TRUE]
  OBVIOUS
<1>4. CASE transaction' = [transaction EXCEPT ![w] = k]
      /\ UNCHANGED <<registry, predictions, outcomes, made>>
  <2>1. /\ k.call = transaction[w].call /\ k.manifest = transaction[w].manifest
        /\ k.table = transaction[w].table /\ k.held = transaction[w].held
        /\ k.next = transaction[w].next /\ k.found = TRUE
    BY <1>3
  <2> QED BY <1>1, <1>2, <1>4, <2>1
<1>5. PICK n : n = [transaction[w] EXCEPT !.next = @ + 1]
  OBVIOUS
<1>6. CASE /\ transaction' = [transaction EXCEPT ![w] = n]
           /\ UNCHANGED <<registry, predictions, outcomes, made>>
           /\ Committed(w) = Item(w).hash /\ ~transaction[w].found
  <2>1. /\ n.call = transaction[w].call /\ n.manifest = transaction[w].manifest
        /\ n.table = transaction[w].table /\ n.held = transaction[w].held
        /\ n.next = transaction[w].next + 1 /\ n.found = transaction[w].found
    BY <1>5
  <2> QED BY <1>1, <1>2, <1>6, <2>1
<1> QED BY <1>3, <1>4, <1>5, <1>6, RolledBack DEF LookUp

(* An insert takes a key that nobody holds, or fails.                             *)
LEMMA InsertKeeps ==
  ASSUME RegistryInv, NEW w \in Worker, Insert(w)
  PROVE  RegistryInv'
<1>1. /\ transaction[w].call = "install" /\ transaction[w].found
      /\ \A v \in Worker : ~WaitsFor(w, v)
  BY DEF Insert
<1>2. InstallSound(w) /\ More(w)
  BY <1>1 DEF RegistryInv, CallSound, InstallSound
<1>3. /\ transaction[w].next \in 1..Len(Items(w)) /\ Item(w) \in Range(Items(w))
      /\ Item(w) = Items(w)[transaction[w].next] /\ Len(Items(w)) \in Nat
  BY <1>1, <1>2, ItemShape, EntryShape DEF InstallSound, Items
<1>4. CASE Committed(w) # None
  BY <1>4, RolledBack DEF Insert
<1>5. CASE Committed(w) = None
  <2>1. PICK k : k = [transaction[w] EXCEPT !.held = @ \cup {Item(w)}, !.found = FALSE, !.next = @ + 1]
    OBVIOUS
  <2>2. /\ transaction' = [transaction EXCEPT ![w] = k] /\ UNCHANGED <<registry, predictions, outcomes>>
    BY <1>5, <2>1 DEF Insert
  <2>3. /\ k.call = transaction[w].call /\ k.manifest = transaction[w].manifest
        /\ k.table = transaction[w].table /\ k.held = transaction[w].held \cup {Item(w)}
        /\ k.next = transaction[w].next + 1 /\ k.found = FALSE
    BY <2>1
  <2>4. /\ DOMAIN transaction' = Worker /\ \A v \in Worker \ {w} : transaction'[v] = transaction[v]
        /\ transaction'[w] = k
    BY <2>2 DEF RegistryInv
  <2>5. Items(w)' = Items(w)
    BY <2>3, <2>4 DEF Items
  <2>6. \A i \in 1..(k.next - 1) : i \in 1..(transaction[w].next - 1) \/ i = transaction[w].next
    BY <1>3, <2>3
  <2>7. InstallSound(w)'
    BY <1>2, <1>3, <1>5, <2>2, <2>3, <2>4, <2>5, <2>6 DEF InstallSound, More, Committed, Installed
  <2>8. CallSound(w)'
    BY <1>1, <2>3, <2>4, <2>7 DEF CallSound
  <2>9. ASSUME NEW v \in Worker \ {w} PROVE Apart(v, w)' /\ Apart(w, v)'
    <3>1. Apart(v, w) /\ Apart(w, v)
      BY DEF RegistryInv
    <3>2. transaction[v].call = "install" /\ transaction[v].table = transaction[w].table =>
            \A e \in transaction[v].held : e.key # Item(w).key
      BY <1>1 DEF WaitsFor, HeldBy
    <3> QED BY <1>1, <2>3, <2>4, <3>1, <3>2 DEF Apart
  <2> QED BY <2>2, <2>4, <2>8, <2>9, OneWorkerMoves
<1> QED BY <1>4, <1>5

(* What a commit puts in place: the entries of the manifest in its table.          *)
Installs(w) ==
    /\ InstallSound(w) /\ UNCHANGED <<predictions, outcomes>>
    /\ DOMAIN registry' = Tables /\ \A t \in Tables : DOMAIN registry'[t] = Keys(t)
    /\ Grows
    /\ \A t \in Tables : t # transaction[w].table => registry'[t] = registry[t]
    /\ \A k \in Keys(transaction[w].table) :
          \/ registry'[transaction[w].table][k] = registry[transaction[w].table][k]
          \/ \E e \in transaction[w].held : e.key = k
    /\ \A e \in Range(Items(w)) : registry'[transaction[w].table][e.key] = e.hash

(* CommitInstall puts that in place.                                              *)
LEMMA InstallCommits ==
  ASSUME RegistryInv, NEW w \in Worker, CommitInstall(w)
  PROVE  Installs(w)
<1>1. PICK x : x = transaction[w]
  OBVIOUS
<1>2. /\ x.call = "install" /\ InstallSound(w) /\ ~More(w) /\ UNCHANGED <<predictions, outcomes>>
      /\ registry' = [registry EXCEPT ![x.table] = With(@, x.held)]
  BY <1>1 DEF CommitInstall, RegistryInv, CallSound
<1>3. PICK m \in Manifests, t \in Tables : m = x.manifest /\ t = x.table /\ Items(w) = m[t]
  BY <1>1, <1>2 DEF InstallSound, Items
<1>4. /\ Len(m[t]) \in Nat \ {0} /\ DOMAIN m[t] = 1..Len(m[t])
      /\ \A e \in Range(m[t]) : e.key \in Keys(t) /\ e.hash # None
      /\ \A e \in Range(m[t]) : \E i \in 1..Len(m[t]) : e = m[t][i]
      /\ \A e, f \in Range(m[t]) : e.key = f.key => e = f
  BY EntryShape
<1>5. DOMAIN registry = Tables /\ \A u \in Tables : DOMAIN registry[u] = Keys(u)
  BY DEF RegistryInv, RowsGood
<1>6. /\ DOMAIN registry' = Tables /\ \A u \in Tables : u # t => registry'[u] = registry[u]
      /\ registry'[t] = With(registry[t], x.held)
  BY <1>2, <1>3, <1>5
<1>7. /\ DOMAIN registry'[t] = Keys(t)
      /\ \A k \in Keys(t) : registry'[t][k] = IF \E e \in x.held : e.key = k
                                              THEN (CHOOSE e \in x.held : e.key = k).hash
                                              ELSE registry[t][k]
  BY <1>5, <1>6 DEF With
<1>8. \A e \in x.held : e \in Range(m[t]) /\ registry[t][e.key] = None
  BY <1>1, <1>2, <1>3 DEF InstallSound
<1>9. ASSUME NEW e \in x.held PROVE registry'[t][e.key] = e.hash
  <2>1. (CHOOSE f \in x.held : f.key = e.key) = e
    BY <1>4, <1>8
  <2> QED BY <1>4, <1>7, <1>8, <2>1
<1>10. \A k \in Keys(t) : registry'[t][k] = registry[t][k] \/ \E e \in x.held : e.key = k
  BY <1>7
<1>11. Grows
  BY <1>6, <1>8, <1>10 DEF Grows
<1>12. ASSUME NEW e \in Range(m[t]) PROVE registry'[t][e.key] = e.hash
  <2>1. PICK i \in 1..Len(m[t]) : e = m[t][i]
    BY <1>4
  <2>2. i \in 1..(x.next - 1)
    BY <1>1, <1>2, <1>3, <1>4 DEF InstallSound, More
  <2>3. e \in x.held \/ registry[t][e.key] = e.hash
    BY <1>1, <1>2, <1>3, <2>1, <2>2 DEF InstallSound
  <2> QED BY <1>4, <1>9, <1>11, <2>3 DEF Grows
<1> QED BY <1>1, <1>2, <1>3, <1>5, <1>6, <1>7, <1>10, <1>11, <1>12 DEF Installs

(* Manifests are in place whole after a commit.                                   *)
LEMMA CommitRowsGood ==
  ASSUME RegistryInv, NEW w \in Worker, Installs(w)
  PROVE  RowsGood'
<1>1. PICK m \in Manifests, t \in Tables : /\ m = transaction[w].manifest /\ t = transaction[w].table
                                           /\ Items(w) = m[t]
  BY DEF Installs, InstallSound, Items
<1>2. Installed(m, t)' /\ \A e \in transaction[w].held : e \in Range(m[t])
  BY <1>1 DEF Installs, Installed, InstallSound
<1>3. ASSUME NEW n \in Manifests, NEW u \in Tables, Installed(n, u) PROVE Installed(n, u)'
  BY <1>3, EntryShape DEF Installed, Installs, Grows
<1>4. ASSUME NEW u \in Tables, NEW k \in Keys(u), registry'[u][k] # None
      PROVE  \/ registry[u][k] # None /\ registry'[u][k] = registry[u][k]
             \/ u = t /\ \E e \in Range(m[t]) : e.key = k /\ registry'[u][k] = e.hash
  <2>1. CASE u # t
    BY <1>1, <1>4, <2>1 DEF Installs
  <2>2. CASE u = t
    BY <1>1, <1>2, <1>4, <2>2 DEF Installs
  <2> QED BY <2>1, <2>2
<1>5. RegistryTypeOK'
  BY <1>4 DEF RegistryInv, RowsGood, RegistryTypeOK, Installs
<1>6. ManifestsWhole'
  <2>1. ASSUME NEW u \in Tables, NEW k \in Keys(u), registry'[u][k] # None
        PROVE  \E n \in Manifests : k \in {e.key : e \in Range(n[u])} /\ Installed(n, u)'
    <3>1. CASE registry[u][k] # None
      BY <1>3, <3>1 DEF RegistryInv, RowsGood, ManifestsWhole
    <3>2. CASE u = t /\ \E e \in Range(m[t]) : e.key = k
      BY <1>2, <3>2
    <3> QED BY <1>4, <2>1, <3>1, <3>2
  <2>2. ASSUME NEW k \in Keys("artifacts"), registry'["artifacts"][k] # None
        PROVE  \E n \in Manifests : /\ k \in {e.key : e \in Range(n["artifacts"])}
                                    /\ Installed(n, "models")' /\ Installed(n, "artifacts")'
    <3>1. "models" \in Tables /\ "artifacts" \in Tables
      BY DEF Tables
    <3>2. CASE registry["artifacts"][k] # None
      BY <1>3, <3>1, <3>2 DEF RegistryInv, RowsGood, ManifestsWhole
    <3>3. CASE t = "artifacts" /\ \E e \in Range(m[t]) : e.key = k
      <4>1. Installed(m, "models")
        BY <1>1, <3>3 DEF Installs, InstallSound
      <4> QED BY <1>2, <1>3, <3>1, <3>3, <4>1
    <3> QED BY <1>4, <2>2, <3>1, <3>2, <3>3
  <2> QED BY <2>1, <2>2 DEF ManifestsWhole
<1>7. ShadowInOrder'
  <2>1. \A d \in Drafts : Recordable(d) => Recordable(d)'
    BY DEF Recordable, Registered, Installs, Grows, Tables
  <2> QED BY <2>1 DEF ShadowInOrder, RegistryInv, RowsGood, RegistryTypeOK, Installs
<1> QED BY <1>5, <1>6, <1>7 DEF RowsGood, RegistryInv, Graded, Installs

(* A commit goes on to the artifacts, or ends; what others hold is not touched.     *)
LEMMA CommitInstallKeeps ==
  ASSUME RegistryInv, NEW w \in Worker, CommitInstall(w)
  PROVE  RegistryInv'
<1>1. Installs(w) /\ transaction[w].call = "install" /\ AfterCommit(w)
  BY InstallCommits DEF CommitInstall
<1>2. RowsGood'
  BY <1>1, CommitRowsGood
<1>3. /\ DOMAIN transaction' = Worker /\ \A v \in Worker \ {w} : transaction'[v] = transaction[v]
  BY <1>1 DEF AfterCommit, Finish, RegistryInv
<1>4. ASSUME NEW v \in Worker \ {w} PROVE CallSound(v)'
  <2>1. ASSUME transaction[v].call = "install", NEW e \in transaction[v].held
        PROVE  registry'[transaction[v].table][e.key] = registry[transaction[v].table][e.key]
    <3>1. InstallSound(v) /\ Apart(v, w)
      BY <2>1 DEF RegistryInv, CallSound
    <3>2. transaction[v].table \in Tables /\ e.key \in Keys(transaction[v].table)
      BY <2>1, <3>1, EntryShape DEF InstallSound, Items
    <3>3. CASE transaction[v].table # transaction[w].table
      BY <1>1, <3>2, <3>3 DEF Installs
    <3>4. CASE transaction[v].table = transaction[w].table
      BY <1>1, <2>1, <3>1, <3>2, <3>4 DEF Installs, Apart
    <3> QED BY <3>3, <3>4
  <2>2. CallSound(v) /\ Grows /\ predictions \subseteq predictions'
    BY <1>1 DEF RegistryInv, Installs
  <2> QED BY <1>3, <2>1, <2>2, CallStands
<1>5. CallSound(w)' /\ \A v \in Worker \ {w} : Apart(v, w)' /\ Apart(w, v)'
  <2>1. CASE transaction[w].table = "models"
    <3>1. PICK k : k = [transaction[w] EXCEPT !.table = "artifacts", !.next = 1, !.held = {}]
      OBVIOUS
    <3>2. transaction' = [transaction EXCEPT ![w] = k]
      BY <1>1, <2>1, <3>1 DEF AfterCommit
    <3>3. /\ k.call = transaction[w].call /\ k.manifest = transaction[w].manifest
          /\ k.table = "artifacts" /\ k.next = 1 /\ k.held = {} /\ k.found = transaction[w].found
      BY <3>1
    <3>4. transaction'[w] = k
      BY <3>2 DEF RegistryInv
    <3>5. ~transaction[w].found
      BY <1>1 DEF CommitInstall, Installs, InstallSound
    <3>6. Installed(k.manifest, "models")' /\ k.manifest \in Manifests
      BY <1>1, <2>1, <3>3 DEF Installs, Installed, InstallSound, Items
    <3>7. InstallSound(w)'
      BY <3>3, <3>4, <3>5, <3>6, EntryShape DEF InstallSound, Items, Tables
    <3> QED BY <1>1, <3>3, <3>4, <3>7 DEF CallSound, Apart
  <2>2. CASE transaction[w].table # "models"
    <3>1. transaction'[w].call = "none"
      BY <1>1, <2>2 DEF AfterCommit, Finish, Quiet, RegistryInv
    <3> QED BY <3>1 DEF CallSound, Apart
  <2> QED BY <2>1, <2>2
<1>6. ASSUME NEW u \in Worker, NEW v \in Worker, u # v PROVE Apart(u, v)'
  <2>1. CASE u # w /\ v # w
    BY <1>3, <1>6, <2>1 DEF RegistryInv, Apart
  <2> QED BY <1>5, <1>6, <2>1
<1>7. \A v \in Worker : CallSound(v)'
  BY <1>4, <1>5
<1> QED BY <1>2, <1>3, <1>6, <1>7 DEF RegistryInv

(* A prediction that is still recordable is checked, and another call fails.       *)
LEMMA CheckDraftKeeps ==
  ASSUME RegistryInv, NEW w \in Worker, CheckDraft(w)
  PROVE  RegistryInv'
<1>1. CASE transaction[w].draft \in predictions \/ ~Recordable(transaction[w].draft)
  BY <1>1, RolledBack DEF CheckDraft
<1>2. CASE Recordable(transaction[w].draft) /\ transaction[w].draft \notin predictions
  <2>1. PICK k : k = [transaction[w] EXCEPT !.found = TRUE]
    OBVIOUS
  <2>2. /\ transaction' = [transaction EXCEPT ![w] = k] /\ UNCHANGED <<registry, predictions, outcomes>>
        /\ transaction[w].call = "record"
    BY <1>2, <2>1 DEF CheckDraft
  <2>3. k.call = transaction[w].call /\ k.draft = transaction[w].draft
    BY <2>1
  <2>4. /\ DOMAIN transaction' = Worker /\ \A v \in Worker \ {w} : transaction'[v] = transaction[v]
        /\ transaction'[w] = k
    BY <2>2 DEF RegistryInv
  <2>5. RecordSound(w)
    BY <2>2 DEF RegistryInv, CallSound
  <2>6. RecordSound(w)'
    BY <1>2, <2>2, <2>3, <2>4, <2>5 DEF RecordSound, Recordable, Registered
  <2>7. CallSound(w)' /\ \A v \in Worker \ {w} : Apart(v, w)' /\ Apart(w, v)'
    BY <2>2, <2>3, <2>4, <2>6 DEF CallSound, Apart
  <2> QED BY <2>2, <2>4, <2>7, OneWorkerMoves
<1> QED BY <1>1, <1>2

(* An outcome whose prediction is there and whose game has started is checked.     *)
LEMMA CheckFinalKeeps ==
  ASSUME RegistryInv, NEW w \in Worker, CheckFinal(w)
  PROVE  RegistryInv'
<1>1. CASE ~Attachable(transaction[w].draft, transaction[w].final)
  BY <1>1, RolledBack DEF CheckFinal
<1>2. CASE Attachable(transaction[w].draft, transaction[w].final)
  <2>1. PICK k : k = [transaction[w] EXCEPT !.found = TRUE]
    OBVIOUS
  <2>2. /\ transaction' = [transaction EXCEPT ![w] = k] /\ UNCHANGED <<registry, predictions, outcomes>>
        /\ transaction[w].call = "attach"
    BY <1>2, <2>1 DEF CheckFinal
  <2>3. k.call = transaction[w].call /\ k.draft = transaction[w].draft /\ k.final = transaction[w].final
    BY <2>1
  <2>4. /\ DOMAIN transaction' = Worker /\ \A v \in Worker \ {w} : transaction'[v] = transaction[v]
        /\ transaction'[w] = k
    BY <2>2 DEF RegistryInv
  <2>5. AttachSound(w)
    BY <2>2 DEF RegistryInv, CallSound
  <2>6. AttachSound(w)'
    BY <1>2, <2>2, <2>3, <2>4, <2>5 DEF AttachSound, Attachable
  <2>7. CallSound(w)' /\ \A v \in Worker \ {w} : Apart(v, w)' /\ Apart(w, v)'
    BY <2>2, <2>3, <2>4, <2>6 DEF CallSound, Apart
  <2> QED BY <2>2, <2>4, <2>7, OneWorkerMoves
<1> QED BY <1>1, <1>2

(* The end of a call that recorded or attached: what it wrote is good, and the     *)
(* others' calls stand.                                                           *)
LEMMA CallEnds ==
  ASSUME RegistryInv, NEW w \in Worker, Finish(w), UNCHANGED registry,
         predictions \subseteq predictions', RowsGood'
  PROVE  RegistryInv'
<1>1. /\ DOMAIN transaction' = Worker /\ \A v \in Worker \ {w} : transaction'[v] = transaction[v]
      /\ transaction'[w].call = "none"
  BY DEF Finish, RegistryInv, Quiet
<1>2. Grows
  BY DEF Grows
<1>3. \A v \in Worker : CallSound(v)'
  <2>1. CallSound(w)'
    BY <1>1 DEF CallSound
  <2>2. ASSUME NEW v \in Worker \ {w} PROVE CallSound(v)'
    BY <1>1, <1>2, CallStands DEF RegistryInv
  <2> QED BY <2>1, <2>2
<1>4. ASSUME NEW u \in Worker, NEW v \in Worker, u # v PROVE Apart(u, v)'
  <2>1. CASE u # w /\ v # w
    BY <1>1, <1>4, <2>1 DEF RegistryInv, Apart
  <2> QED BY <1>1, <1>4, <2>1 DEF Apart
<1> QED BY <1>1, <1>3, <1>4 DEF RegistryInv

(* A prediction is recorded for a registered model and a game yet to start.        *)
LEMMA AppendPredictionKeeps ==
  ASSUME RegistryInv, NEW w \in Worker, AppendPrediction(w)
  PROVE  RegistryInv' /\ predictions \subseteq predictions'
<1>1. /\ predictions' = predictions \cup {transaction[w].draft} /\ Finish(w)
      /\ UNCHANGED <<registry, outcomes>>
  BY DEF AppendPrediction
<1>2. transaction[w].draft \in Drafts /\ Recordable(transaction[w].draft)
  BY DEF AppendPrediction, RegistryInv, CallSound, RecordSound
<1>3. RegistryTypeOK' /\ ManifestsWhole' /\ Graded'
  BY <1>1, <1>2 DEF RegistryInv, RowsGood, RegistryTypeOK, ManifestsWhole, Installed, Graded
<1>4. ShadowInOrder'
  BY <1>1, <1>2 DEF RegistryInv, RowsGood, ShadowInOrder, Registered, Recordable
<1>5. RowsGood'
  BY <1>1, <1>3, <1>4 DEF RegistryInv, RowsGood
<1> QED BY <1>1, <1>5, CallEnds

(* An outcome is attached to a recorded prediction that has none, of a game that   *)
(* has started since, with the grade of the prediction's line.                    *)
LEMMA InsertOutcomeKeeps ==
  ASSUME RegistryInv, NEW w \in Worker, InsertOutcome(w)
  PROVE  /\ RegistryInv'
         /\ \A d \in Drafts : outcomes[d] # None => outcomes'[d] = outcomes[d]
<1>1. PICK d, f : d = transaction[w].draft /\ f = transaction[w].final
  OBVIOUS
<1>2. /\ Finish(w) /\ UNCHANGED <<registry, predictions>>
      /\ IF outcomes[d] # None THEN UNCHANGED outcomes
         ELSE outcomes' = [outcomes EXCEPT ![d] = [final |-> f, result |-> Grade(d, f.margin, f.total)]]
  BY <1>1 DEF InsertOutcome
<1>3. f \in Finals /\ d = f.of /\ d \in predictions /\ f.at >= Kickoff[d.event]
  BY <1>1 DEF InsertOutcome, RegistryInv, CallSound, AttachSound
<1>4. d \in Drafts
  BY <1>3, RegistryAssumption
<1>5. CASE outcomes[d] # None
  <2>1. outcomes' = outcomes
    BY <1>2, <1>5
  <2>2. RowsGood'
    BY <1>2, <2>1 DEF RegistryInv, RowsGood, RegistryTypeOK, ManifestsWhole, Installed, ShadowInOrder,
                      Recordable, Registered, Graded
  <2> QED BY <1>2, <2>1, <2>2, CallEnds
<1>6. CASE outcomes[d] = None
  <2>1. PICK row : row = [final |-> f, result |-> Grade(d, f.margin, f.total)]
    OBVIOUS
  <2>2. row.final = f /\ row.result = Grade(d, f.margin, f.total)
    BY <2>1
  <2>3. outcomes' = [outcomes EXCEPT ![d] = row]
    BY <1>2, <1>6, <2>1
  <2>4. /\ DOMAIN outcomes' = Drafts /\ outcomes'[d] = row
        /\ \A e \in Drafts \ {d} : outcomes'[e] = outcomes[e]
    BY <1>4, <2>3 DEF RegistryInv, RowsGood
  <2>5. RegistryTypeOK' /\ ManifestsWhole'
    BY <1>2, <1>3, <2>2, <2>4 DEF RegistryInv, RowsGood, RegistryTypeOK, ManifestsWhole, Installed
  <2>6. ShadowInOrder'
    BY <1>2, <1>3, <2>2, <2>4 DEF RegistryInv, RowsGood, ShadowInOrder, Recordable, Registered
  <2>7. Graded'
    <3> SUFFICES ASSUME NEW e \in Drafts, outcomes'[e] # None
                 PROVE  outcomes'[e].result = Grade(e, outcomes'[e].final.margin, outcomes'[e].final.total)
      BY DEF Graded
    <3>1. CASE e = d
      BY <2>2, <2>4, <3>1
    <3>2. CASE e # d
      BY <2>4, <3>2 DEF RegistryInv, RowsGood, Graded
    <3> QED BY <3>1, <3>2
  <2>8. RowsGood'
    BY <1>2, <2>4, <2>5, <2>6, <2>7 DEF RegistryInv, RowsGood
  <2> QED BY <1>2, <1>6, <2>4, <2>8, CallEnds
<1> QED BY <1>5, <1>6

(* Nothing is registered, recorded or called at first.                            *)
LEMMA InitSound == RegistryInit => RegistryInv
<1> SUFFICES ASSUME RegistryInit PROVE RegistryInv
  OBVIOUS
<1>1. /\ DOMAIN transaction = Worker /\ \A w \in Worker : transaction[w].call = "none"
      /\ DOMAIN registry = Tables /\ \A t \in Tables : DOMAIN registry[t] = Keys(t)
      /\ \A t \in Tables : \A k \in Keys(t) : registry[t][k] = None
      /\ DOMAIN outcomes = Drafts /\ predictions = {} /\ \A d \in Drafts : outcomes[d] = None
  BY DEF RegistryInit, Quiet
<1>2. RowsGood
  BY <1>1 DEF RowsGood, RegistryTypeOK, ManifestsWhole, ShadowInOrder, Graded, Tables
<1> QED BY <1>1, <1>2 DEF RegistryInv, CallSound, Apart

(* No row is updated or removed.                                                  *)
RowsStay ==
    /\ Grows /\ predictions \subseteq predictions'
    /\ \A d \in Drafts : outcomes[d] # None => outcomes'[d] = outcomes[d]

(* Each step of a worker keeps the invariant and the rows.                        *)
LEMMA StepKeeps ==
  ASSUME RegistryInv, [RegistryNext]_registryVars
  PROVE  RegistryInv' /\ RowsStay
<1>1. ASSUME NEW w \in Worker, Install(w) \/ Record(w) \/ Attach(w)
      PROVE  RegistryInv' /\ RowsStay
  BY <1>1, CallKeeps DEF Install, Record, Attach, Call, RowsStay, Grows
<1>2. ASSUME NEW w \in Worker, RollBack(w) PROVE RegistryInv' /\ RowsStay
  BY <1>2, RolledBack DEF RollBack, RowsStay, Grows
<1>3. ASSUME NEW w \in Worker, LookUp(w) PROVE RegistryInv' /\ RowsStay
  BY <1>3, LookUpKeeps DEF LookUp, RollBack, RowsStay, Grows
<1>4. ASSUME NEW w \in Worker, Insert(w) PROVE RegistryInv' /\ RowsStay
  BY <1>4, InsertKeeps DEF Insert, RollBack, RowsStay, Grows
<1>5. ASSUME NEW w \in Worker, CommitInstall(w) PROVE RegistryInv' /\ RowsStay
  BY <1>5, CommitInstallKeeps, InstallCommits DEF Installs, RowsStay
<1>6. ASSUME NEW w \in Worker, CheckDraft(w) PROVE RegistryInv' /\ RowsStay
  BY <1>6, CheckDraftKeeps DEF CheckDraft, RollBack, RowsStay, Grows
<1>7. ASSUME NEW w \in Worker, AppendPrediction(w) PROVE RegistryInv' /\ RowsStay
  BY <1>7, AppendPredictionKeeps DEF AppendPrediction, RowsStay, Grows
<1>8. ASSUME NEW w \in Worker, CheckFinal(w) PROVE RegistryInv' /\ RowsStay
  BY <1>8, CheckFinalKeeps DEF CheckFinal, RollBack, RowsStay, Grows
<1>9. ASSUME NEW w \in Worker, InsertOutcome(w) PROVE RegistryInv' /\ RowsStay
  BY <1>9, InsertOutcomeKeeps DEF InsertOutcome, RowsStay, Grows
<1>10. CASE UNCHANGED registryVars
  <2>1. UNCHANGED <<registry, predictions, outcomes, transaction>>
    BY <1>10 DEF registryVars
  <2>2. RowsStay
    BY <2>1 DEF RowsStay, Grows
  <2>3. RowsGood'
    BY <2>1 DEF RegistryInv, RowsGood, RegistryTypeOK, ManifestsWhole, Installed, ShadowInOrder,
                Recordable, Registered, Graded
  <2>4. \A w \in Worker : CallSound(w)'
    BY <2>1, <2>2, CallStands DEF RegistryInv, RowsStay
  <2> QED BY <2>1, <2>2, <2>3, <2>4 DEF RegistryInv, Apart
<1> QED
  BY <1>1, <1>2, <1>3, <1>4, <1>5, <1>6, <1>7, <1>8, <1>9, <1>10
  DEF RegistryNext, Progress, Victim, Die

(* The two sides of a line are graded against each other.                         *)
LEMMA GradesOppose ==
  ASSUME NEW d \in Drafts, NEW e \in Drafts, Mirrored(d, e), NEW m \in Int, NEW n \in Int
  PROVE  Grade(d, m, n) = Mirror[Grade(e, m, n)]
<1>1. d.point \in Int /\ e.point \in Int /\ d.market = e.market
  BY RegistryAssumption DEF Mirrored
<1>2. d.market \in {"moneyline", "spread", "total"}
  BY RegistryAssumption
<1>3. CASE d.market = "moneyline"
  <2>1. \/ d.side = "home" /\ e.side = "away"
        \/ d.side = "away" /\ e.side = "home"
    BY <1>3 DEF Mirrored
  <2> QED BY <1>1, <1>3, <2>1 DEF Grade, Mirror
<1>4. CASE d.market = "spread"
  <2>1. /\ \/ d.side = "home" /\ e.side = "away"
           \/ d.side = "away" /\ e.side = "home"
        /\ d.point = -e.point
    BY <1>4 DEF Mirrored
  <2> QED BY <1>1, <1>4, <2>1 DEF Grade, Mirror
<1>5. CASE d.market = "total"
  <2>1. /\ \/ d.side = "over" /\ e.side = "under"
           \/ d.side = "under" /\ e.side = "over"
        /\ d.point = e.point
    BY <1>5 DEF Mirrored
  <2> QED BY <1>1, <1>5, <2>1 DEF Grade, Mirror
<1> QED BY <1>2, <1>3, <1>4, <1>5

(* What the invariant is for.                                                     *)
LEMMA InvIsSound == RegistryInv => RegistrySound
<1> SUFFICES ASSUME RegistryInv PROVE GradesMirror
  BY DEF RegistryInv, RowsGood, RegistrySound
<1> SUFFICES ASSUME NEW d \in Drafts, NEW e \in Drafts, Mirrored(d, e),
                    outcomes[d] # None, outcomes[e] # None,
                    outcomes[d].final.margin = outcomes[e].final.margin,
                    outcomes[d].final.total = outcomes[e].final.total
             PROVE  outcomes[d].result = Mirror[outcomes[e].result]
  BY DEF GradesMirror
<1>1. outcomes[d].final.margin \in Int /\ outcomes[d].final.total \in Int
  BY RegistryAssumption DEF RegistryInv, RowsGood, RegistryTypeOK
<1>2. /\ outcomes[d].result = Grade(d, outcomes[d].final.margin, outcomes[d].final.total)
      /\ outcomes[e].result = Grade(e, outcomes[d].final.margin, outcomes[d].final.total)
  BY DEF RegistryInv, RowsGood, Graded
<1> QED BY <1>1, <1>2, GradesOppose

(* Whatever workers start, race, die and record: manifests are installed whole,   *)
(* predictions are of registered models and games yet to start, outcomes of games *)
(* that did start, and the two sides of a line are graded against each other.     *)
THEOREM RegistryStaysSound == RegistrySpec => []RegistrySound
<1>1. RegistryInv /\ [RegistryNext]_registryVars => RegistryInv'
  BY StepKeeps
<1> QED BY <1>1, InitSound, InvIsSound, PTL DEF RegistrySpec

(* No registered version, recorded prediction or attached outcome changes or      *)
(* disappears, whichever workers race.                                            *)
THEOREM RegistryRowsAreForever == RegistrySpec => RowsAreForever
<1>1. RegistryInv /\ [RegistryNext]_registryVars => RegistryInv'
  BY StepKeeps
<1>2. RegistryInv /\ [RegistryNext]_registryVars =>
        [/\ \A t \in Tables : \A k \in Keys(t) : registry[t][k] # None => registry'[t][k] = registry[t][k]
         /\ predictions \subseteq predictions'
         /\ \A d \in Drafts : outcomes[d] # None => outcomes'[d] = outcomes[d]]_registryVars
  BY StepKeeps DEF RowsStay, Grows
<1> QED BY <1>1, <1>2, InitSound, PTL DEF RegistrySpec, RowsAreForever

-----------------------------------------------------------------------------
(* 2. The sealed season *)

(* The seal: the pointer names a record whose freeze was verified, and nothing of  *)
(* the season is there without it.                                                *)
Sealed ==
    /\ issued \in 0..MaxCommands
    /\ records \subseteq 1..MaxCommands /\ unlocked \in (records \cap verified) \cup {Absent}
    /\ inputs \subseteq DOMAIN Needs
    /\ points \in Evaluations \cup {Absent, Torn} /\ probabilities \in Evaluations \cup {Absent, Torn}
    /\ inputs # {} \/ points # Absent \/ manifest # Absent \/ report # Absent => unlocked # Absent

(* What a command has established by the step it is at.                           *)
CommandSound(c) ==
    /\ commands[c].name # "none" => commands[c].id \in 1..issued
    /\ At(c, "unlock", "record") => commands[c].id \in verified
    /\ At(c, "unlock", "point") => commands[c].id \in records \cap verified
    /\ commands[c].name = "evaluate" => commands[c].of \in Evaluations
    /\ commands[c].name = "evaluate" /\ commands[c].at # "start" =>
          unlocked # Absent /\ commands[c].unlock \in records

Alone(name) ==
    \A c, d \in Command : c # d => ~ (commands[c].name = name /\ commands[d].name = name)

(* Unlocks that do not race see the seal before they break it.                     *)
OneUnlock ==
    /\ Alone("unlock")
    /\ \A c \in Command : commands[c].name = "unlock" /\ commands[c].at # "start" => unlocked = Absent

(* A report of the tables of its evaluation, under a record.                       *)
Faithful(r) == r.points = r.of /\ r.probabilities = r.of /\ r.unlock \in records

(* The tables that a command has written or read.                                 *)
TablesSound(c) ==
    /\ At(c, "evaluate", "probabilities") => points = commands[c].of
    /\ At(c, "evaluate", "manifest") => points = commands[c].of /\ probabilities = commands[c].of
    /\ At(c, "evaluate", "report") => Faithful(commands[c].report)
    /\ At(c, "validate", "tables") => Faithful(commands[c].report)

(* Evaluations that do not overlap report what they have computed.                 *)
OneEvaluation ==
    /\ Alone("evaluate")
    /\ \A c \in Command : TablesSound(c)
    /\ report \notin {Absent, Torn} => Faithful(report)
    /\ \A a \in accepted : Faithful(a.report) /\ a.points = a.report.of /\ a.probabilities = a.report.of

HoldoutInv ==
    /\ DOMAIN commands = Command
    /\ Sealed
    /\ \A c \in Command : CommandSound(c)
    /\ raced \/ OneUnlock
    /\ mixed \/ OneEvaluation

------------------------------------------------------------------------------
Others(c) == DOMAIN commands' = Command /\ \A d \in Command \ {c} : commands'[d] = commands[d]

(* A command that goes on changes where it is, and nothing else of itself. *)
LEMMA GoesShape ==
  ASSUME DOMAIN commands = Command, NEW c \in Command, NEW at, Goes(c, at)
  PROVE  /\ Others(c) /\ commands'[c].at = at
         /\ commands'[c].name = commands[c].name /\ commands'[c].id = commands[c].id
         /\ commands'[c].of = commands[c].of /\ commands'[c].unlock = commands[c].unlock
         /\ commands'[c].report = commands[c].report
<1>1. PICK k : k = [commands[c] EXCEPT !.at = at]
  OBVIOUS
<1>2. /\ k.at = at /\ k.name = commands[c].name /\ k.id = commands[c].id /\ k.of = commands[c].of
      /\ k.unlock = commands[c].unlock /\ k.report = commands[c].report
  BY <1>1
<1>3. commands' = [commands EXCEPT ![c] = k]
  BY <1>1 DEF Goes
<1>4. Others(c) /\ commands'[c] = k
  BY <1>3 DEF Others
<1> QED BY <1>2, <1>4

(* A command that ends is at rest. *)
LEMMA EndsShape ==
  ASSUME DOMAIN commands = Command, NEW c \in Command, Ends(c)
  PROVE  Others(c) /\ commands'[c].name = "none" /\ commands'[c].at = "rest"
BY DEF Ends, Others, Resting

(* A command may end at any step and leaves the invariant as it is: what it has
   written stays, and it holds no lock. *)
LEMMA CommandEnds ==
  ASSUME HoldoutInv, NEW c \in Command, Ends(c), UNCHANGED <<seal, inputs, evaluation, issued, ghosts>>
  PROVE  HoldoutInv'
<1>1. Others(c) /\ commands'[c].name = "none"
  BY EndsShape DEF HoldoutInv
<1>2. Sealed'
  BY DEF HoldoutInv, Sealed, seal, evaluation, ghosts
<1>3. \A d \in Command : CommandSound(d)'
  BY <1>1 DEF HoldoutInv, CommandSound, At, Others, seal, ghosts
<1>4. raced \/ OneUnlock'
  BY <1>1 DEF HoldoutInv, OneUnlock, Alone, Others, seal
<1>5. mixed \/ OneEvaluation'
  BY <1>1
         DEF HoldoutInv, OneEvaluation, Alone, TablesSound, Faithful, At, Others, seal, evaluation, ghosts
<1> QED BY <1>1, <1>2, <1>3, <1>4, <1>5 DEF HoldoutInv, Others, ghosts

(* The unlock writes its record and only then the pointer: the invariant holds
   between the two. *)
LEMMA UnlockKeeps ==
  ASSUME HoldoutInv, NEW c \in Command,
         CheckSealed(c) \/ VerifyFreeze(c) \/ WriteRecord(c) \/ WriteUnlockPointer(c)
  PROVE  HoldoutInv' /\ (unlocked # Absent /\ ~raced' => unlocked' = unlocked)
<1>1. CASE CheckSealed(c)
  <2>1. CASE unlocked # Absent
    BY <1>1, <2>1, CommandEnds DEF CheckSealed, seal
  <2>2. CASE unlocked = Absent
    <3>1. /\ Goes(c, "verify") /\ At(c, "unlock", "start")
          /\ UNCHANGED <<seal, inputs, evaluation, issued, ghosts>>
      BY <1>1, <2>2 DEF CheckSealed
    <3>2. /\ Others(c) /\ commands'[c].at = "verify" /\ commands'[c].name = "unlock"
          /\ commands'[c].id = commands[c].id /\ commands[c].name = "unlock"
      BY <3>1, GoesShape DEF HoldoutInv, At
    <3>3. Sealed'
      BY <3>1 DEF HoldoutInv, Sealed, seal, evaluation, ghosts
    <3>4. \A d \in Command : CommandSound(d)'
      BY <3>1, <3>2 DEF HoldoutInv, CommandSound, At, Others, seal, ghosts
    <3>5. raced \/ OneUnlock'
      BY <2>2, <3>1, <3>2 DEF HoldoutInv, OneUnlock, Alone, Others, seal
    <3>6. mixed \/ OneEvaluation'
      BY <3>1, <3>2
         DEF HoldoutInv, OneEvaluation, Alone, TablesSound, Faithful, At, Others, seal, evaluation, ghosts
    <3> QED BY <2>2, <3>1, <3>2, <3>3, <3>4, <3>5, <3>6 DEF HoldoutInv, Others, ghosts
  <2> QED BY <2>1, <2>2
<1>2. CASE VerifyFreeze(c)
  <2>1. CASE tournament # "frozen"
    BY <1>2, <2>1, CommandEnds DEF VerifyFreeze, seal, ghosts
  <2>2. CASE tournament = "frozen"
    <3>1. /\ Goes(c, "record") /\ At(c, "unlock", "verify") /\ verified' = verified \cup {commands[c].id}
          /\ UNCHANGED <<seal, inputs, evaluation, issued, accepted, raced, mixed>>
      BY <1>2, <2>2 DEF VerifyFreeze
    <3>2. /\ Others(c) /\ commands'[c].at = "record" /\ commands'[c].name = "unlock"
          /\ commands'[c].id = commands[c].id /\ commands[c].name = "unlock"
          /\ commands[c].at = "verify"
      BY <3>1, GoesShape DEF HoldoutInv, At
    <3>3. Sealed'
      BY <3>1 DEF HoldoutInv, Sealed, seal, evaluation
    <3>4. \A d \in Command : CommandSound(d)'
      BY <3>1, <3>2 DEF HoldoutInv, CommandSound, At, Others, seal
    <3>5. raced \/ OneUnlock'
      BY <3>1, <3>2 DEF HoldoutInv, OneUnlock, Alone, Others, seal
    <3>6. mixed \/ OneEvaluation'
      BY <3>1, <3>2 DEF HoldoutInv, OneEvaluation, Alone, TablesSound, Faithful, At, Others, seal, evaluation
    <3> QED BY <3>1, <3>2, <3>3, <3>4, <3>5, <3>6 DEF HoldoutInv, Others, seal
  <2> QED BY <2>1, <2>2
<1>3. CASE WriteRecord(c)
  <2>1. /\ Goes(c, "point") /\ At(c, "unlock", "record") /\ records' = records \cup {commands[c].id}
        /\ UNCHANGED <<unlocked, inputs, evaluation, issued, ghosts>>
    BY <1>3 DEF WriteRecord
  <2>2. /\ Others(c) /\ commands'[c].at = "point" /\ commands'[c].name = "unlock"
        /\ commands'[c].id = commands[c].id /\ commands[c].name = "unlock" /\ commands[c].at = "record"
    BY <2>1, GoesShape DEF HoldoutInv, At
  <2>3. Sealed'
    <3>1. commands[c].id \in 1..issued /\ issued \in 0..MaxCommands
      BY <2>2 DEF HoldoutInv, CommandSound, Sealed
    <3>2. commands[c].id \in 1..MaxCommands
      BY <3>1, HoldoutAssumption
    <3> QED BY <2>1, <3>2 DEF HoldoutInv, Sealed, evaluation, ghosts
  <2>4. \A d \in Command : CommandSound(d)'
    BY <2>1, <2>2 DEF HoldoutInv, CommandSound, At, Others, ghosts
  <2>5. raced \/ OneUnlock'
    BY <2>1, <2>2 DEF HoldoutInv, OneUnlock, Alone, Others
  <2>6. mixed \/ OneEvaluation'
    BY <2>1, <2>2 DEF HoldoutInv, OneEvaluation, Alone, TablesSound, Faithful, At, Others, evaluation, ghosts
  <2> QED BY <2>1, <2>2, <2>3, <2>4, <2>5, <2>6 DEF HoldoutInv, Others, ghosts
<1>4. CASE WriteUnlockPointer(c)
  <2>1. /\ Ends(c) /\ At(c, "unlock", "point") /\ unlocked' = commands[c].id
        /\ UNCHANGED <<records, inputs, evaluation, issued, ghosts>>
    BY <1>4 DEF WriteUnlockPointer
  <2>2. /\ Others(c) /\ commands'[c].name = "none" /\ commands[c].name = "unlock" /\ commands[c].at = "point"
    BY <2>1, EndsShape DEF HoldoutInv, At
  <2>3. commands[c].id \in records \cap verified /\ commands[c].id # Absent
    <3>1. commands[c].id \in records \cap verified /\ commands[c].id \in 1..issued
      BY <2>1, <2>2 DEF HoldoutInv, CommandSound
    <3> QED BY <3>1, HoldoutAssumption DEF HoldoutInv, Sealed
  <2>4. Sealed'
    BY <2>1, <2>3 DEF HoldoutInv, Sealed, evaluation, ghosts
  <2>5. \A d \in Command : CommandSound(d)'
    BY <2>1, <2>2, <2>3 DEF HoldoutInv, CommandSound, At, Others, ghosts
  <2>6. raced \/ OneUnlock'
    BY <2>1, <2>2 DEF HoldoutInv, OneUnlock, Alone, Others
  <2>7. mixed \/ OneEvaluation'
    BY <2>1, <2>2 DEF HoldoutInv, OneEvaluation, Alone, TablesSound, Faithful, At, Others, evaluation, ghosts
  <2>8. raced \/ unlocked = Absent
    BY <2>2 DEF HoldoutInv, OneUnlock
  <2> QED BY <2>1, <2>2, <2>4, <2>5, <2>6, <2>7, <2>8 DEF HoldoutInv, Others, ghosts
<1> QED BY <1>1, <1>2, <1>3, <1>4

(* A new command of the operator. *)
LEMMA IssueKeeps ==
  ASSUME HoldoutInv, NEW c \in Command, NEW name, NEW of, Issue(c, name, of),
         name # "none", name = "evaluate" => of \in Evaluations
  PROVE  HoldoutInv'
<1>1. PICK k : k = [Resting EXCEPT !.name = name, !.at = "start", !.id = issued + 1, !.of = of]
  OBVIOUS
<1>2. k.name = name /\ k.at = "start" /\ k.id = issued + 1 /\ k.of = of
  BY <1>1 DEF Resting
<1>3. /\ commands[c] = Resting /\ issued < MaxCommands /\ issued' = issued + 1
      /\ commands' = [commands EXCEPT ![c] = k]
      /\ UNCHANGED <<seal, inputs, evaluation, verified, accepted>>
  BY <1>1 DEF Issue
<1>4. Others(c) /\ commands'[c] = k
  BY <1>3 DEF HoldoutInv, Others
<1>5. /\ raced' = (raced \/ (name = "unlock" /\ \E d \in Command \ {c} : commands[d].name = "unlock"))
      /\ mixed' = (mixed \/ (name \in {"evaluate", "validate"}
                               /\ \E d \in Command \ {c} : commands[d].name = "evaluate")
                         \/ (name = "evaluate" /\ \E d \in Command \ {c} : commands[d].name = "validate"))
  BY DEF Issue
<1>6. issued \in Nat /\ issued' \in 1..MaxCommands
  BY <1>3, HoldoutAssumption DEF HoldoutInv, Sealed
<1>7. Sealed'
  BY <1>3, <1>6 DEF HoldoutInv, Sealed, seal, evaluation
<1>8. \A d \in Command : CommandSound(d)'
  <2>1. CommandSound(c)'
    BY <1>2, <1>3, <1>4, <1>6 DEF CommandSound, At
  <2>2. ASSUME NEW d \in Command \ {c} PROVE CommandSound(d)'
    <3>1. commands[d].id \in 1..issued => commands[d].id \in 1..issued'
      BY <1>3, <1>6
    <3> QED BY <1>3, <1>4, <3>1 DEF HoldoutInv, CommandSound, At, Others, seal
  <2> QED BY <2>1, <2>2
<1>9. raced' \/ OneUnlock'
  BY <1>2, <1>3, <1>4, <1>5 DEF HoldoutInv, OneUnlock, Alone, Others, seal
<1>10. mixed' \/ OneEvaluation'
  <2> SUFFICES ASSUME ~mixed' PROVE OneEvaluation'
    OBVIOUS
  <2>1. OneEvaluation /\ (name = "evaluate" => \A d \in Command \ {c} : commands[d].name # "evaluate")
    BY <1>5 DEF HoldoutInv
  <2>2. Alone("evaluate")'
    BY <1>2, <1>4, <2>1 DEF OneEvaluation, Alone, Others
  <2>3. \A d \in Command : TablesSound(d)'
    BY <1>2, <1>3, <1>4, <2>1 DEF OneEvaluation, TablesSound, Faithful, At, Others, seal, evaluation
  <2> QED BY <1>3, <2>1, <2>2, <2>3 DEF OneEvaluation, Faithful, seal, evaluation
<1> QED BY <1>4, <1>7, <1>8, <1>9, <1>10 DEF HoldoutInv, Others

(* The tournament is run again: what was verified before stays verified. *)
LEMMA RerunKeeps ==
  ASSUME HoldoutInv, RerunTournament
  PROVE  HoldoutInv'
<1>1. /\ issued < MaxCommands /\ issued' = issued + 1
      /\ UNCHANGED <<seal, inputs, evaluation, commands, ghosts>>
  BY DEF RerunTournament
<1>2. issued \in Nat /\ issued' \in 1..MaxCommands
  BY <1>1, HoldoutAssumption DEF HoldoutInv, Sealed
<1>3. Sealed'
  BY <1>1, <1>2 DEF HoldoutInv, Sealed, seal, evaluation, ghosts
<1>4. ASSUME NEW d \in Command PROVE CommandSound(d)'
  <2>1. commands[d].id \in 1..issued => commands[d].id \in 1..issued'
    BY <1>1, <1>2
  <2> QED BY <1>1, <2>1 DEF HoldoutInv, CommandSound, At, seal, ghosts
<1>5. raced \/ OneUnlock'
  BY <1>1 DEF HoldoutInv, OneUnlock, Alone, seal
<1>6. mixed \/ OneEvaluation'
  BY <1>1 DEF HoldoutInv, OneEvaluation, Alone, TablesSound, Faithful, At, seal, evaluation, ghosts
<1> QED BY <1>1, <1>3, <1>4, <1>5, <1>6 DEF HoldoutInv, ghosts

(* The inputs of the season are built only under a seal that was broken. *)
LEMMA BuildKeeps ==
  ASSUME HoldoutInv, NEW c \in Command, BuildInput(c)
  PROVE  HoldoutInv'
<1>1. CASE UNCHANGED inputs
  BY <1>1, CommandEnds DEF BuildInput
<1>2. CASE Unlockable /\ inputs' = inputs \cup {commands[c].name}
  <2>1. Ends(c) /\ commands[c].name \in DOMAIN Needs /\ UNCHANGED <<seal, evaluation, issued, ghosts>>
    BY DEF BuildInput
  <2>2. Others(c) /\ commands'[c].name = "none"
    BY <2>1, EndsShape DEF HoldoutInv
  <2>3. unlocked # Absent
    <3>1. unlocked \in records /\ records \subseteq 1..MaxCommands
      BY <1>2 DEF Unlockable, HoldoutInv, Sealed
    <3>2. \A n \in 1..MaxCommands : n \in Nat
      BY HoldoutAssumption
    <3> QED BY <3>1, <3>2, HoldoutAssumption
  <2>4. Sealed'
    BY <1>2, <2>1, <2>3 DEF HoldoutInv, Sealed, seal, evaluation, ghosts
  <2>5. \A d \in Command : CommandSound(d)'
    BY <2>1, <2>2 DEF HoldoutInv, CommandSound, At, Others, seal, ghosts
  <2>6. raced \/ OneUnlock'
    BY <2>1, <2>2 DEF HoldoutInv, OneUnlock, Alone, Others, seal
  <2>7. mixed \/ OneEvaluation'
    BY <2>1, <2>2
         DEF HoldoutInv, OneEvaluation, Alone, TablesSound, Faithful, At, Others, seal, evaluation, ghosts
  <2> QED BY <2>1, <2>2, <2>4, <2>5, <2>6, <2>7 DEF HoldoutInv, Others, ghosts
<1> QED BY <1>1, <1>2 DEF BuildInput

(* A command that goes on without writing a file.                                 *)
LEMMA CommandGoes ==
  ASSUME HoldoutInv, NEW c \in Command, Others(c),
         UNCHANGED <<seal, inputs, evaluation, issued, ghosts>>,
         commands'[c].name = commands[c].name, commands[c].name \in {"evaluate", "validate"},
         CommandSound(c)', mixed \/ TablesSound(c)'
  PROVE  HoldoutInv'
<1>1. Sealed'
  BY DEF HoldoutInv, Sealed, seal, evaluation, ghosts
<1>2. \A d \in Command : CommandSound(d)'
  BY DEF HoldoutInv, CommandSound, At, Others, seal, ghosts
<1>3. raced \/ OneUnlock'
  BY DEF HoldoutInv, OneUnlock, Alone, Others, seal
<1>4. mixed \/ OneEvaluation'
  BY
         DEF HoldoutInv, OneEvaluation, Alone, TablesSound, Faithful, At, Others, seal, evaluation, ghosts
<1> QED BY <1>1, <1>2, <1>3, <1>4 DEF HoldoutInv, Others, ghosts

(* An evaluation reads the pointer before it computes anything. *)
LEMMA LoadKeeps ==
  ASSUME HoldoutInv, NEW c \in Command, LoadUnlock(c) \/ Compute(c)
  PROVE  HoldoutInv'
<1>1. CASE LoadUnlock(c)
  <2>1. CASE Unlockable
    <3>1. PICK k : k = [commands[c] EXCEPT !.at = "verify", !.unlock = unlocked]
      OBVIOUS
    <3>2. /\ k.name = commands[c].name /\ k.at = "verify" /\ k.unlock = unlocked
          /\ k.id = commands[c].id /\ k.of = commands[c].of
      BY <3>1
    <3>3. /\ commands' = [commands EXCEPT ![c] = k] /\ At(c, "evaluate", "start")
          /\ UNCHANGED <<seal, inputs, evaluation, issued, ghosts>>
      BY <1>1, <2>1, <3>1 DEF LoadUnlock
    <3>4. Others(c) /\ commands'[c] = k
      BY <3>3 DEF HoldoutInv, Others
    <3>5. unlocked \in records /\ unlocked # Absent
      BY <2>1, HoldoutAssumption DEF Unlockable, HoldoutInv, Sealed
    <3>6. CommandSound(c)'
      BY <3>2, <3>3, <3>4, <3>5 DEF HoldoutInv, CommandSound, At, seal
    <3>7. TablesSound(c)'
      BY <3>2, <3>3, <3>4 DEF TablesSound, At
    <3> QED BY <3>2, <3>3, <3>4, <3>6, <3>7, CommandGoes DEF At
  <2>2. CASE ~Unlockable
    BY <1>1, <2>2, CommandEnds DEF LoadUnlock
  <2> QED BY <2>1, <2>2
<1>2. CASE Compute(c)
  <2>1. CASE Goes(c, "points")
    <3>1. At(c, "evaluate", "verify") /\ UNCHANGED <<seal, inputs, evaluation, issued, ghosts>>
      BY <1>2 DEF Compute
    <3>2. /\ Others(c) /\ commands'[c].at = "points" /\ commands'[c].name = "evaluate"
          /\ commands[c].name = "evaluate" /\ commands[c].at = "verify"
          /\ commands'[c].id = commands[c].id /\ commands'[c].of = commands[c].of
          /\ commands'[c].unlock = commands[c].unlock
      BY <2>1, <3>1, GoesShape DEF HoldoutInv, At
    <3>3. CommandSound(c)' /\ TablesSound(c)'
      BY <3>1, <3>2 DEF HoldoutInv, CommandSound, TablesSound, At, seal
    <3> QED BY <3>1, <3>2, <3>3, CommandGoes
  <2>2. CASE Ends(c)
    BY <1>2, <2>2, CommandEnds DEF Compute
  <2> QED BY <1>2, <2>1, <2>2 DEF Compute
<1> QED BY <1>1, <1>2

(* What an evaluation that is at its tables knows.                                *)
LEMMA Evaluating ==
  ASSUME HoldoutInv, NEW c \in Command, commands[c].name = "evaluate", commands[c].at # "start"
  PROVE  /\ commands[c].of \in Evaluations /\ commands[c].unlock \in records
         /\ commands[c].id \in 1..issued /\ unlocked # Absent
         /\ mixed \/ /\ TablesSound(c)
                     /\ \A d \in Command \ {c} : commands[d].name # "evaluate"
BY DEF HoldoutInv, CommandSound, OneEvaluation, Alone

(* An evaluation replaces its tables of points and of probabilities, in place. *)
LEMMA TableKeeps ==
  ASSUME HoldoutInv, NEW c \in Command, WritePoints(c) \/ WriteProbabilities(c)
  PROVE  HoldoutInv'
<1>1. ASSUME NEW here, NEW next, At(c, "evaluate", here), Goes(c, next), here # "start", next # "start",
             UNCHANGED <<seal, inputs, manifest, report, issued, ghosts>>,
             points' \in {points, commands[c].of}, probabilities' \in {probabilities, commands[c].of},
             mixed \/ TablesSound(c)'
      PROVE  HoldoutInv'
  <2>1. /\ Others(c) /\ commands'[c].at = next /\ commands'[c].name = "evaluate"
        /\ commands[c].name = "evaluate" /\ commands[c].at = here
        /\ commands'[c].id = commands[c].id /\ commands'[c].of = commands[c].of
        /\ commands'[c].unlock = commands[c].unlock
    BY <1>1, GoesShape DEF HoldoutInv, At
  <2>2. /\ commands[c].of \in Evaluations /\ unlocked # Absent
        /\ mixed \/ \A d \in Command \ {c} : commands[d].name # "evaluate"
    BY <1>1, <2>1, Evaluating
  <2>3. Sealed'
    BY <1>1, <2>2 DEF HoldoutInv, Sealed, seal, ghosts
  <2>4. \A d \in Command : CommandSound(d)'
    BY <1>1, <2>1 DEF HoldoutInv, CommandSound, At, Others, seal, ghosts
  <2>5. raced \/ OneUnlock'
    BY <1>1, <2>1 DEF HoldoutInv, OneUnlock, Alone, Others, seal
  <2>6. mixed \/ OneEvaluation'
    <3> SUFFICES ASSUME ~mixed PROVE OneEvaluation'
      OBVIOUS
    <3>1. OneEvaluation
      BY DEF HoldoutInv
    <3>2. \A d \in Command \ {c} : TablesSound(d)'
      BY <1>1, <2>1, <2>2, <3>1 DEF OneEvaluation, TablesSound, Faithful, At, Others, seal
    <3>3. Alone("evaluate")'
      BY <2>1, <3>1 DEF OneEvaluation, Alone, Others
    <3> QED BY <1>1, <3>1, <3>2, <3>3 DEF OneEvaluation, Faithful, seal, ghosts
  <2> QED BY <1>1, <2>1, <2>3, <2>4, <2>5, <2>6 DEF HoldoutInv, Others, ghosts
<1>2. CASE WritePoints(c)
  <2>1. /\ At(c, "evaluate", "points") /\ Goes(c, "probabilities") /\ points' = commands[c].of
        /\ UNCHANGED <<seal, inputs, probabilities, manifest, report, issued, ghosts>>
    BY <1>2 DEF WritePoints
  <2>2. TablesSound(c)'
    BY <2>1, GoesShape DEF HoldoutInv, TablesSound, At
  <2> QED BY <1>1, <2>1, <2>2
<1>3. CASE WriteProbabilities(c)
  <2>1. /\ At(c, "evaluate", "probabilities") /\ Goes(c, "manifest") /\ probabilities' = commands[c].of
        /\ UNCHANGED <<seal, inputs, points, manifest, report, issued, ghosts>>
    BY <1>3 DEF WriteProbabilities
  <2>2. mixed \/ points = commands[c].of
    BY <2>1, Evaluating DEF TablesSound, At
  <2>3. mixed \/ TablesSound(c)'
    BY <2>1, <2>2, GoesShape DEF HoldoutInv, TablesSound, At
  <2> QED BY <1>1, <2>1, <2>3
<1> QED BY <1>2, <1>3

(* The manifest of an evaluation is written after its tables. *)
LEMMA ManifestKeeps ==
  ASSUME HoldoutInv, NEW c \in Command, WriteEvaluationManifest(c)
  PROVE  HoldoutInv'
<1>1. PICK r : r = EvaluationOf(c)
  OBVIOUS
<1>2. /\ r.of = commands[c].of /\ r.unlock = commands[c].unlock
      /\ r.points = points /\ r.probabilities = probabilities
  BY <1>1 DEF EvaluationOf
<1>3. PICK k : k = [commands[c] EXCEPT !.at = "report", !.report = r]
  OBVIOUS
<1>4. /\ k.name = commands[c].name /\ k.at = "report" /\ k.report = r
      /\ k.id = commands[c].id /\ k.of = commands[c].of /\ k.unlock = commands[c].unlock
  BY <1>3
<1>5. /\ commands' = [commands EXCEPT ![c] = k] /\ At(c, "evaluate", "manifest")
      /\ UNCHANGED <<seal, inputs, points, probabilities, report, issued, ghosts>>
  BY <1>1, <1>3 DEF WriteEvaluationManifest
<1>6. Others(c) /\ commands'[c] = k /\ commands[c].name = "evaluate" /\ commands[c].at = "manifest"
  BY <1>5 DEF HoldoutInv, Others, At
<1>7. /\ commands[c].unlock \in records /\ unlocked # Absent
      /\ mixed \/ (points = commands[c].of /\ probabilities = commands[c].of)
  BY <1>5, <1>6, Evaluating DEF TablesSound
<1>8. Sealed'
  BY <1>5, <1>7 DEF HoldoutInv, Sealed, seal, ghosts
<1>9. \A d \in Command : CommandSound(d)'
  BY <1>4, <1>5, <1>6 DEF HoldoutInv, CommandSound, At, Others, seal, ghosts
<1>10. raced \/ OneUnlock'
  BY <1>4, <1>5, <1>6 DEF HoldoutInv, OneUnlock, Alone, Others, seal
<1>11. mixed \/ OneEvaluation'
  <2>1. mixed \/ TablesSound(c)'
    BY <1>2, <1>4, <1>5, <1>6, <1>7 DEF TablesSound, Faithful, At, seal
  <2> QED BY <1>4, <1>5, <1>6, <2>1
    DEF HoldoutInv, OneEvaluation, Alone, TablesSound, Faithful, At, Others, seal, ghosts
<1> QED BY <1>5, <1>6, <1>8, <1>9, <1>10, <1>11 DEF HoldoutInv, Others, ghosts

(* The report is written last, as the manifest was. *)
LEMMA ReportKeeps ==
  ASSUME HoldoutInv, NEW c \in Command, WriteReport(c)
  PROVE  HoldoutInv'
<1>1. /\ Ends(c) /\ At(c, "evaluate", "report") /\ report' = commands[c].report
      /\ UNCHANGED <<seal, inputs, points, probabilities, manifest, issued, ghosts>>
  BY DEF WriteReport
<1>2. Others(c) /\ commands'[c].name = "none"
      /\ commands[c].name = "evaluate" /\ commands[c].at = "report"
  BY <1>1, EndsShape DEF HoldoutInv, At
<1>3. unlocked # Absent /\ (mixed \/ Faithful(commands[c].report))
  BY <1>1, <1>2, Evaluating DEF TablesSound
<1>4. Sealed'
  BY <1>1, <1>3 DEF HoldoutInv, Sealed, seal, ghosts
<1>5. \A d \in Command : CommandSound(d)'
  BY <1>1, <1>2 DEF HoldoutInv, CommandSound, At, Others, seal, ghosts
<1>6. raced \/ OneUnlock'
  BY <1>1, <1>2 DEF HoldoutInv, OneUnlock, Alone, Others, seal
<1>7. mixed \/ OneEvaluation'
  BY <1>1, <1>2, <1>3 DEF HoldoutInv, OneEvaluation, Alone, TablesSound, Faithful, At, Others, seal, ghosts
<1> QED BY <1>1, <1>2, <1>4, <1>5, <1>6, <1>7 DEF HoldoutInv, Others, ghosts

(* A report is read for its validation. *)
LEMMA ReadKeeps ==
  ASSUME HoldoutInv, NEW c \in Command, ReadReport(c)
  PROVE  HoldoutInv'
<1>1. CASE report \in {Absent, Torn} \/ ~Unlockable \/ report.unlock # unlocked
  BY <1>1, CommandEnds DEF ReadReport
<1>2. CASE report \notin {Absent, Torn} /\ Unlockable /\ report.unlock = unlocked
  <2>1. PICK k : k = [commands[c] EXCEPT !.at = "tables", !.report = report]
    OBVIOUS
  <2>2. k.name = commands[c].name /\ k.at = "tables" /\ k.report = report /\ k.id = commands[c].id
    BY <2>1
  <2>3. /\ commands' = [commands EXCEPT ![c] = k] /\ At(c, "validate", "start")
        /\ UNCHANGED <<seal, inputs, evaluation, issued, ghosts>>
    BY <1>2, <2>1 DEF ReadReport
  <2>4. Others(c) /\ commands'[c] = k /\ commands[c].name = "validate"
    BY <2>3 DEF HoldoutInv, Others, At
  <2>5. CommandSound(c)'
    BY <2>2, <2>3, <2>4 DEF HoldoutInv, CommandSound, At
  <2>6. mixed \/ TablesSound(c)'
    BY <1>2, <2>2, <2>3, <2>4 DEF HoldoutInv, OneEvaluation, TablesSound, Faithful, At, seal
  <2> QED BY <2>2, <2>3, <2>4, <2>5, <2>6, CommandGoes
<1> QED BY <1>1, <1>2

(* A validation accepts a report, or does not. *)
LEMMA ValidateKeeps ==
  ASSUME HoldoutInv, NEW c \in Command, Validate(c)
  PROVE  HoldoutInv'
<1>1. /\ Ends(c) /\ At(c, "validate", "tables")
      /\ UNCHANGED <<seal, inputs, evaluation, issued, verified, raced, mixed>>
  BY DEF Validate
<1>2. Others(c) /\ commands'[c].name = "none"
  BY <1>1, EndsShape DEF HoldoutInv
<1>3. Sealed' /\ \A d \in Command : CommandSound(d)'
  BY <1>1, <1>2 DEF HoldoutInv, Sealed, CommandSound, At, Others, seal, evaluation
<1>4. raced \/ OneUnlock'
  BY <1>1, <1>2 DEF HoldoutInv, OneUnlock, Alone, Others, seal
<1>5. mixed \/ OneEvaluation'
  <2> SUFFICES ASSUME ~mixed PROVE OneEvaluation'
    OBVIOUS
  <2>1. OneEvaluation /\ Faithful(commands[c].report)
    BY <1>1 DEF HoldoutInv, OneEvaluation, TablesSound
  <2>2. PICK a : a = [report |-> commands[c].report, points |-> points, probabilities |-> probabilities]
    OBVIOUS
  <2>3. a.report = commands[c].report /\ a.points = points /\ a.probabilities = probabilities
    BY <2>2
  <2>4. \/ accepted' = accepted
        \/ TablesMatch(commands[c].report) /\ accepted' = accepted \cup {a}
    BY <2>2 DEF Validate
  <2>5. \A b \in accepted' : Faithful(b.report) /\ b.points = b.report.of
        /\ b.probabilities = b.report.of
    BY <2>1, <2>3, <2>4 DEF OneEvaluation, Faithful, TablesMatch
  <2> QED BY <1>1, <1>2, <2>1, <2>5
    DEF OneEvaluation, Alone, TablesSound, Faithful, At, Others, seal, evaluation
<1> QED BY <1>1, <1>2, <1>3, <1>4, <1>5 DEF HoldoutInv, Others

(* A crash in the middle of a write leaves a torn file. *)
LEMMA CrashKeeps ==
  ASSUME HoldoutInv, NEW c \in Command, CrashCommand(c)
  PROVE  HoldoutInv'
<1>1. /\ Ends(c) /\ UNCHANGED <<seal, inputs, issued, ghosts>>
      /\ \/ UNCHANGED evaluation
         \/ /\ commands[c].name = "evaluate" /\ commands[c].at # "start"
            /\ points' \in {points, Torn} /\ probabilities' \in {probabilities, Torn}
            /\ manifest' \in {manifest, Torn} /\ report' \in {report, Torn}
  BY DEF CrashCommand, At, evaluation
<1>2. Others(c) /\ commands'[c].name = "none"
  BY <1>1, EndsShape DEF HoldoutInv
<1>3. CASE UNCHANGED evaluation
  BY <1>1, <1>3, CommandEnds
<1>4. CASE /\ commands[c].name = "evaluate" /\ commands[c].at # "start"
           /\ points' \in {points, Torn} /\ probabilities' \in {probabilities, Torn}
           /\ manifest' \in {manifest, Torn} /\ report' \in {report, Torn}
  <2>1. unlocked # Absent /\ (mixed \/ \A d \in Command \ {c} : commands[d].name # "evaluate")
    BY <1>4, Evaluating
  <2>2. Sealed'
    BY <1>1, <1>4, <2>1 DEF HoldoutInv, Sealed, seal, ghosts
  <2>3. \A d \in Command : CommandSound(d)'
    BY <1>1, <1>2 DEF HoldoutInv, CommandSound, At, Others, seal, ghosts
  <2>4. raced \/ OneUnlock'
    BY <1>1, <1>2 DEF HoldoutInv, OneUnlock, Alone, Others, seal
  <2>5. mixed \/ OneEvaluation'
    BY <1>1, <1>2, <1>4, <2>1
    DEF HoldoutInv, OneEvaluation, Alone, TablesSound, Faithful, At, Others, seal, ghosts
  <2> QED BY <1>1, <1>2, <2>2, <2>3, <2>4, <2>5 DEF HoldoutInv, Others, ghosts
<1> QED BY <1>1, <1>3, <1>4

(* The invariant holds at first: nothing is unlocked and nothing is there. *)
LEMMA HoldoutInitSound == HoldoutInit => HoldoutInv
<1> SUFFICES ASSUME HoldoutInit PROVE HoldoutInv
  OBVIOUS
<1>1. DOMAIN commands = Command /\ \A c \in Command : commands[c].name = "none"
      /\ commands[c].at = "rest"
  BY DEF HoldoutInit, Resting
<1>2. Sealed
  BY HoldoutAssumption DEF HoldoutInit, Sealed
<1>3. \A c \in Command : CommandSound(c)
  BY <1>1 DEF CommandSound, At
<1>4. OneUnlock /\ OneEvaluation
  BY <1>1 DEF HoldoutInit, OneUnlock, OneEvaluation, Alone, TablesSound, At
<1> QED BY <1>1, <1>2, <1>3, <1>4 DEF HoldoutInv

(* Every step of every command keeps the invariant. *)
LEMMA HoldoutStepKeeps ==
  ASSUME HoldoutInv, [HoldoutNext]_holdoutVars
  PROVE  HoldoutInv' /\ (unlocked # Absent /\ ~raced' => unlocked' = unlocked)
<1>1. CASE RerunTournament
  BY <1>1, RerunKeeps DEF RerunTournament, seal
<1>2. ASSUME NEW c \in Command, NEW name \in {"unlock", "validate"} \cup DOMAIN Needs,
             Issue(c, name, Absent)
      PROVE  HoldoutInv' /\ unlocked' = unlocked
  <2>1. name # "none" /\ name # "evaluate"
    BY DEF Needs
  <2> QED BY <1>2, <2>1, IssueKeeps DEF Issue, seal
<1>3. ASSUME NEW c \in Command, NEW e \in Evaluations, Issue(c, "evaluate", e)
      PROVE  HoldoutInv' /\ unlocked' = unlocked
  BY <1>3, IssueKeeps DEF Issue, seal
<1>4. ASSUME NEW c \in Command, StepOf(c)
      PROVE  HoldoutInv' /\ (unlocked # Absent /\ ~raced' => unlocked' = unlocked)
  <2>1. CASE CheckSealed(c) \/ VerifyFreeze(c) \/ WriteRecord(c) \/ WriteUnlockPointer(c)
    BY <2>1, UnlockKeeps
  <2>2. CASE BuildInput(c)
    BY <2>2, BuildKeeps DEF BuildInput, seal
  <2>3. CASE LoadUnlock(c) \/ Compute(c)
    BY <2>3, LoadKeeps DEF LoadUnlock, Compute, seal
  <2>4. CASE WritePoints(c) \/ WriteProbabilities(c)
    BY <2>4, TableKeeps DEF WritePoints, WriteProbabilities, seal
  <2>5. CASE WriteEvaluationManifest(c)
    BY <2>5, ManifestKeeps DEF WriteEvaluationManifest, seal
  <2>6. CASE WriteReport(c)
    BY <2>6, ReportKeeps DEF WriteReport, seal
  <2>7. CASE ReadReport(c)
    BY <2>7, ReadKeeps DEF ReadReport, seal
  <2>8. CASE Validate(c)
    BY <2>8, ValidateKeeps DEF Validate, seal
  <2> QED BY <1>4, <2>1, <2>2, <2>3, <2>4, <2>5, <2>6, <2>7, <2>8 DEF StepOf
<1>5. ASSUME NEW c \in Command, CrashCommand(c) PROVE HoldoutInv' /\ unlocked' = unlocked
  BY <1>5, CrashKeeps DEF CrashCommand, seal
<1>6. CASE UNCHANGED holdoutVars
  <2>1. UNCHANGED <<seal, inputs, evaluation, commands, issued, ghosts>>
    BY <1>6 DEF holdoutVars
  <2>2. Sealed' /\ \A c \in Command : CommandSound(c)'
    BY <2>1 DEF HoldoutInv, Sealed, CommandSound, At, seal, evaluation, ghosts
  <2>3. raced \/ OneUnlock'
    BY <2>1 DEF HoldoutInv, OneUnlock, Alone, seal
  <2>4. mixed \/ OneEvaluation'
    BY <2>1 DEF HoldoutInv, OneEvaluation, Alone, TablesSound, Faithful, At, seal, evaluation, ghosts
  <2> QED BY <2>1, <2>2, <2>3, <2>4 DEF HoldoutInv, ghosts, seal
<1> QED BY <1>1, <1>2, <1>3, <1>4, <1>5, <1>6 DEF HoldoutNext

(* The invariant gives what the run checks. *)
LEMMA SealedIsHeld == HoldoutInv => HoldoutTypeOK /\ SealHolds /\ ValidReportStands
<1> SUFFICES ASSUME HoldoutInv PROVE HoldoutTypeOK /\ SealHolds /\ ValidReportStands
  OBVIOUS
<1>1. HoldoutTypeOK
  BY DEF HoldoutInv, Sealed, HoldoutTypeOK, CommandSound
<1>2. SealHolds
  BY DEF HoldoutInv, Sealed, SealHolds
<1>3. ValidReportStands
  BY DEF HoldoutInv, OneEvaluation, Faithful, ValidReportStands
<1> QED BY <1>1, <1>2, <1>3

(* Nothing of the sealed season is built, evaluated or reported before an unlock whose
   freeze was verified has its record in place (holdout_unlock.py), for any number of
   commands and whatever crashes. *)
THEOREM SealNeverLeaks == HoldoutSpec => SealStands
<1>1. HoldoutInv /\ [HoldoutNext]_holdoutVars => HoldoutInv'
  BY HoldoutStepKeeps
<1>2. HoldoutInv /\ [HoldoutNext]_holdoutVars =>
        [unlocked # Absent /\ ~raced' => unlocked' = unlocked]_holdoutVars
  BY HoldoutStepKeeps
<1>3. HoldoutInv => HoldoutTypeOK /\ SealHolds
  BY SealedIsHeld
<1> QED BY <1>1, <1>2, <1>3, HoldoutInitSound, PTL DEF HoldoutSpec, SealStands, UnlockedOnce

(* A report that a validation accepted describes the tables it was compared with, both of
   the one evaluation and under the record of an unlock, unless evaluations overlapped. *)
THEOREM ValidReportsStand == HoldoutSpec => []ValidReportStands
<1>1. HoldoutInv /\ [HoldoutNext]_holdoutVars => HoldoutInv'
  BY HoldoutStepKeeps
<1>2. HoldoutInv => ValidReportStands
  BY SealedIsHeld
<1> QED BY <1>1, <1>2, HoldoutInitSound, PTL DEF HoldoutSpec

-----------------------------------------------------------------------------
(* 3. The paid archive of historical odds *)

(* ------------------------------------------------------------------------------ *)
Buying == {"fetch", "artifact", "manifest", "pointer"}
Storing == {"artifact", "manifest", "pointer"}
Looking == {"usage", "preflight", "find"} \cup Buying
Underway == {"find", "account", "done"} \cup Buying

(* What a run holds: how far it is, what it has accepted, what it has listed.      *)
JobTyped(j) ==
    /\ jobs[j].pc \in {"idle", "failed"} \cup Looking \cup Underway
    /\ jobs[j].next \in 1..(Len(Plan[j]) + 1)
    /\ jobs[j].pc \in Looking => jobs[j].next \in 1..Len(Plan[j])
    /\ jobs[j].pc \in Storing => jobs[j].answer \in Answers
    /\ jobs[j].pc \in {"usage", "preflight"} => jobs[j].next = 1 /\ jobs[j].got = <<>>
    /\ jobs[j].pc \in Underway => /\ jobs[j].got \in Seq(Answers)
                                  /\ Len(jobs[j].got) = jobs[j].next - 1
    /\ jobs[j].pc \in {"account", "done"} => jobs[j].next = Len(Plan[j]) + 1
    /\ jobs[j].index \subseteq manifests
    /\ jobs[j].spent \in Nat /\ jobs[j].calls \in Nat /\ jobs[j].expected \in Nat
    /\ jobs[j].before \in Nat
    /\ jobs[j].pc # "idle" /\ Kind[j] = "audit" => audited

Held(j) ==
    /\ jobs[j].pc = "manifest" => <<Current(j), jobs[j].answer>> \in artifacts
    /\ jobs[j].pc = "pointer" => <<Current(j), jobs[j].answer>> \in manifests

(* What a run may still have to buy.                                              *)
Due(j) ==
    CASE jobs[j].pc = "fetch" -> Missing(j) \cup {Current(j)}
      [] jobs[j].pc \in Storing -> Missing(j) \ {Current(j)}
      [] OTHER -> Missing(j)

Budget(j) ==
    /\ jobs[j].spent <= jobs[j].expected
    /\ Kind[j] = "market" => jobs[j].spent <= Limit[j] /\ jobs[j].calls <= CallLimit[j]
    /\ jobs[j].pc \in {"usage", "preflight"} =>
          jobs[j].spent = 0 /\ jobs[j].calls = 0 /\ jobs[j].expected = 0
    /\ jobs[j].pc \in {"find"} \cup Buying =>
          /\ jobs[j].spent + Total(Price, Due(j)) <= jobs[j].expected
          /\ Kind[j] = "market" => /\ jobs[j].expected <= Limit[j]
                                   /\ jobs[j].calls + Cardinality(Due(j)) <= CallLimit[j]

FilesTyped ==
    /\ DOMAIN jobs = Job /\ DOMAIN pointer = Requests /\ DOMAIN bought = Requests
    /\ artifacts \subseteq Stored /\ manifests \subseteq Stored
    /\ pointer \in [Requests -> Answers \cup {Nothing}]
    /\ \A r \in Requests : pointer[r] \in Answers \cup {Nothing} /\ bought[r] \in Nat
    /\ remaining \in 0..Credits

(* While runs do not overlap: a run has listed what is there, and neither what it   *)
(* is buying nor more of the same instant is in place.                             *)
OneRun == \A j, k \in Job : Running(j) /\ Running(k) => j = k

Over(r) == {q \in Requests : q.at = r.at /\ r.markets \subseteq q.markets}

Listed(j) ==
    /\ jobs[j].pc \in Looking \ {"pointer"} => jobs[j].index = manifests
    /\ jobs[j].pc = "pointer" => manifests = jobs[j].index \cup {<<Current(j), jobs[j].answer>>}
    /\ jobs[j].pc \in Buying => \A q \in Over(Current(j)) : pointer[q] = Nothing
    /\ jobs[j].pc = "fetch" /\ Kind[j] = "market" => Supersets(Current(j), jobs[j].index) = {}

Reserved(j) ==
    /\ Running(j) /\ jobs[j].pc # "usage" => remaining = jobs[j].before - jobs[j].spent
    /\ Kind[j] = "market" /\ jobs[j].pc \in {"find", "account"} \cup Buying =>
          jobs[j].before - jobs[j].expected >= KeptBack

(* Where the answer that was paid for is.                                         *)
Kept(r) ==
    \/ pointer[r] # Nothing
    \/ r \in unlisted /\ \E a \in Answers : <<r, a>> \in manifests
    \/ \E j \in Job : jobs[j].pc \in Storing /\ Current(j) = r

Paid(r) ==
    r \in lostAnswers \/ /\ bought[r] > 1 => audited /\ r \in unlisted
                         /\ bought[r] > 0 => Kept(r)

Orderly ==
    /\ OneRun
    /\ \A j \in Job : Listed(j) /\ Reserved(j)
    /\ \A r \in Requests : Paid(r)
    /\ audited \/ remaining = Credits \/ remaining >= KeptBack

(* The answer of a request is the one its own pointer names, or that of the same    *)
(* instant with more markets.                                                     *)
Stands(r, a) ==
    \/ pointer[r] = a
    \/ pointer[r] = Nothing /\ \E q \in Over(r) : pointer[q] = a

Named(s) ==
    \/ pointer[s[1]] = s[2]
    \/ \E j \in Job : jobs[j].pc = "pointer" /\ s = <<Current(j), jobs[j].answer>>

Lossless ==
    /\ \A s \in manifests : Named(s)
    /\ \A j \in Job : Kind[j] = "market" /\ jobs[j].pc \in Underway =>
          \A i \in 1..Len(jobs[j].got) : Stands(Plan[j][i], jobs[j].got[i])

Accepted(j) ==
    Kind[j] = "market" /\ jobs[j].pc \in Underway =>
        \A i \in 1..Len(jobs[j].got) : Eligible(Plan[j][i], jobs[j].got[i])

ArchiveInv ==
    /\ FilesTyped /\ ArchiveSound
    /\ \A j \in Job : JobTyped(j) /\ Held(j) /\ Budget(j) /\ Accepted(j)
    /\ overlapped \/ Orderly
    /\ overlapped \/ lostAnswers \cup unlisted # {} \/ Lossless

------------------------------------------------------------------------------
(* The shape of plans and requests.                                               *)
LEMMA PlanShape ==
  ASSUME NEW j \in Job
  PROVE  /\ Plan[j] \in Seq(Requests) /\ Len(Plan[j]) \in Nat \ {0} /\ DOMAIN Plan[j] = 1..Len(Plan[j])
         /\ \A i \in 1..Len(Plan[j]) : Plan[j][i] \in Range(Plan[j]) /\ Plan[j][i] \in Requests
         /\ Range(Plan[j]) \subseteq Requests /\ IsFiniteSet(Range(Plan[j]))
<1>1. Plan[j] \in Seq(Range(Plan[j])) /\ Plan[j] # <<>>
  BY ArchiveAssumption
<1>2. Len(Plan[j]) \in Nat \ {0} /\ DOMAIN Plan[j] = 1..Len(Plan[j])
  BY <1>1
<1>3. Range(Plan[j]) \subseteq Requests
  BY DEF Requests
<1>4. \A i \in 1..Len(Plan[j]) : Plan[j][i] \in Range(Plan[j])
  BY <1>2 DEF Range
<1>5. IsFiniteSet(Range(Plan[j]))
  <2>1. IsFiniteSet(1..Len(Plan[j]))
    <3>1. 1 \in Int /\ Len(Plan[j]) \in Int
      BY <1>2
    <3> QED BY <3>1, FS_Interval
  <2>2. Plan[j] \in Surjection(1..Len(Plan[j]), Range(Plan[j]))
    BY <1>1, <1>2 DEF Surjection, Range
  <2> QED BY <2>1, <2>2, FS_Surjection
<1> QED BY <1>1, <1>2, <1>3, <1>4, <1>5

(* The markets a request asks for are few. *)
LEMMA MarketsFinite == IsFiniteSet(FullMarkets) /\ IsFiniteSet(CloseMarkets)
<1>1. IsFiniteSet({"spreads", "totals"})
  <2>1. IsFiniteSet({} \cup {"spreads"})
    BY FS_EmptySet, FS_AddElement
  <2>2. IsFiniteSet(({} \cup {"spreads"}) \cup {"totals"})
    BY <2>1, FS_AddElement
  <2>3. ({} \cup {"spreads"}) \cup {"totals"} = {"spreads", "totals"}
    OBVIOUS
  <2> QED BY <2>2, <2>3
<1>2. IsFiniteSet({"spreads", "totals"} \cup {"h2h"})
  BY <1>1, FS_AddElement
<1>3. {"spreads", "totals"} \cup {"h2h"} = FullMarkets
  BY DEF FullMarkets
<1> QED BY <1>1, <1>2, <1>3 DEF CloseMarkets

(* What a request is, and that it has a price. *)
LEMMA RequestShape ==
  ASSUME NEW r \in Requests
  PROVE  /\ r.at \in Int /\ r.markets \in {FullMarkets, CloseMarkets}
         /\ r = [at |-> r.at, markets |-> r.markets]
         /\ Cost(r) \in Nat /\ Price[r] = Cost(r)
<1>1. r.at \in Int /\ r.markets \in {FullMarkets, CloseMarkets}
      /\ r = [at |-> r.at, markets |-> r.markets]
  BY ArchiveAssumption
<1>3. Cost(r) \in Nat
  BY <1>1, MarketsFinite, FS_CardinalityType DEF Cost
<1> QED BY <1>1, <1>3 DEF Price

(* Of the manifests that cover a request there is one with the fewest markets.      *)
LEMMA SmallestExists ==
  ASSUME NEW S, S \subseteq Stored, S # {}
  PROVE  Smallest(S) # {}
<1>1. \A s \in S : s[1] \in Requests /\ Cost(s[1]) = Cardinality(s[1].markets)
                   /\ s[1].markets \in {FullMarkets, CloseMarkets}
  BY RequestShape DEF Stored, Cost
<1>2. Cardinality(CloseMarkets) <= Cardinality(FullMarkets)
  BY MarketsFinite, FS_Subset DEF FullMarkets, CloseMarkets
<1>3. Cardinality(CloseMarkets) \in Nat /\ Cardinality(FullMarkets) \in Nat
  BY MarketsFinite, FS_CardinalityType
<1>4. CASE \E s \in S : s[1].markets = CloseMarkets
  BY <1>1, <1>2, <1>3, <1>4 DEF Smallest
<1>5. CASE \A s \in S : s[1].markets = FullMarkets
  BY <1>1, <1>3, <1>5 DEF Smallest
<1> QED BY <1>1, <1>4, <1>5

(* What a run does not find.                                                      *)
Lacks(r, index, kind) == pointer[r] = Nothing /\ (kind = "audit" \/ Supersets(r, index) = {})

(* A lookup finds nothing exactly when no pointer and no superset is there: this is
   where the artifact of every listed manifest is needed. *)
LEMMA NotCached ==
  ASSUME ArchiveSound, NEW r \in Requests, NEW index \in SUBSET Stored, NEW kind
  PROVE  Cached(r, index, kind) = {} <=> Lacks(r, index, kind)
<1>1. Exact(r) = {} <=> pointer[r] = Nothing
  BY DEF Exact, ArchiveSound
<1>2. Supersets(r, index) \subseteq Stored
  BY DEF Supersets
<1>3. Smallest(Supersets(r, index)) = {} <=> Supersets(r, index) = {}
  BY <1>2, SmallestExists DEF Smallest
<1> QED BY <1>1, <1>3 DEF Cached, Lacks

(* What a plan still misses, by its files. *)
LEMMA MissingIs ==
  ASSUME ArchiveSound, NEW j \in Job, jobs[j].index \in SUBSET Stored
  PROVE  Missing(j) = {r \in Range(Plan[j]) : Lacks(r, jobs[j].index, Kind[j])}
<1>1. \A r \in Range(Plan[j]) : Cached(r, jobs[j].index, Kind[j]) = {} <=> Lacks(r, jobs[j].index, Kind[j])
  BY PlanShape, NotCached
<1> QED BY <1>1 DEF Missing

(* Files are added and never removed.                                             *)
FilesGrow ==
    /\ artifacts \subseteq artifacts' /\ manifests \subseteq manifests'
    /\ \A r \in Requests : pointer[r] # Nothing => pointer'[r] # Nothing

(* Files that are added never make a request missing again. *)
LEMMA MissingShrinks ==
  ASSUME ArchiveSound, ArchiveSound', FilesGrow, NEW j \in Job, manifests' \subseteq Stored,
         jobs[j].index \subseteq manifests, jobs'[j].index \subseteq manifests',
         jobs[j].index \subseteq jobs'[j].index
  PROVE  Missing(j)' \subseteq Missing(j)
<1>1. jobs[j].index \in SUBSET Stored /\ jobs'[j].index \in SUBSET Stored
  BY DEF FilesGrow
<1>2. Missing(j) = {r \in Range(Plan[j]) : Lacks(r, jobs[j].index, Kind[j])}
  BY <1>1, MissingIs
<1>3. \A r \in Range(Plan[j]) : (Cached(r, jobs[j].index, Kind[j]))' = {} => Lacks(r, jobs[j].index, Kind[j])'
  <2> SUFFICES ASSUME NEW r \in Range(Plan[j]), Cached(r, jobs[j].index, Kind[j])' = {}
               PROVE  Lacks(r, jobs[j].index, Kind[j])'
    OBVIOUS
  <2>0. r \in Requests
    BY PlanShape
  <2>1. Exact(r)' = {} => pointer'[r] = Nothing
    BY <2>0 DEF Exact, ArchiveSound
  <2>2. CASE Kind[j] = "audit"
    BY <2>1, <2>2 DEF Cached, Lacks
  <2>3. CASE Kind[j] # "audit"
    <3>1. Exact(r)' = {}
      BY <2>3 DEF Cached
    <3>2. Smallest(Supersets(r, jobs'[j].index)) = {}
      BY <2>3, <3>1 DEF Cached, Supersets, Smallest, Cost
    <3>3. Supersets(r, jobs'[j].index) \subseteq Stored
      BY <1>1 DEF Supersets
    <3>4. Supersets(r, jobs'[j].index) = {}
      BY <3>2, <3>3, SmallestExists
    <3> QED BY <2>1, <3>1, <3>4 DEF Lacks, Supersets
  <2> QED BY <2>2, <2>3
<1>4. \A r \in Range(Plan[j]) : Lacks(r, jobs[j].index, Kind[j])' => Lacks(r, jobs[j].index, Kind[j])
  BY PlanShape DEF Lacks, FilesGrow, Supersets
<1>5. \A r \in Missing(j)' : r \in Range(Plan[j]) /\ Cached(r, jobs[j].index, Kind[j])' = {}
  BY DEF Missing
<1> QED BY <1>2, <1>3, <1>4, <1>5

(* What may have to be bought is finite, and has a price.                          *)
LEMMA DueShape ==
  ASSUME NEW j \in Job, FilesTyped, JobTyped(j)
  PROVE  /\ Missing(j) \subseteq Range(Plan[j]) /\ Due(j) \subseteq Range(Plan[j])
         /\ IsFiniteSet(Missing(j)) /\ IsFiniteSet(Due(j))
         /\ \A r \in Range(Plan[j]) : Price[r] \in Nat
         /\ Total(Price, Due(j)) \in Nat /\ Cardinality(Due(j)) \in Nat
         /\ Total(Price, Missing(j)) \in Nat /\ Cardinality(Missing(j)) \in Nat
<1>1. Missing(j) \subseteq Range(Plan[j])
  BY DEF Missing
<1>2. jobs[j].pc \in Buying => Current(j) \in Range(Plan[j])
  BY PlanShape DEF JobTyped, Current, Looking
<1>3. Due(j) \subseteq Range(Plan[j])
  BY <1>1, <1>2 DEF Due, Buying
<1>4. IsFiniteSet(Missing(j)) /\ IsFiniteSet(Due(j))
  BY <1>1, <1>3, PlanShape, FS_Subset
<1>5. \A r \in Range(Plan[j]) : Price[r] \in Nat
  BY PlanShape, RequestShape
<1>6. Total(Price, Due(j)) \in Nat /\ Total(Price, Missing(j)) \in Nat
  BY <1>1, <1>3, <1>4, <1>5, TotalNat
<1>7. Cardinality(Due(j)) \in Nat /\ Cardinality(Missing(j)) \in Nat
  BY <1>4, FS_CardinalityType
<1> QED BY <1>1, <1>3, <1>4, <1>5, <1>6, <1>7

(* A run that has less to buy than before, and has spent what it had, keeps within  *)
(* its budget.                                                                    *)
LEMMA BudgetKeeps ==
  ASSUME NEW j \in Job, Budget(j), FilesTyped, JobTyped(j), JobTyped(j)',
         jobs'[j].spent = jobs[j].spent, jobs'[j].calls = jobs[j].calls,
         jobs'[j].expected = jobs[j].expected,
         jobs'[j].pc = jobs[j].pc \/ jobs'[j].pc \notin {"usage", "preflight"},
         jobs'[j].pc \in {"find"} \cup Buying =>
            jobs[j].pc \in {"find"} \cup Buying /\ Due(j)' \subseteq Due(j)
  PROVE  Budget(j)'
<1>1. CASE jobs'[j].pc \in {"find"} \cup Buying
  <2>1. PICK due, due1 : due = Due(j) /\ due1 = Due(j)'
    OBVIOUS
  <2>2. /\ due1 \subseteq due /\ IsFiniteSet(due) /\ \A r \in due : Price[r] \in Nat
        /\ Total(Price, due) \in Nat /\ Cardinality(due) \in Nat
    BY <1>1, <2>1, DueShape
  <2>3. IsFiniteSet(due1) /\ Cardinality(due1) <= Cardinality(due)
    BY <2>2, FS_Subset
  <2>4. Total(Price, due1) <= Total(Price, due) /\ Total(Price, due1) \in Nat /\ Cardinality(due1) \in Nat
    BY <2>2, <2>3, TotalMonotone, TotalNat, FS_CardinalityType
  <2>5. /\ jobs[j].spent + Total(Price, due) <= jobs[j].expected
        /\ Kind[j] = "market" => /\ jobs[j].expected <= Limit[j]
                               /\ jobs[j].calls + Cardinality(due) <= CallLimit[j]
    BY <1>1, <2>1 DEF Budget
  <2>6. /\ jobs[j].spent \in Nat /\ jobs[j].calls \in Nat /\ jobs[j].expected \in Nat
        /\ Limit[j] \in Nat /\ CallLimit[j] \in Nat
    BY ArchiveAssumption DEF JobTyped
  <2>7. /\ jobs[j].spent + Total(Price, due1) <= jobs[j].expected
        /\ Kind[j] = "market" => jobs[j].calls + Cardinality(due1) <= CallLimit[j]
    BY <2>2, <2>3, <2>4, <2>5, <2>6
  <2>8. Total(Price, Due(j))' = Total(Price, due1)
    BY <2>1
  <2> QED BY <1>1, <2>1, <2>5, <2>7, <2>8 DEF Budget, Buying
<1>2. CASE jobs'[j].pc \notin {"find"} \cup Buying
  BY <1>2 DEF Budget
<1> QED BY <1>1, <1>2

(* Runs that do not move are not disturbed by files that are added.                *)
LEMMA OthersKeep ==
  ASSUME ArchiveInv, FilesTyped', ArchiveSound', FilesGrow, audited => audited',
         NEW d \in Job, jobs'[d] = jobs[d]
  PROVE  JobTyped(d)' /\ Held(d)' /\ Budget(d)' /\ Accepted(d)'
<1>1. JobTyped(d) /\ Held(d) /\ Budget(d) /\ Accepted(d) /\ FilesTyped /\ ArchiveSound
  BY DEF ArchiveInv
<1>2. Current(d)' = Current(d)
  BY DEF Current
<1>3. JobTyped(d)'
  BY <1>1 DEF JobTyped, FilesGrow
<1>4. Held(d)'
  BY <1>1, <1>2 DEF Held, FilesGrow
<1>5. Missing(d)' \subseteq Missing(d)
  <2>1. manifests' \subseteq Stored /\ jobs[d].index \subseteq manifests
        /\ jobs'[d].index \subseteq manifests'
    BY <1>1, <1>3 DEF FilesTyped, JobTyped
  <2> QED BY <1>1, <2>1, MissingShrinks
<1>6. Due(d)' \subseteq Due(d)
  BY <1>2, <1>5 DEF Due
<1>7. Budget(d)'
  <2>1. jobs'[d].pc \in {"find"} \cup Buying =>
            jobs[d].pc \in {"find"} \cup Buying /\ Due(d)' \subseteq Due(d)
    BY <1>6
  <2> QED BY <1>1, <1>3, <2>1, BudgetKeeps
<1>8. Accepted(d)'
  BY <1>1 DEF Accepted
<1> QED BY <1>3, <1>4, <1>7, <1>8

(* A step of one run: the others and their budgets stand.                          *)
OnlyMoves(j) == DOMAIN jobs' = Job /\ \A d \in Job \ {j} : jobs'[d] = jobs[d]

(* When one run takes a step that keeps its own part, all parts are kept. *)
LEMMA OneJobMoves ==
  ASSUME ArchiveInv, FilesTyped', ArchiveSound', FilesGrow, audited => audited',
         NEW j \in Job, OnlyMoves(j),
         JobTyped(j)', Held(j)', Budget(j)', Accepted(j)',
         overlapped' \/ Orderly',
         overlapped' \/ lostAnswers' \cup unlisted' # {} \/ Lossless'
  PROVE  ArchiveInv'
<1>1. \A d \in Job \ {j} : JobTyped(d)' /\ Held(d)' /\ Budget(d)' /\ Accepted(d)'
  BY OthersKeep DEF OnlyMoves
<1> QED BY <1>1 DEF ArchiveInv

(* A run that moves while runs do not overlap is the only one under way.            *)
LEMMA OrderlyMoves ==
  ASSUME Orderly, NEW j \in Job, Running(j), OnlyMoves(j), Listed(j)', Reserved(j)',
         \A r \in Requests : Paid(r)',
         audited' \/ remaining' = Credits \/ remaining' >= KeptBack
  PROVE  Orderly'
<1>1. \A d \in Job \ {j} : ~Running(d)
  BY DEF Orderly, OneRun
<1>2. \A d \in Job \ {j} : ~Running(d)' /\ jobs'[d].pc \in {"idle", "done", "failed"}
  BY <1>1 DEF OnlyMoves, Running
<1>3. OneRun'
  BY <1>2 DEF OneRun
<1>4. \A d \in Job \ {j} : Listed(d)' /\ Reserved(d)'
  BY <1>2 DEF Listed, Reserved, Looking, Buying
<1> QED BY <1>3, <1>4 DEF Orderly

(* Steps that leave the files alone.                                              *)
LEMMA FilesSame ==
  ASSUME ArchiveInv, NEW j \in Job, OnlyMoves(j), UNCHANGED archive,
         DOMAIN bought' = Requests, \A r \in Requests : bought'[r] \in Nat, remaining' \in 0..Credits
  PROVE  FilesTyped' /\ ArchiveSound' /\ FilesGrow
<1>1. artifacts' = artifacts /\ manifests' = manifests /\ pointer' = pointer
  BY DEF archive
<1>2. FilesGrow
  BY <1>1 DEF FilesGrow
<1> QED BY <1>1, <1>2 DEF ArchiveInv, FilesTyped, ArchiveSound, OnlyMoves

(* Without a new file nothing changes for a lookup. *)
LEMMA MissingSame ==
  ASSUME NEW j \in Job, UNCHANGED archive, jobs'[j].index = jobs[j].index
  PROVE  Missing(j)' = Missing(j)
BY DEF archive, Missing, Cached, Exact, Supersets, Smallest, Cost

(* A run that ends early, by itself or by a crash.                                 *)
LEMMA FailKeeps ==
  ASSUME ArchiveInv, NEW j \in Job, Running(j), jobs' = Failed(j),
         UNCHANGED <<archive, remaining, bought, overlapped, audited>>,
         lostAnswers \subseteq lostAnswers', unlisted \subseteq unlisted',
         jobs[j].pc \in {"artifact", "manifest"} => Current(j) \in lostAnswers',
         jobs[j].pc = "pointer" => Current(j) \in unlisted'
  PROVE  ArchiveInv'
<1>1. PICK k : k = [Idle EXCEPT !.pc = "failed", !.spent = jobs[j].spent,
                                !.expected = jobs[j].expected, !.calls = jobs[j].calls]
  OBVIOUS
<1>2. /\ k.pc = "failed" /\ k.spent = jobs[j].spent /\ k.expected = jobs[j].expected
      /\ k.calls = jobs[j].calls /\ k.next = 1 /\ k.index = {} /\ k.before = 0
  BY <1>1 DEF Idle
<1>3. JobTyped(j) /\ Budget(j) /\ FilesTyped /\ Held(j)
  BY DEF ArchiveInv
<1>4. OnlyMoves(j) /\ jobs'[j] = k
  BY <1>1, <1>3 DEF Failed, OnlyMoves, FilesTyped
<1>5. FilesTyped' /\ ArchiveSound' /\ FilesGrow
  BY <1>3, <1>4, FilesSame DEF FilesTyped
<1>6. JobTyped(j)'
  BY <1>2, <1>3, <1>4, PlanShape DEF JobTyped, Looking, Storing, Underway, Buying, Running
<1>7. Held(j)' /\ Accepted(j)'
  BY <1>2, <1>4 DEF Held, Accepted, Underway, Buying
<1>8. Budget(j)'
  BY <1>2, <1>3, <1>4 DEF Budget, Buying
<1>9. overlapped' \/ Orderly'
  <2> SUFFICES ASSUME ~overlapped PROVE Orderly'
    OBVIOUS
  <2>1. Orderly
    BY DEF ArchiveInv
  <2>2. Listed(j)' /\ Reserved(j)'
    BY <1>2, <1>4 DEF Listed, Reserved, Looking, Buying, Running
  <2>3. ASSUME NEW r \in Requests PROVE Paid(r)'
    <3>1. Paid(r)
      BY <2>1 DEF Orderly
    <3>2. CASE r \in lostAnswers' \/ bought[r] = 0
      BY <3>2 DEF Paid
    <3>3. CASE r \notin lostAnswers' /\ bought[r] # 0
      <4>1. r \notin lostAnswers /\ Kept(r) /\ (bought[r] > 1 => audited /\ r \in unlisted)
        BY <1>3, <3>1, <3>3 DEF Paid, FilesTyped
      <4>2. Kept(r)'
        <5>1. CASE pointer[r] # Nothing \/ (r \in unlisted /\ \E a \in Answers : <<r, a>> \in manifests)
          BY <5>1 DEF Kept, archive
        <5>2. ASSUME NEW d \in Job, jobs[d].pc \in Storing, Current(d) = r PROVE Kept(r)'
          <6>1. CASE d = j
            <7>1. jobs[j].pc = "pointer" /\ r \in unlisted'
              BY <3>3, <5>2, <6>1 DEF Storing
            <7>2. <<r, jobs[j].answer>> \in manifests /\ jobs[j].answer \in Answers
              BY <1>3, <5>2, <6>1, <7>1 DEF Held, JobTyped
            <7> QED BY <7>1, <7>2 DEF Kept, archive
          <6>2. CASE d # j
            <7>1. jobs'[d] = jobs[d]
              BY <1>4, <6>2 DEF OnlyMoves
            <7>2. jobs'[d].pc \in Storing /\ Current(d)' = r
              BY <5>2, <7>1 DEF Current
            <7>3. \E e \in Job : jobs'[e].pc \in Storing /\ Current(e)' = r
              BY <5>2, <7>2
            <7> QED BY <7>3 DEF Kept, Current
          <6> QED BY <6>1, <6>2
        <5>3. \/ pointer[r] # Nothing \/ (r \in unlisted /\ \E a \in Answers : <<r, a>> \in manifests)
              \/ \E d \in Job : jobs[d].pc \in Storing /\ Current(d) = r
          BY <4>1 DEF Kept
        <5> QED BY <5>1, <5>2, <5>3
      <4> QED BY <4>1, <4>2 DEF Paid
    <3> QED BY <3>2, <3>3
  <2> QED BY <1>4, <2>1, <2>2, <2>3, OrderlyMoves DEF Orderly
<1>10. overlapped' \/ lostAnswers' \cup unlisted' # {} \/ Lossless'
  <2> SUFFICES ASSUME ~overlapped, lostAnswers' = {}, unlisted' = {} PROVE Lossless'
    OBVIOUS
  <2>1. Lossless /\ jobs[j].pc \notin Storing
    BY DEF ArchiveInv, Storing
  <2>2. \A s \in manifests : Named(s)'
    BY <1>4, <2>1 DEF Lossless, Named, OnlyMoves, Storing, archive, Current
  <2>3. \A r, a : Stands(r, a) => Stands(r, a)'
    BY DEF Stands, archive
  <2> QED BY <1>2, <1>4, <2>1, <2>2, <2>3 DEF Lossless, OnlyMoves, Underway, Buying, archive
<1> QED BY <1>4, <1>5, <1>6, <1>7, <1>8, <1>9, <1>10, OneJobMoves

(* A run that goes on and leaves the files alone, and has bought nothing.          *)
LEMMA QuietKeeps ==
  ASSUME ArchiveInv, NEW j \in Job, Running(j), OnlyMoves(j),
         UNCHANGED <<archive, remaining, bought, overlapped, audited, lostAnswers, unlisted>>,
         jobs[j].pc \notin Storing, jobs'[j].pc \notin Storing,
         JobTyped(j)', Budget(j)', Accepted(j)',
         overlapped \/ (Listed(j)' /\ Reserved(j)'),
         overlapped \/ lostAnswers \cup unlisted # {} \/
            (Kind[j] = "market" /\ jobs'[j].pc \in Underway =>
                \A i \in 1..Len(jobs'[j].got) : Stands(Plan[j][i], jobs'[j].got[i]))
  PROVE  ArchiveInv'
<1>1. FilesTyped' /\ ArchiveSound' /\ FilesGrow
  <2>1. FilesTyped
    BY DEF ArchiveInv
  <2> QED BY <2>1, FilesSame DEF FilesTyped
<1>2. Held(j)'
  BY DEF Held, Storing
<1>3. overlapped' \/ Orderly'
  <2> SUFFICES ASSUME ~overlapped PROVE Orderly'
    OBVIOUS
  <2>1. Orderly
    BY DEF ArchiveInv
  <2>2. \A r \in Requests : Kept(r) => Kept(r)'
    BY DEF Kept, OnlyMoves, archive, Current
  <2>3. \A r \in Requests : Paid(r)'
    BY <2>1, <2>2 DEF Orderly, Paid
  <2> QED BY <2>1, <2>3, OrderlyMoves DEF Orderly
<1>4. overlapped' \/ lostAnswers' \cup unlisted' # {} \/ Lossless'
  <2> SUFFICES ASSUME ~overlapped, lostAnswers \cup unlisted = {} PROVE Lossless'
    OBVIOUS
  <2>1. Lossless
    BY DEF ArchiveInv
  <2>2. \A s \in manifests : Named(s)'
    BY <2>1 DEF Lossless, Named, OnlyMoves, Storing, archive, Current
  <2>3. \A r, a : Stands(r, a) <=> Stands(r, a)'
    BY DEF Stands, archive
  <2> QED BY <2>1, <2>2, <2>3 DEF Lossless, OnlyMoves, archive
<1> QED BY <1>1, <1>2, <1>3, <1>4, OneJobMoves

------------------------------------------------------------------------------
(* A run that has accepted nothing. *)
LEMMA NothingYet == <<>> \in Seq(Answers) /\ Len(<<>>) = 0
OBVIOUS

(* Each action.                                                                   *)
LEMMA StartKeeps ==
  ASSUME ArchiveInv, NEW j \in Job, Start(j)
  PROVE  ArchiveInv'
<1>1. PICK k : k = [Idle EXCEPT !.pc = "usage", !.index = manifests]
  OBVIOUS
<1>2. /\ k.pc = "usage" /\ k.index = manifests /\ k.next = 1 /\ k.got = <<>> /\ k.spent = 0
      /\ k.calls = 0 /\ k.expected = 0 /\ k.before = 0
  BY <1>1 DEF Idle
<1>3. /\ ~Running(j) /\ jobs' = [jobs EXCEPT ![j] = k]
      /\ overlapped' = (overlapped \/ \E d \in Job \ {j} : Running(d))
      /\ audited' = (audited \/ Kind[j] = "audit")
      /\ UNCHANGED <<archive, remaining, bought, losses, lostAnswers, unlisted>>
  BY <1>1 DEF Start
<1>4. OnlyMoves(j) /\ jobs'[j] = k
  BY <1>3 DEF ArchiveInv, FilesTyped, OnlyMoves
<1>5. FilesTyped' /\ ArchiveSound' /\ FilesGrow
  <2>1. FilesTyped
    BY DEF ArchiveInv
  <2> QED BY <1>3, <1>4, <2>1, FilesSame DEF FilesTyped
<1>6. manifests' = manifests /\ pointer' = pointer
  BY <1>3 DEF archive
<1>7. JobTyped(j)'
  <2>1. jobs'[j].pc \in Looking /\ jobs'[j].pc \notin Storing \cup Underway
    BY <1>2, <1>4 DEF Looking, Storing, Underway, Buying
  <2>2. 1 \in 1..Len(Plan[j]) /\ 1 \in 1..(Len(Plan[j]) + 1)
    BY PlanShape
  <2>3. Kind[j] = "audit" => audited'
    BY <1>3
  <2> QED BY <1>2, <1>4, <1>6, <2>1, <2>2, <2>3 DEF JobTyped
<1>8. Held(j)' /\ Accepted(j)'
  BY <1>2, <1>4 DEF Held, Accepted, Underway, Buying
<1>9. Budget(j)'
  BY <1>2, <1>4, ArchiveAssumption DEF Budget, Buying
<1>10. overlapped' \/ Orderly'
  <2> SUFFICES ASSUME ~overlapped' PROVE Orderly'
    OBVIOUS
  <2>1. Orderly /\ \A d \in Job : ~Running(d)
    BY <1>3 DEF ArchiveInv
  <2>2. \A d \in Job \ {j} : ~Running(d)' /\ jobs'[d].pc \in {"idle", "done", "failed"}
    BY <1>4, <2>1 DEF OnlyMoves, Running
  <2>3. Listed(j)' /\ Reserved(j)'
    BY <1>2, <1>4, <1>6 DEF Listed, Reserved, Looking, Buying
  <2>4. \A d \in Job \ {j} : Listed(d)' /\ Reserved(d)'
    BY <2>2 DEF Listed, Reserved, Looking, Buying
  <2>5. ASSUME NEW r \in Requests PROVE Paid(r)'
    <3>1. ~ \E d \in Job : jobs[d].pc \in Storing
      BY <2>1 DEF Running, Storing
    <3>2. Paid(r)
      BY <2>1 DEF Orderly
    <3> QED BY <1>3, <1>6, <3>1, <3>2 DEF Paid, Kept
  <2>6. audited' \/ remaining' = Credits \/ remaining' >= KeptBack
    BY <1>3, <2>1 DEF Orderly
  <2> QED BY <2>2, <2>3, <2>4, <2>5, <2>6 DEF Orderly, OneRun
<1>11. overlapped' \/ lostAnswers' \cup unlisted' # {} \/ Lossless'
  <2> SUFFICES ASSUME ~overlapped', lostAnswers = {}, unlisted = {} PROVE Lossless'
    BY <1>3
  <2>1. Lossless /\ \A d \in Job : ~Running(d)
    BY <1>3 DEF ArchiveInv
  <2>2. \A s \in manifests : pointer[s[1]] = s[2]
    BY <2>1 DEF Lossless, Named, Running
  <2>3. \A r, a : Stands(r, a) <=> Stands(r, a)'
    BY <1>6 DEF Stands
  <2> QED BY <1>2, <1>4, <1>6, <2>1, <2>2, <2>3 DEF Lossless, Named, OnlyMoves, Underway, Buying
<1>12. audited => audited'
  BY <1>3
<1> QED BY <1>4, <1>5, <1>7, <1>8, <1>9, <1>10, <1>11, <1>12, OneJobMoves

(* The balance at the start of a run. *)
LEMMA UsageKeeps ==
  ASSUME ArchiveInv, NEW j \in Job, Usage(j)
  PROVE  ArchiveInv'
<1>1. /\ jobs[j].pc = "usage" /\ Running(j)
      /\ UNCHANGED <<archive, remaining, bought, overlapped, audited, lostAnswers, unlisted>>
  BY DEF Usage, Running, history
<1>2. CASE jobs' = Failed(j)
  BY <1>1, <1>2, FailKeeps
<1>3. CASE jobs' = [jobs EXCEPT ![j].pc = "preflight", ![j].before = remaining]
  <2>1. PICK k : k = [jobs[j] EXCEPT !.pc = "preflight", !.before = remaining]
    OBVIOUS
  <2>2. /\ k.pc = "preflight" /\ k.before = remaining /\ k.next = jobs[j].next /\ k.got = jobs[j].got
        /\ k.index = jobs[j].index /\ k.spent = jobs[j].spent /\ k.calls = jobs[j].calls
        /\ k.expected = jobs[j].expected
    BY <2>1
  <2>3. OnlyMoves(j) /\ jobs'[j] = k
    BY <1>3, <2>1 DEF ArchiveInv, FilesTyped, OnlyMoves
  <2>4. JobTyped(j) /\ Budget(j) /\ remaining \in Nat
    BY DEF ArchiveInv, FilesTyped
  <2>5. JobTyped(j)'
    BY <1>1, <2>2, <2>3, <2>4 DEF JobTyped, Looking, Storing, Underway, Buying, archive
  <2>6. Budget(j)' /\ Accepted(j)'
    BY <1>1, <2>2, <2>3, <2>4 DEF Budget, Accepted, Underway, Buying
  <2>7. overlapped \/ (Listed(j)' /\ Reserved(j)')
    BY <1>1, <2>2, <2>3, <2>4 DEF ArchiveInv, Orderly, Listed, Reserved, Budget, Looking, Buying, archive
  <2>8. jobs[j].pc \notin Storing /\ jobs'[j].pc \notin Storing /\ jobs'[j].pc \notin Underway
    BY <1>1, <2>2, <2>3 DEF Storing, Underway, Buying
  <2> QED BY <1>1, <2>3, <2>5, <2>6, <2>7, <2>8, QuietKeeps
<1> QED BY <1>2, <1>3 DEF Usage

(* The preflight: what is missing is counted, and is within what was authorised. *)
LEMMA PreflightKeeps ==
  ASSUME ArchiveInv, NEW j \in Job, Preflight(j)
  PROVE  ArchiveInv'
<1>1. PICK expected : expected = Total(Price, Missing(j))
  OBVIOUS
<1>2. /\ jobs[j].pc = "preflight" /\ Running(j)
      /\ UNCHANGED <<archive, remaining, bought, overlapped, audited, lostAnswers, unlisted>>
      /\ jobs' = IF Authorized(j, expected)
                 THEN [jobs EXCEPT ![j].pc = "find", ![j].expected = expected] ELSE Failed(j)
  BY <1>1 DEF Preflight, Running, history
<1>3. CASE ~Authorized(j, expected)
  BY <1>2, <1>3, FailKeeps
<1>4. CASE Authorized(j, expected)
  <2>1. PICK k : k = [jobs[j] EXCEPT !.pc = "find", !.expected = expected]
    OBVIOUS
  <2>2. /\ k.pc = "find" /\ k.before = jobs[j].before /\ k.next = jobs[j].next /\ k.got = jobs[j].got
        /\ k.index = jobs[j].index /\ k.spent = jobs[j].spent /\ k.calls = jobs[j].calls
        /\ k.expected = expected
    BY <2>1
  <2>3. OnlyMoves(j) /\ jobs'[j] = k
    BY <1>2, <1>4, <2>1 DEF ArchiveInv, FilesTyped, OnlyMoves
  <2>4. JobTyped(j) /\ Budget(j) /\ FilesTyped
    BY DEF ArchiveInv
  <2>5. expected \in Nat /\ Cardinality(Missing(j)) \in Nat
    BY <1>1, <2>4, DueShape
  <2>6. JobTyped(j)'
    <3>1. /\ jobs'[j].pc = "find" /\ jobs'[j].pc \in Looking /\ jobs'[j].pc \in Underway
          /\ jobs'[j].pc \notin Storing
      BY <2>2, <2>3 DEF Looking, Storing, Underway, Buying
    <3>2. jobs[j].next = 1 /\ jobs[j].got = <<>> /\ jobs[j].next \in 1..Len(Plan[j])
      BY <1>2, <2>4 DEF JobTyped, Looking
    <3>3. jobs'[j].got \in Seq(Answers) /\ Len(jobs'[j].got) = jobs'[j].next - 1
      <4>1. PICK got : got = jobs'[j].got
        OBVIOUS
      <4>2. got = <<>> /\ jobs'[j].next = 1
        BY <2>2, <2>3, <3>2, <4>1
      <4>3. got \in Seq(Answers) /\ Len(got) = 0
        BY <4>2, NothingYet
      <4> QED BY <4>1, <4>2, <4>3
    <3>4. manifests' = manifests
      BY <1>2 DEF archive
    <3> QED BY <1>2, <2>2, <2>3, <2>4, <2>5, <3>1, <3>2, <3>3, <3>4 DEF JobTyped
  <2>7. Missing(j)' = Missing(j)
    BY <1>2, <2>2, <2>3, MissingSame
  <2>8. Due(j)' = Missing(j)
    BY <2>2, <2>3, <2>7 DEF Due, Storing
  <2>9. Budget(j)'
    <3>1. jobs[j].spent = 0 /\ jobs[j].calls = 0
      BY <1>2, <2>4 DEF Budget
    <3>2. Kind[j] = "market" => expected <= Limit[j] /\ Cardinality(Missing(j)) <= CallLimit[j]
      BY <1>4 DEF Authorized
    <3>3. Total(Price, Due(j))' = expected /\ Cardinality(Due(j))' = Cardinality(Missing(j))
      BY <1>1, <2>8
    <3>4. Limit[j] \in Nat /\ CallLimit[j] \in Nat
      BY ArchiveAssumption
    <3> QED BY <2>2, <2>3, <2>5, <3>1, <3>2, <3>3, <3>4 DEF Budget, Buying
  <2>10. Accepted(j)' /\ Len(jobs'[j].got) = 0
    <3>1. PICK got : got = jobs'[j].got
      OBVIOUS
    <3>2. got = <<>>
      BY <1>2, <2>2, <2>3, <2>4, <3>1 DEF JobTyped
    <3>3. Len(got) = 0
      BY <3>2, NothingYet
    <3>4. \A i \in 1..Len(got) : FALSE
      BY <3>3
    <3> QED BY <3>1, <3>3, <3>4 DEF Accepted
  <2>11. overlapped \/ (Listed(j)' /\ Reserved(j)')
    <3> SUFFICES ASSUME ~overlapped PROVE Listed(j)' /\ Reserved(j)'
      OBVIOUS
    <3>1. Listed(j) /\ Reserved(j)
      BY DEF ArchiveInv, Orderly
    <3>2. Listed(j)'
      BY <1>2, <2>2, <2>3, <3>1 DEF Listed, Looking, Buying, archive
    <3>3. Kind[j] = "market" => jobs[j].before - expected >= KeptBack
      BY <1>4 DEF Authorized
    <3>4. Reserved(j)'
      BY <1>2, <2>2, <2>3, <3>1, <3>3 DEF Reserved, Running
    <3> QED BY <3>2, <3>4
  <2>12. jobs[j].pc \notin Storing /\ jobs'[j].pc \notin Storing
    BY <1>2, <2>2, <2>3 DEF Storing
  <2>13. \A i \in 1..Len(jobs'[j].got) : FALSE
    BY <2>10
  <2> QED BY <1>2, <2>3, <2>6, <2>9, <2>10, <2>11, <2>12, <2>13, QuietKeeps
<1> QED BY <1>3, <1>4

(* A request that the provider refuses. *)
LEMMA RefusedKeeps ==
  ASSUME ArchiveInv, NEW j \in Job, FetchRefused(j)
  PROVE  ArchiveInv'
BY FailKeeps DEF FetchRefused, Running, history

(* A crash: an answer that no manifest names is lost, one without a pointer unlisted. *)
LEMMA DiesKeeps ==
  ASSUME ArchiveInv, NEW j \in Job, ProcessDies(j)
  PROVE  ArchiveInv'
<1>1. /\ Running(j) /\ jobs' = Failed(j)
      /\ UNCHANGED <<archive, remaining, bought, overlapped, audited>>
      /\ lostAnswers \subseteq lostAnswers' /\ unlisted \subseteq unlisted'
  BY DEF ProcessDies
<1>2. jobs[j].pc \in Storing => Current(j) \in Range(Plan[j])
  BY PlanShape DEF ArchiveInv, JobTyped, Looking, Buying, Storing, Current
<1>3. /\ jobs[j].pc \in {"artifact", "manifest"} => Current(j) \in lostAnswers'
      /\ jobs[j].pc = "pointer" => Current(j) \in unlisted'
  BY <1>2 DEF ProcessDies, Storing
<1> QED BY <1>1, <1>3, FailKeeps

(* The balance at the end of a run. *)
LEMMA AccountKeeps ==
  ASSUME ArchiveInv, NEW j \in Job, AccountFor(j)
  PROVE  ArchiveInv'
<1>1. /\ jobs[j].pc = "account" /\ Running(j)
      /\ UNCHANGED <<archive, remaining, bought, overlapped, audited, lostAnswers, unlisted>>
  BY DEF AccountFor, Running, history
<1>2. CASE jobs' = Failed(j)
  BY <1>1, <1>2, FailKeeps
<1>3. CASE jobs' = [jobs EXCEPT ![j].pc = "done", ![j].index = {}]
  <2>1. PICK k : k = [jobs[j] EXCEPT !.pc = "done", !.index = {}]
    OBVIOUS
  <2>2. /\ k.pc = "done" /\ k.before = jobs[j].before /\ k.next = jobs[j].next /\ k.got = jobs[j].got
        /\ k.index = {} /\ k.spent = jobs[j].spent /\ k.calls = jobs[j].calls
        /\ k.expected = jobs[j].expected
    BY <2>1
  <2>3. OnlyMoves(j) /\ jobs'[j] = k
    BY <1>3, <2>1 DEF ArchiveInv, FilesTyped, OnlyMoves
  <2>4. JobTyped(j) /\ Budget(j) /\ Accepted(j)
    BY DEF ArchiveInv
  <2>5. JobTyped(j)'
    BY <1>1, <2>2, <2>3, <2>4 DEF JobTyped, Looking, Storing, Underway, Buying, archive
  <2>6. Budget(j)' /\ Accepted(j)'
    BY <1>1, <2>2, <2>3, <2>4 DEF Budget, Accepted, Underway, Buying
  <2>7. Listed(j)' /\ Reserved(j)'
    BY <2>2, <2>3 DEF Listed, Reserved, Looking, Buying, Running
  <2>8. jobs[j].pc \notin Storing /\ jobs'[j].pc \notin Storing
    BY <1>1, <2>2, <2>3 DEF Storing
  <2>9. overlapped \/ lostAnswers \cup unlisted # {} \/
            (Kind[j] = "market" /\ jobs'[j].pc \in Underway =>
                \A i \in 1..Len(jobs'[j].got) : Stands(Plan[j][i], jobs'[j].got[i]))
    BY <1>1, <2>2, <2>3 DEF ArchiveInv, Lossless, Underway
  <2> QED BY <1>1, <2>3, <2>5, <2>6, <2>7, <2>8, <2>9, QuietKeeps
<1> QED BY <1>2, <1>3 DEF AccountFor

(* A run that takes an answer for the request it is at.                            *)
Taken(j, a) ==
    [jobs[j] EXCEPT !.got = Append(@, a), !.next = @ + 1, !.answer = Nothing,
                    !.pc = IF jobs[j].next = Len(Plan[j]) THEN "account" ELSE "find"]

(* The fields of a run that took an answer. *)
LEMMA TakenShape ==
  ASSUME NEW j \in Job, JobTyped(j), jobs[j].pc \in {"find", "pointer"}, NEW a \in Answers
  PROVE  /\ Taken(j, a).pc = IF jobs[j].next = Len(Plan[j]) THEN "account" ELSE "find"
         /\ Taken(j, a).next = jobs[j].next + 1
         /\ Taken(j, a).got = Append(jobs[j].got, a)
         /\ Taken(j, a).index = jobs[j].index /\ Taken(j, a).before = jobs[j].before
         /\ Taken(j, a).expected = jobs[j].expected /\ Taken(j, a).spent = jobs[j].spent
         /\ Taken(j, a).calls = jobs[j].calls
BY DEF Taken

(* What a run has accepted, one answer later.                                      *)
OneMore(j, a, got) ==
    /\ got \in Seq(Answers) /\ Len(got) = jobs[j].next /\ Plan[j][Len(got)] = Current(j)
    /\ got[Len(got)] = a /\ Len(got) = Len(jobs[j].got) + 1 /\ Len(got) \in Nat
    /\ \A i \in 1..Len(got) : i = Len(got) \/ (i \in 1..Len(jobs[j].got) /\ got[i] = jobs[j].got[i])

(* The list of accepted answers is one longer, and the same before. *)
LEMMA TakenGot ==
  ASSUME NEW j \in Job, JobTyped(j), jobs[j].pc \in {"find", "pointer"}, NEW a \in Answers,
         NEW got, got = Append(jobs[j].got, a)
  PROVE  OneMore(j, a, got)
<1>1. jobs[j].got \in Seq(Answers) /\ Len(jobs[j].got) = jobs[j].next - 1 /\ jobs[j].next \in Nat
  BY PlanShape DEF JobTyped, Underway, Buying
<1>2. PICK old : old = jobs[j].got
  OBVIOUS
<1>3. got = Append(old, a) /\ old \in Seq(Answers) /\ Len(old) = jobs[j].next - 1
  BY <1>1, <1>2
<1>4. got \in Seq(Answers) /\ Len(got) = Len(old) + 1 /\ got[Len(old) + 1] = a /\ Len(old) \in Nat
      /\ \A i \in 1..Len(old) : got[i] = old[i]
  BY <1>3
<1>5. Len(got) = jobs[j].next
  BY <1>1, <1>3, <1>4
<1> QED BY <1>2, <1>4, <1>5 DEF Current, OneMore

(* A run that took an answer its check accepts keeps its own part. *)
LEMMA TakenKeeps ==
  ASSUME NEW j \in Job, JobTyped(j), Accepted(j), jobs[j].pc \in {"find", "pointer"}, NEW a \in Answers,
         Accepts(j, a), audited => audited',
         jobs'[j].pc = Taken(j, a).pc, jobs'[j].next = Taken(j, a).next, jobs'[j].got = Taken(j, a).got,
         jobs'[j].before = jobs[j].before, jobs'[j].expected = jobs[j].expected,
         jobs'[j].spent = jobs[j].spent, jobs'[j].calls = jobs[j].calls,
         jobs'[j].index \subseteq manifests'
  PROVE  JobTyped(j)' /\ Accepted(j)'
<1>1. PICK got : got = Append(jobs[j].got, a)
  OBVIOUS
<1>2. /\ jobs'[j].pc = IF jobs[j].next = Len(Plan[j]) THEN "account" ELSE "find"
      /\ jobs'[j].next = jobs[j].next + 1 /\ jobs'[j].got = got
  BY <1>1, TakenShape
<1>0. OneMore(j, a, got)
  BY <1>1, TakenGot
<1>3. /\ got \in Seq(Answers) /\ Len(got) = jobs[j].next /\ Plan[j][Len(got)] = Current(j)
      /\ got[Len(got)] = a /\ Len(got) \in Nat
      /\ \A i \in 1..Len(got) : i = Len(got) \/ (i \in 1..Len(jobs[j].got) /\ got[i] = jobs[j].got[i])
  BY <1>0 DEF OneMore
<1>4. jobs[j].next \in 1..Len(Plan[j]) /\ Len(Plan[j]) \in Nat
  BY PlanShape DEF JobTyped, Looking, Buying
<1>5. JobTyped(j)'
  <2>1. jobs'[j].pc \in {"find", "account"} /\ jobs'[j].pc \notin Storing /\ jobs'[j].pc \in Underway
        /\ jobs'[j].pc \notin {"usage", "preflight", "idle", "done"}
        /\ (jobs'[j].pc \in Looking => jobs'[j].pc = "find")
    BY <1>2 DEF Storing, Underway, Looking, Buying
  <2>2. jobs'[j].next \in 1..(Len(Plan[j]) + 1) /\ (jobs'[j].pc = "find" => jobs'[j].next \in 1..Len(Plan[j]))
        /\ (jobs'[j].pc = "account" => jobs'[j].next = Len(Plan[j]) + 1)
    BY <1>2, <1>4
  <2>3. jobs'[j].got \in Seq(Answers) /\ Len(jobs'[j].got) = jobs'[j].next - 1
    BY <1>2, <1>3, <1>4
  <2>4. jobs[j].pc # "idle"
    OBVIOUS
  <2> QED BY <2>1, <2>2, <2>3, <2>4 DEF JobTyped
<1>6. Accepted(j)'
  <2>1. \A i \in 1..Len(got) : Kind[j] = "market" => Eligible(Plan[j][i], got[i])
    BY <1>3 DEF Accepted, Accepts, Underway, Buying
  <2> QED BY <1>2, <2>1 DEF Accepted
<1> QED BY <1>5, <1>6

(* The answers in the archive, as a run looks them up.                             *)
LEMMA FoundStands ==
  ASSUME ArchiveInv, NEW j \in Job, jobs[j].pc = "find",
         NEW s \in Cached(Current(j), jobs[j].index, Kind[j])
  PROVE  /\ s[2] \in Answers
         /\ ~overlapped /\ Lossless /\ Kind[j] = "market" => Stands(Current(j), s[2])
<1>1. FilesTyped /\ ArchiveSound /\ JobTyped(j)
  BY DEF ArchiveInv
<1>2. Current(j) \in Requests
  BY <1>1, PlanShape DEF JobTyped, Looking, Current
<1>3. CASE Exact(Current(j)) # {}
  <2>1. s = <<Current(j), pointer[Current(j)]>> /\ pointer[Current(j)] # Nothing
    BY <1>3 DEF Cached, Exact
  <2>2. pointer[Current(j)] \in Answers
    BY <1>1, <1>2, <2>1 DEF FilesTyped
  <2> QED BY <2>1, <2>2 DEF Stands
<1>4. CASE Exact(Current(j)) = {}
  <2>1. pointer[Current(j)] = Nothing
    BY <1>1, <1>2, <1>4 DEF Exact, ArchiveSound
  <2>2. s \in Supersets(Current(j), jobs[j].index) /\ Kind[j] # "audit"
    BY <1>4 DEF Cached, Smallest
  <2>3. s \in manifests /\ s[1].at = Current(j).at /\ Current(j).markets \subseteq s[1].markets
    BY <1>1, <2>2 DEF Supersets, JobTyped
  <2>4. s[1] \in Requests /\ s[2] \in Answers
    BY <1>1, <2>3 DEF FilesTyped, Stored
  <2>5. s[1] \in Over(Current(j))
    BY <2>3, <2>4 DEF Over
  <2>6. ASSUME ~overlapped, Lossless PROVE pointer[s[1]] = s[2]
    <3>1. \A e \in Job : jobs[e].pc # "pointer"
      BY <2>6 DEF ArchiveInv, Orderly, OneRun, Running
    <3> QED BY <2>3, <2>6, <3>1 DEF Lossless, Named
  <2> QED BY <2>1, <2>4, <2>5, <2>6 DEF Stands
<1> QED BY <1>3, <1>4

(* A request is looked up: found and accepted, found and refused, or to be bought. One
   that is to be bought has nothing of its instant with its markets in the archive. *)
LEMMA FindKeeps ==
  ASSUME ArchiveInv, NEW j \in Job, Find(j)
  PROVE  ArchiveInv'
<1>1. /\ jobs[j].pc = "find" /\ Running(j)
      /\ UNCHANGED <<archive, remaining, bought, overlapped, audited, lostAnswers, unlisted>>
  BY DEF Find, Running, history
<1>2. FilesTyped /\ ArchiveSound /\ JobTyped(j) /\ Budget(j) /\ Accepted(j)
  BY DEF ArchiveInv
<1>3. manifests' = manifests /\ pointer' = pointer
  BY <1>1 DEF archive
<1>4. Current(j) \in Range(Plan[j]) /\ Current(j) \in Requests
  BY <1>1, <1>2, PlanShape DEF JobTyped, Looking, Current
<1>5. jobs[j].index \subseteq manifests /\ jobs[j].index \in SUBSET Stored
  BY <1>2 DEF JobTyped, FilesTyped
<1>6. ~overlapped => Listed(j) /\ Reserved(j) /\ jobs[j].index = manifests
  BY <1>1 DEF ArchiveInv, Orderly, Listed, Looking
<1>7. CASE Cached(Current(j), jobs[j].index, Kind[j]) = {} /\ jobs' = [jobs EXCEPT ![j].pc = "fetch"]
  <2>1. PICK k : k = [jobs[j] EXCEPT !.pc = "fetch"]
    OBVIOUS
  <2>2. /\ k.pc = "fetch" /\ k.before = jobs[j].before /\ k.next = jobs[j].next /\ k.got = jobs[j].got
        /\ k.index = jobs[j].index /\ k.spent = jobs[j].spent /\ k.calls = jobs[j].calls
        /\ k.expected = jobs[j].expected
    BY <2>1
  <2>3. OnlyMoves(j) /\ jobs'[j] = k
    BY <1>2, <1>7, <2>1 DEF FilesTyped, OnlyMoves
  <2>4. Current(j)' = Current(j)
    BY <2>2, <2>3 DEF Current
  <2>5. JobTyped(j)'
    BY <1>1, <1>2, <1>3, <2>2, <2>3 DEF JobTyped, Looking, Storing, Underway, Buying
  <2>6. Due(j)' = Due(j)
    <3>1. Missing(j)' = Missing(j)
      BY <1>1, <2>2, <2>3, MissingSame
    <3>2. Current(j) \in Missing(j)
      BY <1>4, <1>7 DEF Missing
    <3> QED BY <1>1, <2>2, <2>3, <2>4, <3>1, <3>2 DEF Due, Storing
  <2>7. Budget(j)'
    <3>1. jobs'[j].pc \in {"find"} \cup Buying =>
             jobs[j].pc \in {"find"} \cup Buying /\ Due(j)' \subseteq Due(j)
      BY <1>1, <2>6
    <3>2. jobs'[j].pc \notin {"usage", "preflight"}
      BY <2>2, <2>3
    <3> QED BY <1>2, <2>2, <2>3, <2>5, <3>1, <3>2, BudgetKeeps
  <2>8. Accepted(j)'
    BY <1>1, <1>2, <2>2, <2>3 DEF Accepted, Underway, Buying
  <2>9. overlapped \/ (Listed(j)' /\ Reserved(j)')
    <3> SUFFICES ASSUME ~overlapped PROVE Listed(j)' /\ Reserved(j)'
      OBVIOUS
    <3>1. Lacks(Current(j), jobs[j].index, Kind[j])
      BY <1>2, <1>4, <1>5, <1>7, NotCached
    <3>2. ASSUME NEW q \in Over(Current(j)), pointer[q] # Nothing PROVE FALSE
      <4>1. q \in Requests /\ q.at = Current(j).at /\ Current(j).markets \subseteq q.markets
        BY DEF Over
      <4>2. <<q, pointer[q]>> \in jobs[j].index
        BY <1>2, <1>6, <3>2, <4>1 DEF ArchiveSound
      <4>3. Supersets(Current(j), jobs[j].index) # {}
        BY <4>1, <4>2 DEF Supersets
      <4>4. Kind[j] = "audit"
        BY <3>1, <4>3 DEF Lacks
      <4>5. Current(j).markets = FullMarkets
        BY <1>4, <4>4, ArchiveAssumption
      <4>6. q.markets = FullMarkets
        BY <4>1, <4>5, RequestShape DEF FullMarkets, CloseMarkets
      <4>7. q = Current(j)
        BY <1>4, <4>1, <4>5, <4>6, RequestShape
      <4> QED BY <3>1, <3>2, <4>7 DEF Lacks
    <3>3. Kind[j] = "market" => Supersets(Current(j), jobs[j].index) = {}
      BY <3>1 DEF Lacks
    <3>4. Listed(j)'
      <4>1. \A q \in Over(Current(j)) : pointer'[q] = Nothing
        BY <1>3, <3>2
      <4>2. \A q \in Over(Current(j))' : pointer'[q] = Nothing
        BY <2>4, <4>1 DEF Over
      <4>3. Kind[j] = "market" => Supersets(Current(j), jobs[j].index)' = {}
        BY <2>2, <2>3, <2>4, <3>3 DEF Supersets
      <4> QED BY <1>3, <1>6, <2>2, <2>3, <4>2, <4>3 DEF Listed
    <3>5. Reserved(j)'
      BY <1>1, <1>6, <2>2, <2>3 DEF Reserved, Running, Buying
    <3> QED BY <3>4, <3>5
  <2>10. jobs[j].pc \notin Storing /\ jobs'[j].pc \notin Storing
    BY <1>1, <2>2, <2>3 DEF Storing
  <2>11. overlapped \/ lostAnswers \cup unlisted # {} \/
            (Kind[j] = "market" /\ jobs'[j].pc \in Underway =>
                \A i \in 1..Len(jobs'[j].got) : Stands(Plan[j][i], jobs'[j].got[i]))
    BY <1>1, <2>2, <2>3 DEF ArchiveInv, Lossless, Underway
  <2> QED BY <1>1, <2>3, <2>5, <2>7, <2>8, <2>9, <2>10, <2>11, QuietKeeps
<1>8. ASSUME NEW s \in Cached(Current(j), jobs[j].index, Kind[j]), jobs' = Accept(j, s[2])
      PROVE  ArchiveInv'
  <2>0. s[2] \in Answers
    BY <1>1, FoundStands
  <2>1. CASE ~Accepts(j, s[2])
    BY <1>1, <1>8, <2>1, FailKeeps DEF Accept
  <2>2. CASE Accepts(j, s[2])
    <3>1. PICK k : k = Taken(j, s[2])
      OBVIOUS
    <3>2. OnlyMoves(j) /\ jobs'[j] = k
      BY <1>2, <1>8, <2>2, <3>1 DEF FilesTyped, OnlyMoves, Accept, Taken
    <3>3. /\ k.pc = IF jobs[j].next = Len(Plan[j]) THEN "account" ELSE "find"
          /\ k.got = Append(jobs[j].got, s[2]) /\ k.index = jobs[j].index /\ k.before = jobs[j].before
          /\ k.expected = jobs[j].expected /\ k.spent = jobs[j].spent /\ k.calls = jobs[j].calls
      BY <1>1, <1>2, <2>0, <3>1, TakenShape
    <3>4. JobTyped(j)' /\ Accepted(j)'
      <4>1. jobs'[j].index \subseteq manifests'
        BY <1>3, <1>5, <3>2, <3>3
      <4> QED BY <1>1, <1>2, <2>0, <2>2, <3>1, <3>2, <3>3, <4>1, TakenKeeps
    <3>5. Budget(j)'
      <4>1. Missing(j)' = Missing(j)
        BY <1>1, <3>2, <3>3, MissingSame
      <4>2. jobs'[j].pc = "find" => Due(j)' = Due(j)
        BY <1>1, <4>1 DEF Due, Storing
      <4>3. jobs'[j].pc \in {"find"} \cup Buying =>
               jobs[j].pc \in {"find"} \cup Buying /\ Due(j)' \subseteq Due(j)
        BY <1>1, <3>2, <3>3, <4>2 DEF Buying
      <4>4. jobs'[j].pc \notin {"usage", "preflight"}
        BY <3>2, <3>3
      <4> QED BY <1>2, <3>2, <3>3, <3>4, <4>3, <4>4, BudgetKeeps
    <3>6. overlapped \/ (Listed(j)' /\ Reserved(j)')
      <4> SUFFICES ASSUME ~overlapped PROVE Listed(j)' /\ Reserved(j)'
        OBVIOUS
      <4>1. Listed(j)'
        BY <1>3, <1>6, <3>2, <3>3 DEF Listed, Looking, Buying
      <4>2. Reserved(j)'
        BY <1>1, <1>6, <3>2, <3>3 DEF Reserved, Running
      <4> QED BY <4>1, <4>2
    <3>7. jobs[j].pc \notin Storing /\ jobs'[j].pc \notin Storing
      BY <1>1, <3>2, <3>3 DEF Storing
    <3>8. overlapped \/ lostAnswers \cup unlisted # {} \/
            (Kind[j] = "market" /\ jobs'[j].pc \in Underway =>
                \A i \in 1..Len(jobs'[j].got) : Stands(Plan[j][i], jobs'[j].got[i]))
      <4> SUFFICES ASSUME ~overlapped, lostAnswers \cup unlisted = {}, Kind[j] = "market"
                   PROVE  \A i \in 1..Len(jobs'[j].got) : Stands(Plan[j][i], jobs'[j].got[i])
        OBVIOUS
      <4>1. Lossless
        BY DEF ArchiveInv
      <4>2. Stands(Current(j), s[2])
        BY <1>1, <4>1, FoundStands
      <4>3. PICK got : got = Append(jobs[j].got, s[2])
        OBVIOUS
      <4>0. OneMore(j, s[2], got)
        BY <1>1, <1>2, <2>0, <4>3, TakenGot
      <4>4. /\ Plan[j][Len(got)] = Current(j) /\ got[Len(got)] = s[2]
            /\ \A i \in 1..Len(got) : i = Len(got) \/ (i \in 1..Len(jobs[j].got) /\ got[i] = jobs[j].got[i])
        BY <4>0 DEF OneMore
      <4>5. \A i \in 1..Len(jobs[j].got) : Stands(Plan[j][i], jobs[j].got[i])
        BY <1>1, <4>1 DEF Lossless, Underway
      <4>6. \A i \in 1..Len(got) : Stands(Plan[j][i], got[i])
        BY <4>2, <4>4, <4>5
      <4> QED BY <3>2, <3>3, <4>3, <4>6
    <3> QED BY <1>1, <3>2, <3>4, <3>5, <3>6, <3>7, <3>8, QuietKeeps
  <2> QED BY <2>1, <2>2
<1> QED BY <1>7, <1>8 DEF Find

(* What a run is about to buy is due, and has a price within its budget.            *)
Affords(j) ==
    /\ Cost(Current(j)) \in Nat
    /\ jobs[j].spent + Cost(Current(j)) + Total(Price, Due(j) \ {Current(j)}) <= jobs[j].expected
    /\ jobs[j].spent + Cost(Current(j)) <= jobs[j].expected
    /\ Kind[j] = "market" =>
          /\ jobs[j].expected <= Limit[j] /\ jobs[j].spent + Cost(Current(j)) <= Limit[j]
          /\ jobs[j].calls + 1 + Cardinality(Due(j) \ {Current(j)}) <= CallLimit[j]
          /\ jobs[j].calls + 1 <= CallLimit[j]

(* What a run buys it had counted in its preflight. *)
LEMMA BuysWithinBudget ==
  ASSUME ArchiveInv, NEW j \in Job, jobs[j].pc = "fetch"
  PROVE  /\ Current(j) \in Range(Plan[j]) /\ Current(j) \in Requests /\ Affords(j)
         /\ jobs[j].spent \in Nat /\ jobs[j].calls \in Nat /\ jobs[j].expected \in Nat
<1>1. FilesTyped /\ JobTyped(j) /\ Budget(j)
  BY DEF ArchiveInv
<1>2. Current(j) \in Range(Plan[j]) /\ Current(j) \in Requests
  BY <1>1, PlanShape DEF JobTyped, Looking, Buying, Current
<1>3. PICK due, rest : due = Due(j) /\ rest = due \ {Current(j)}
  OBVIOUS
<1>4. Current(j) \in due /\ IsFiniteSet(due) /\ \A r \in due : Price[r] \in Nat
  <2>1. Current(j) \in due
    BY <1>3 DEF Due, Storing
  <2>2. due \subseteq Range(Plan[j]) /\ IsFiniteSet(due)
    BY <1>1, <1>3, DueShape
  <2>3. \A r \in Range(Plan[j]) : Price[r] \in Nat
    BY <1>1, DueShape
  <2> QED BY <2>1, <2>2, <2>3
<1>5. IsFiniteSet(rest) /\ Total(Price, rest) \in Nat /\ Cardinality(rest) \in Nat
  BY <1>3, <1>4, FS_Subset, TotalNat, FS_CardinalityType
<1>6. Total(Price, due) = Price[Current(j)] + Total(Price, rest)
  BY <1>3, <1>4, TotalRemove
<1>7. Cardinality(rest) = Cardinality(due) - 1 /\ Cardinality(due) \in Nat
  BY <1>3, <1>4, FS_RemoveElement, FS_CardinalityType
<1>8. Price[Current(j)] = Cost(Current(j)) /\ Cost(Current(j)) \in Nat
  BY <1>2, RequestShape
<1>9. /\ jobs[j].spent + Total(Price, due) <= jobs[j].expected
      /\ Kind[j] = "market" => /\ jobs[j].expected <= Limit[j]
                               /\ jobs[j].calls + Cardinality(due) <= CallLimit[j]
  BY <1>1, <1>3 DEF Budget, Buying
<1>10. /\ jobs[j].spent \in Nat /\ jobs[j].calls \in Nat /\ jobs[j].expected \in Nat
       /\ Limit[j] \in Nat /\ CallLimit[j] \in Nat
  BY <1>1, ArchiveAssumption DEF JobTyped
<1>11. /\ jobs[j].spent + Cost(Current(j)) + Total(Price, rest) <= jobs[j].expected
       /\ jobs[j].spent + Cost(Current(j)) <= jobs[j].expected
  BY <1>5, <1>6, <1>8, <1>9, <1>10
<1>12. Kind[j] = "market" =>
          /\ jobs[j].expected <= Limit[j] /\ jobs[j].spent + Cost(Current(j)) <= Limit[j]
          /\ jobs[j].calls + 1 + Cardinality(rest) <= CallLimit[j]
          /\ jobs[j].calls + 1 <= CallLimit[j]
  BY <1>5, <1>7, <1>8, <1>9, <1>10, <1>11
<1>13. Affords(j)
  BY <1>3, <1>8, <1>11, <1>12 DEF Affords
<1> QED BY <1>2, <1>10, <1>13

(* The files and the balance after a request was paid for.                         *)
LEMMA PaidFiles ==
  ASSUME ArchiveInv, NEW j \in Job, jobs[j].pc = "fetch", OnlyMoves(j), UNCHANGED archive,
         remaining >= Cost(Current(j)), remaining' = remaining - Cost(Current(j)),
         bought' = [bought EXCEPT ![Current(j)] = @ + 1]
  PROVE  FilesTyped' /\ ArchiveSound' /\ FilesGrow
<1>1. Current(j) \in Requests /\ Cost(Current(j)) \in Nat
  BY BuysWithinBudget, RequestShape
<1>2. DOMAIN bought' = Requests /\ \A r \in Requests : bought'[r] \in Nat
  BY <1>1 DEF ArchiveInv, FilesTyped
<1>3. remaining' \in 0..Credits
  BY <1>1, ArchiveAssumption DEF ArchiveInv, FilesTyped
<1> QED BY <1>2, <1>3, FilesSame

(* The reserve after a request was paid for.                                       *)
LEMMA PaidReserve ==
  ASSUME ArchiveInv, Orderly, NEW j \in Job, jobs[j].pc = "fetch",
         remaining' = remaining - Cost(Current(j))
  PROVE  /\ remaining' = jobs[j].before - (jobs[j].spent + Cost(Current(j)))
         /\ audited \/ remaining' >= KeptBack
<1>1. /\ Current(j) \in Requests /\ Affords(j)
      /\ jobs[j].spent \in Nat /\ jobs[j].expected \in Nat
  BY BuysWithinBudget
<1>2. jobs[j].before \in Nat /\ KeptBack \in Nat /\ Cost(Current(j)) \in Nat
  BY <1>1, ArchiveAssumption DEF ArchiveInv, JobTyped, Affords
<1>3. /\ remaining = jobs[j].before - jobs[j].spent
      /\ Kind[j] = "market" => jobs[j].before - jobs[j].expected >= KeptBack
  BY DEF Orderly, Reserved, Running, Buying
<1>4. remaining' = jobs[j].before - (jobs[j].spent + Cost(Current(j)))
  BY <1>1, <1>2, <1>3
<1>5. CASE Kind[j] = "market"
  <2>1. jobs[j].spent + Cost(Current(j)) <= jobs[j].expected
    BY <1>1 DEF Affords
  <2> QED BY <1>1, <1>2, <1>3, <1>4, <1>5, <2>1
<1>6. CASE Kind[j] = "audit"
  BY <1>4, <1>6 DEF ArchiveInv, JobTyped
<1> QED BY <1>4, <1>5, <1>6, ArchiveAssumption

(* A request is paid for: it was counted, it was not paid for before unless only an
   audit could need it again, and its answer is on its way to the disk. *)
LEMMA PaidFetchKeeps ==
  ASSUME ArchiveInv, NEW j \in Job, PaidFetch(j)
  PROVE  ArchiveInv'
<1>1. PICK answer \in {NoSnapshot} \cup {Current(j).at + d : d \in Offsets} :
          jobs' = [jobs EXCEPT ![j].pc = "artifact", ![j].answer = answer,
                               ![j].calls = @ + 1, ![j].spent = @ + Cost(Current(j))]
  BY DEF PaidFetch
<1>2. /\ jobs[j].pc = "fetch" /\ Running(j) /\ remaining >= Cost(Current(j))
      /\ remaining' = remaining - Cost(Current(j))
      /\ bought' = [bought EXCEPT ![Current(j)] = @ + 1]
      /\ UNCHANGED <<archive, lostAnswers, unlisted, overlapped, audited>>
  BY DEF PaidFetch, Running
<1>3. PICK k : k = [jobs[j] EXCEPT !.pc = "artifact", !.answer = answer,
                                   !.calls = @ + 1, !.spent = @ + Cost(Current(j))]
  OBVIOUS
<1>4. /\ k.pc = "artifact" /\ k.answer = answer /\ k.before = jobs[j].before /\ k.next = jobs[j].next
      /\ k.got = jobs[j].got /\ k.index = jobs[j].index /\ k.expected = jobs[j].expected
      /\ k.spent = jobs[j].spent + Cost(Current(j)) /\ k.calls = jobs[j].calls + 1
  BY <1>3
<1>5. FilesTyped /\ ArchiveSound /\ JobTyped(j) /\ Budget(j) /\ Accepted(j)
  BY DEF ArchiveInv
<1>6. OnlyMoves(j) /\ jobs'[j] = k
  BY <1>1, <1>3, <1>5 DEF FilesTyped, OnlyMoves
<1>7. /\ Current(j) \in Range(Plan[j]) /\ Current(j) \in Requests /\ Affords(j)
      /\ jobs[j].spent \in Nat /\ jobs[j].calls \in Nat /\ jobs[j].expected \in Nat
  BY <1>2, BuysWithinBudget
<1>8. Current(j)' = Current(j) /\ manifests' = manifests /\ pointer' = pointer /\ artifacts' = artifacts
  BY <1>2, <1>4, <1>6 DEF Current, archive
<1>9. FilesTyped' /\ ArchiveSound' /\ FilesGrow
  BY <1>2, <1>6, PaidFiles
<1>10. answer \in Answers
  BY <1>7 DEF Answers
<1>11. JobTyped(j)'
  <2>1. jobs'[j].spent \in Nat /\ jobs'[j].calls \in Nat
    BY <1>4, <1>6, <1>7 DEF Affords
  <2>2. jobs'[j].pc \in Looking /\ jobs'[j].pc \in Storing /\ jobs'[j].pc \in Underway
        /\ jobs[j].pc \in Looking /\ jobs[j].pc \in Underway /\ jobs[j].pc # "idle"
    BY <1>2, <1>4, <1>6 DEF Looking, Underway, Buying, Storing
  <2> QED BY <1>2, <1>4, <1>5, <1>6, <1>8, <1>10, <2>1, <2>2 DEF JobTyped
<1>12. Held(j)' /\ Accepted(j)'
  BY <1>2, <1>4, <1>5, <1>6 DEF Held, Accepted, Underway, Buying
<1>13. Budget(j)'
  <2>1. Missing(j)' = Missing(j)
    BY <1>2, <1>4, <1>6, MissingSame
  <2>2. Due(j)' = Due(j) \ {Current(j)}
    BY <1>2, <1>4, <1>6, <1>8, <2>1 DEF Due, Storing
  <2>3. Total(Price, Due(j))' = Total(Price, Due(j) \ {Current(j)})
        /\ Cardinality(Due(j))' = Cardinality(Due(j) \ {Current(j)})
    BY <2>2
  <2> QED BY <1>4, <1>6, <1>7, <2>3 DEF Budget, Affords, Buying
<1>14. overlapped' \/ Orderly'
  <2> SUFFICES ASSUME ~overlapped PROVE Orderly'
    BY <1>2
  <2>1. Orderly
    BY DEF ArchiveInv
  <2>2. Listed(j) /\ Reserved(j)
    BY <2>1 DEF Orderly
  <2>3. Listed(j)'
    <3>1. \A q \in Over(Current(j))' : pointer'[q] = Nothing
      BY <1>2, <1>8, <2>2 DEF Listed, Over, Buying
    <3> QED BY <1>2, <1>4, <1>6, <1>8, <2>2, <3>1 DEF Listed, Looking, Buying
  <2>4. remaining' = jobs[j].before - (jobs[j].spent + Cost(Current(j))) /\ (audited \/ remaining' >= KeptBack)
    BY <1>2, <2>1, PaidReserve
  <2>5. Reserved(j)'
    BY <1>2, <1>4, <1>6, <2>2, <2>4 DEF Reserved, Running, Buying
  <2>6. ASSUME NEW r \in Requests PROVE Paid(r)'
    <3>1. Paid(r)
      BY <2>1 DEF Orderly
    <3>2. CASE r \in lostAnswers
      BY <1>2, <3>2 DEF Paid
    <3>3. CASE r \notin lostAnswers /\ r # Current(j)
      <4>1. bought'[r] = bought[r]
        BY <1>2, <1>5, <3>3 DEF FilesTyped
      <4>2. Kept(r) => Kept(r)'
        BY <1>2, <1>6, <1>8, <3>3 DEF Kept, OnlyMoves, Current, Storing
      <4> QED BY <1>2, <3>1, <3>3, <4>1, <4>2 DEF Paid
    <3>4. CASE r \notin lostAnswers /\ r = Current(j)
      <4>1. bought'[r] = bought[r] + 1 /\ bought[r] \in Nat
        BY <1>2, <1>5, <3>4 DEF FilesTyped
      <4>2. Kept(r)'
        <5>1. jobs'[j].pc \in Storing /\ Plan[j][jobs'[j].next] = r
          BY <1>4, <1>6, <3>4 DEF Storing, Current
        <5> QED BY <5>1 DEF Kept, Current
      <4>3. ASSUME bought[r] > 0 PROVE audited /\ r \in unlisted
        <5>1. Kept(r)
          BY <3>1, <3>4, <4>3 DEF Paid
        <5>2. pointer[r] = Nothing
          BY <1>2, <1>7, <2>2, <3>4 DEF Listed, Over, Buying
        <5>3. ~ \E d \in Job : jobs[d].pc \in Storing /\ Current(d) = r
          BY <1>2, <2>1 DEF Orderly, OneRun, Running, Storing
        <5>4. PICK a \in Answers : r \in unlisted /\ <<r, a>> \in manifests
          BY <5>1, <5>2, <5>3 DEF Kept
        <5>5. jobs[j].index = manifests
          BY <1>2, <2>2 DEF Listed, Looking, Buying
        <5>6. Supersets(Current(j), jobs[j].index) # {}
          BY <3>4, <5>4, <5>5 DEF Supersets
        <5>7. Kind[j] # "market"
          BY <1>2, <2>2, <5>6 DEF Listed
        <5>8. audited
          BY <1>2, <1>5, <5>7, ArchiveAssumption DEF JobTyped
        <5> QED BY <5>4, <5>8
      <4> QED BY <1>2, <4>1, <4>2, <4>3 DEF Paid
    <3> QED BY <3>2, <3>3, <3>4
  <2> QED BY <1>2, <1>6, <2>1, <2>3, <2>4, <2>5, <2>6, OrderlyMoves
<1>15. overlapped' \/ lostAnswers' \cup unlisted' # {} \/ Lossless'
  <2> SUFFICES ASSUME ~overlapped, lostAnswers \cup unlisted = {} PROVE Lossless'
    BY <1>2
  <2>1. Lossless
    BY DEF ArchiveInv
  <2>2. \A s \in manifests : Named(s)'
    BY <1>2, <1>6, <1>8, <2>1 DEF Lossless, Named, OnlyMoves, Current
  <2>3. \A r, a : Stands(r, a) <=> Stands(r, a)'
    BY <1>8 DEF Stands
  <2> QED BY <1>2, <1>4, <1>6, <1>8, <2>1, <2>2, <2>3 DEF Lossless, OnlyMoves, Underway, Buying
<1> QED BY <1>2, <1>6, <1>9, <1>11, <1>12, <1>13, <1>14, <1>15, OneJobMoves

(* An answer that is charged and lost: the request is listed as lost. *)
LEMMA FetchLostKeeps ==
  ASSUME ArchiveInv, NEW j \in Job, FetchLost(j)
  PROVE  ArchiveInv'
<1>1. jobs' = [jobs EXCEPT ![j].pc = "failed", ![j].calls = @ + 1, ![j].spent = @ + Cost(Current(j))]
  BY DEF FetchLost
<1>2. /\ jobs[j].pc = "fetch" /\ Running(j) /\ remaining >= Cost(Current(j))
      /\ remaining' = remaining - Cost(Current(j))
      /\ bought' = [bought EXCEPT ![Current(j)] = @ + 1]
      /\ lostAnswers' = lostAnswers \cup {Current(j)}
      /\ UNCHANGED <<archive, unlisted, overlapped, audited>>
  BY DEF FetchLost, Running
<1>3. PICK k : k = [jobs[j] EXCEPT !.pc = "failed", !.calls = @ + 1, !.spent = @ + Cost(Current(j))]
  OBVIOUS
<1>4. /\ k.pc = "failed" /\ k.before = jobs[j].before /\ k.next = jobs[j].next
      /\ k.got = jobs[j].got /\ k.index = jobs[j].index /\ k.expected = jobs[j].expected
      /\ k.spent = jobs[j].spent + Cost(Current(j)) /\ k.calls = jobs[j].calls + 1
  BY <1>3
<1>5. FilesTyped /\ ArchiveSound /\ JobTyped(j) /\ Budget(j) /\ Accepted(j)
  BY DEF ArchiveInv
<1>6. OnlyMoves(j) /\ jobs'[j] = k
  BY <1>1, <1>3, <1>5 DEF FilesTyped, OnlyMoves
<1>7. /\ Current(j) \in Range(Plan[j]) /\ Current(j) \in Requests /\ Affords(j)
      /\ jobs[j].spent \in Nat /\ jobs[j].calls \in Nat /\ jobs[j].expected \in Nat
  BY <1>2, BuysWithinBudget
<1>8. manifests' = manifests /\ pointer' = pointer /\ artifacts' = artifacts
  BY <1>2 DEF archive
<1>9. FilesTyped' /\ ArchiveSound' /\ FilesGrow
  BY <1>2, <1>6, PaidFiles
<1>11. JobTyped(j)'
  <2>1. jobs'[j].spent \in Nat /\ jobs'[j].calls \in Nat
    BY <1>4, <1>6, <1>7 DEF Affords
  <2>2. jobs'[j].pc = "failed" /\ jobs'[j].pc \notin Looking \cup Storing \cup Underway
        /\ jobs[j].pc # "idle"
    BY <1>2, <1>4, <1>6 DEF Looking, Underway, Buying, Storing
  <2> QED BY <1>2, <1>4, <1>5, <1>6, <1>8, <2>1, <2>2 DEF JobTyped
<1>12. Held(j)' /\ Accepted(j)'
  BY <1>4, <1>6 DEF Held, Accepted, Underway, Buying
<1>13. Budget(j)'
  BY <1>4, <1>6, <1>7 DEF Budget, Affords, Buying
<1>14. overlapped' \/ Orderly'
  <2> SUFFICES ASSUME ~overlapped PROVE Orderly'
    BY <1>2
  <2>1. Orderly
    BY DEF ArchiveInv
  <2>2. Listed(j)' /\ Reserved(j)'
    BY <1>4, <1>6 DEF Listed, Reserved, Looking, Buying, Running
  <2>3. audited \/ remaining' >= KeptBack
    BY <1>2, <2>1, PaidReserve
  <2>4. ASSUME NEW r \in Requests PROVE Paid(r)'
    <3>1. Paid(r)
      BY <2>1 DEF Orderly
    <3>2. CASE r \in lostAnswers \/ r = Current(j)
      BY <1>2, <3>2 DEF Paid
    <3>3. CASE r \notin lostAnswers /\ r # Current(j)
      <4>1. bought'[r] = bought[r]
        BY <1>2, <1>5, <3>3 DEF FilesTyped
      <4>2. Kept(r) => Kept(r)'
        BY <1>2, <1>6, <1>8, <3>3 DEF Kept, OnlyMoves, Current, Storing
      <4> QED BY <1>2, <3>1, <3>3, <4>1, <4>2 DEF Paid
    <3> QED BY <3>2, <3>3
  <2> QED BY <1>2, <1>6, <2>1, <2>2, <2>3, <2>4, OrderlyMoves
<1>15. lostAnswers' \cup unlisted' # {}
  BY <1>2
<1> QED BY <1>2, <1>6, <1>9, <1>11, <1>12, <1>13, <1>14, <1>15, OneJobMoves

(* The artifact and the manifest are stored; the pointer is not.                    *)
LEMMA StoreKeeps ==
  ASSUME ArchiveInv, NEW j \in Job, jobs[j].pc \in {"artifact", "manifest"},
         NEW pc \in {"manifest", "pointer"}, jobs' = [jobs EXCEPT ![j].pc = pc],
         pointer' = pointer, artifacts \subseteq artifacts', artifacts' \subseteq Stored,
         pc = "manifest" => manifests' = manifests /\ <<Current(j), jobs[j].answer>> \in artifacts',
         pc = "pointer" => /\ manifests' = manifests \cup {<<Current(j), jobs[j].answer>>}
                           /\ <<Current(j), jobs[j].answer>> \in artifacts',
         UNCHANGED <<remaining, bought, overlapped, audited, lostAnswers, unlisted>>
  PROVE  ArchiveInv'
<1>1. PICK k : k = [jobs[j] EXCEPT !.pc = pc]
  OBVIOUS
<1>2. /\ k.pc = pc /\ k.before = jobs[j].before /\ k.next = jobs[j].next /\ k.answer = jobs[j].answer
      /\ k.got = jobs[j].got /\ k.index = jobs[j].index /\ k.expected = jobs[j].expected
      /\ k.spent = jobs[j].spent /\ k.calls = jobs[j].calls
  BY <1>1
<1>3. FilesTyped /\ ArchiveSound /\ JobTyped(j) /\ Budget(j) /\ Accepted(j)
  BY DEF ArchiveInv
<1>4. OnlyMoves(j) /\ jobs'[j] = k
  BY <1>1, <1>3 DEF FilesTyped, OnlyMoves
<1>5. Current(j)' = Current(j) /\ Running(j) /\ jobs[j].pc \in Storing /\ jobs'[j].pc \in Storing
  BY <1>2, <1>4 DEF Current, Running, Storing
<1>6. <<Current(j), jobs[j].answer>> \in Stored
  BY <1>3, <1>5, PlanShape DEF JobTyped, Looking, Buying, Storing, Current, Stored
<1>7. FilesTyped' /\ ArchiveSound' /\ FilesGrow /\ manifests' \subseteq Stored
  <2>1. manifests \subseteq manifests' /\ manifests' \subseteq Stored /\ manifests' \subseteq artifacts'
    BY <1>3, <1>6 DEF FilesTyped, ArchiveSound
  <2>2. FilesGrow
    BY <2>1 DEF FilesGrow
  <2>3. FilesTyped'
    BY <1>3, <1>4, <2>1 DEF FilesTyped, OnlyMoves
  <2>4. ArchiveSound'
    BY <1>3, <2>1 DEF ArchiveSound
  <2> QED BY <2>1, <2>2, <2>3, <2>4
<1>8. JobTyped(j)'
  <2>1. jobs'[j].pc \in Looking /\ jobs'[j].pc \in Underway
        /\ jobs[j].pc \in Looking /\ jobs[j].pc \in Underway
        /\ jobs'[j].pc \notin {"usage", "preflight", "account", "done"} /\ jobs[j].pc # "idle"
    BY <1>2, <1>4 DEF Looking, Underway, Buying
  <2>2. jobs'[j].index \subseteq manifests'
    BY <1>2, <1>3, <1>4, <1>7 DEF JobTyped, FilesGrow
  <2> QED BY <1>2, <1>3, <1>4, <1>5, <2>1, <2>2 DEF JobTyped
<1>9. Held(j)'
  BY <1>2, <1>4, <1>5 DEF Held
<1>10. Accepted(j)'
  BY <1>2, <1>3, <1>4, <1>5 DEF Accepted, Underway, Buying, Storing
<1>11. Budget(j)'
  <2>1. Missing(j)' \subseteq Missing(j)
    <3>1. jobs[j].index \subseteq manifests /\ jobs'[j].index \subseteq manifests'
          /\ jobs[j].index \subseteq jobs'[j].index
      BY <1>2, <1>3, <1>4, <1>8 DEF JobTyped
    <3> QED BY <1>3, <1>7, <3>1, MissingShrinks
  <2>2. Due(j)' \subseteq Due(j)
    BY <1>5, <2>1 DEF Due, Storing
  <2>3. jobs[j].pc \in {"find"} \cup Buying /\ jobs'[j].pc \notin {"usage", "preflight"}
    BY <1>2, <1>4 DEF Buying
  <2> QED BY <1>2, <1>3, <1>4, <1>8, <2>2, <2>3, BudgetKeeps
<1>12. overlapped' \/ Orderly'
  <2> SUFFICES ASSUME ~overlapped PROVE Orderly'
    OBVIOUS
  <2>1. Orderly
    BY DEF ArchiveInv
  <2>2. Listed(j) /\ Reserved(j)
    BY <2>1 DEF Orderly
  <2>3. Listed(j)'
    <3>1. \A q \in Over(Current(j))' : pointer'[q] = Nothing
      BY <1>5, <2>2 DEF Listed, Over, Buying, Storing
    <3>2. jobs[j].index = manifests
      BY <2>2 DEF Listed, Looking, Buying
    <3> QED BY <1>2, <1>4, <1>5, <3>1, <3>2 DEF Listed, Looking, Storing
  <2>4. Reserved(j)'
    BY <1>2, <1>4, <1>5, <2>2 DEF Reserved, Running, Buying, Storing
  <2>5. ASSUME NEW r \in Requests PROVE Paid(r)'
    <3>1. Kept(r) => Kept(r)'
      <4>1. ASSUME NEW d \in Job, jobs[d].pc \in Storing, Current(d) = r
            PROVE  jobs'[d].pc \in Storing /\ Current(d)' = r
        BY <1>4, <1>5, <4>1 DEF OnlyMoves, Current
      <4>2. \A a \in Answers : <<r, a>> \in manifests => <<r, a>> \in manifests'
        BY <1>7 DEF FilesGrow
      <4>3. (\E d \in Job : jobs[d].pc \in Storing /\ Current(d) = r) =>
              \E d \in Job : jobs'[d].pc \in Storing /\ Current(d)' = r
        BY <4>1
      <4>4. Kept(r) =>
              \/ pointer'[r] # Nothing
              \/ (r \in unlisted' /\ \E a \in Answers : <<r, a>> \in manifests')
              \/ \E d \in Job : jobs'[d].pc \in Storing /\ Current(d)' = r
        BY <4>2, <4>3 DEF Kept
      <4> QED BY <4>4 DEF Kept
    <3>2. Paid(r)
      BY <2>1 DEF Orderly
    <3> QED BY <3>1, <3>2 DEF Paid
  <2> QED BY <1>4, <1>5, <2>1, <2>3, <2>4, <2>5, OrderlyMoves DEF Orderly
<1>13. overlapped' \/ lostAnswers' \cup unlisted' # {} \/ Lossless'
  <2> SUFFICES ASSUME ~overlapped, lostAnswers \cup unlisted = {} PROVE Lossless'
    OBVIOUS
  <2>1. Lossless
    BY DEF ArchiveInv
  <2>2. ASSUME NEW s \in manifests' PROVE Named(s)'
    <3>1. CASE s \in manifests
      <4>1. Named(s)
        BY <2>1, <3>1 DEF Lossless
      <4>2. \A d \in Job : jobs[d].pc = "pointer" => d # j /\ jobs'[d] = jobs[d] /\ Current(d)' = Current(d)
        BY <1>4 DEF OnlyMoves, Current
      <4> QED BY <4>1, <4>2 DEF Named
    <3>2. CASE s \notin manifests
      <4>1. pc = "pointer" /\ s = <<Current(j), jobs[j].answer>>
        BY <2>2, <3>2
      <4>2. jobs'[j].pc = "pointer" /\ s = <<Current(j)', jobs'[j].answer>>
        BY <1>2, <1>4, <1>5, <4>1
      <4> QED BY <4>2 DEF Named
    <3> QED BY <3>1, <3>2
  <2>3. \A r, a : Stands(r, a) <=> Stands(r, a)'
    BY DEF Stands
  <2>4. jobs[j].pc \in Underway
    BY <1>5 DEF Underway, Buying, Storing
  <2> QED BY <1>2, <1>4, <2>1, <2>2, <2>3, <2>4 DEF Lossless, OnlyMoves
<1> QED BY <1>4, <1>7, <1>8, <1>9, <1>10, <1>11, <1>12, <1>13, OneJobMoves

(* The artifact is in place before its manifest. *)
LEMMA WriteArtifactKeeps ==
  ASSUME ArchiveInv, NEW j \in Job, WriteArtifact(j)
  PROVE  ArchiveInv'
<1>1. <<Current(j), jobs[j].answer>> \in Stored
  BY PlanShape DEF WriteArtifact, ArchiveInv, JobTyped, Looking, Buying, Storing, Current, Stored
<1> QED BY <1>1, StoreKeeps DEF WriteArtifact, history, ArchiveInv, FilesTyped

(* The manifest is in place before its pointer. *)
LEMMA WriteManifestKeeps ==
  ASSUME ArchiveInv, NEW j \in Job, WriteManifest(j)
  PROVE  ArchiveInv'
<1>1. <<Current(j), jobs[j].answer>> \in artifacts
  BY DEF WriteManifest, ArchiveInv, Held
<1> QED BY <1>1, StoreKeeps DEF WriteManifest, history, ArchiveInv, FilesTyped

(* The pointer is stored, and the run goes on with the answer or ends.              *)
LEMMA WritePointerKeeps ==
  ASSUME ArchiveInv, NEW j \in Job, WritePointer(j)
  PROVE  ArchiveInv'
<1>0. PICK cur, a : cur = Current(j) /\ a = jobs[j].answer
  OBVIOUS
<1> DEFINE failed == [Idle EXCEPT !.pc = "failed", !.spent = jobs[j].spent,
                                  !.expected = jobs[j].expected, !.calls = jobs[j].calls]
<1>1. /\ jobs[j].pc = "pointer" /\ Running(j)
      /\ pointer' = [pointer EXCEPT ![cur] = a]
      /\ artifacts' = artifacts /\ manifests' = manifests
      /\ UNCHANGED <<remaining, bought, overlapped, audited, lostAnswers, unlisted>>
  BY <1>0 DEF WritePointer, Running, history
<1>2. jobs' = [Accept(j, a) EXCEPT ![j].index = @ \cup {<<cur, a>>}]
  BY <1>0 DEF WritePointer
<1>3. FilesTyped /\ ArchiveSound /\ JobTyped(j) /\ Budget(j) /\ Accepted(j) /\ Held(j)
  BY DEF ArchiveInv
<1>4. cur \in Range(Plan[j]) /\ cur \in Requests /\ a \in Answers /\ a # Nothing
  BY <1>0, <1>1, <1>3, PlanShape, ArchiveAssumption DEF JobTyped, Looking, Buying, Storing, Current
<1>5. <<cur, a>> \in manifests /\ jobs[j].index \subseteq manifests
  BY <1>0, <1>1, <1>3 DEF Held, JobTyped
<1>6. PICK k : k = IF Accepts(j, a) THEN [Taken(j, a) EXCEPT !.index = @ \cup {<<cur, a>>}]
                                     ELSE [failed EXCEPT !.index = @ \cup {<<cur, a>>}]
  OBVIOUS
<1>7. OnlyMoves(j) /\ jobs'[j] = k
  <2>1. CASE Accepts(j, a)
    BY <1>2, <1>3, <1>6, <2>1 DEF FilesTyped, OnlyMoves, Accept, Taken
  <2>2. CASE ~Accepts(j, a)
    BY <1>2, <1>3, <1>6, <2>2 DEF FilesTyped, OnlyMoves, Accept, Failed
  <2> QED BY <2>1, <2>2
<1>8. Accepts(j, a) =>
        /\ k.pc = Taken(j, a).pc /\ k.next = Taken(j, a).next /\ k.got = Taken(j, a).got
        /\ k.index = jobs[j].index \cup {<<cur, a>>}
        /\ k.before = jobs[j].before /\ k.expected = jobs[j].expected
        /\ k.spent = jobs[j].spent /\ k.calls = jobs[j].calls /\ k.pc \in {"find", "account"}
        /\ k.got = Append(jobs[j].got, a)
  BY <1>6 DEF Taken
<1>9. ~Accepts(j, a) =>
        /\ k.pc = "failed" /\ k.next = 1 /\ k.index = {<<cur, a>>} /\ k.before = 0
        /\ k.expected = jobs[j].expected /\ k.spent = jobs[j].spent /\ k.calls = jobs[j].calls
  BY <1>6 DEF Idle
<1>10. /\ pointer'[cur] = a
       /\ \A r \in Requests \ {cur} : pointer'[r] = pointer[r]
  BY <1>1, <1>3, <1>4 DEF FilesTyped
<1>11. FilesTyped' /\ ArchiveSound' /\ FilesGrow /\ manifests' \subseteq Stored
  <2>1. FilesTyped'
    BY <1>1, <1>3, <1>4, <1>7, <1>10 DEF FilesTyped, OnlyMoves
  <2>2. ArchiveSound'
    BY <1>1, <1>3, <1>4, <1>5, <1>10 DEF ArchiveSound
  <2>3. FilesGrow
    BY <1>1, <1>4, <1>10 DEF FilesGrow
  <2> QED BY <1>1, <1>3, <2>1, <2>2, <2>3 DEF FilesTyped
<1>12. JobTyped(j)' /\ Accepted(j)'
  <2>1. CASE Accepts(j, a)
    <3>1. jobs'[j].index \subseteq manifests'
      BY <1>1, <1>5, <1>7, <1>8, <2>1
    <3> QED BY <1>1, <1>3, <1>4, <1>7, <1>8, <2>1, <3>1, TakenKeeps
  <2>2. CASE ~Accepts(j, a)
    <3>1. jobs'[j].pc \notin Looking \cup Storing \cup Underway
      BY <1>7, <1>9, <2>2 DEF Looking, Storing, Underway, Buying
    <3>2. 1 \in 1..(Len(Plan[j]) + 1)
      BY PlanShape
    <3> QED BY <1>1, <1>3, <1>5, <1>7, <1>9, <2>2, <3>1, <3>2 DEF JobTyped, Accepted
  <2> QED BY <2>1, <2>2
<1>13. Held(j)'
  BY <1>7, <1>8, <1>9 DEF Held
<1>14. Budget(j)'
  <2>1. CASE Accepts(j, a)
    <3>1. Missing(j)' \subseteq Missing(j)
      <4>1. jobs[j].index \subseteq manifests /\ jobs'[j].index \subseteq manifests'
            /\ jobs[j].index \subseteq jobs'[j].index
        BY <1>1, <1>5, <1>7, <1>8, <2>1
      <4> QED BY <1>3, <1>11, <4>1, MissingShrinks
    <3>2. cur \notin Missing(j)'
      <4>1. Exact(cur)' # {}
        BY <1>1, <1>3, <1>4, <1>5, <1>10 DEF Exact, ArchiveSound
      <4>2. (Cached(cur, jobs[j].index, Kind[j]))' # {}
        BY <4>1 DEF Cached, Exact
      <4> QED BY <4>2 DEF Missing, Cached, Exact, Supersets, Smallest
    <3>3. jobs'[j].pc = "find" => Due(j)' \subseteq Due(j)
      BY <1>0, <1>1, <3>1, <3>2 DEF Due, Storing
    <3>4. jobs'[j].pc \in {"find"} \cup Buying =>
             jobs[j].pc \in {"find"} \cup Buying /\ Due(j)' \subseteq Due(j)
      BY <1>1, <1>7, <1>8, <2>1, <3>3 DEF Buying
    <3>5. jobs'[j].pc \notin {"usage", "preflight"}
      BY <1>7, <1>8, <2>1
    <3> QED BY <1>3, <1>7, <1>8, <1>12, <2>1, <3>4, <3>5, BudgetKeeps
  <2>2. CASE ~Accepts(j, a)
    BY <1>3, <1>7, <1>9, <2>2 DEF Budget, Buying
  <2> QED BY <2>1, <2>2
<1>15. overlapped' \/ Orderly'
  <2> SUFFICES ASSUME ~overlapped PROVE Orderly'
    BY <1>1
  <2>1. Orderly
    BY DEF ArchiveInv
  <2>2. Listed(j) /\ Reserved(j)
    BY <2>1 DEF Orderly
  <2>3. Listed(j)'
    <3>1. manifests' = jobs[j].index \cup {<<cur, a>>}
      BY <1>0, <1>1, <2>2 DEF Listed
    <3> QED BY <1>7, <1>8, <1>9, <3>1 DEF Listed, Looking, Buying
  <2>4. Reserved(j)'
    BY <1>1, <1>7, <1>8, <1>9, <2>2 DEF Reserved, Running, Buying
  <2>5. ASSUME NEW r \in Requests PROVE Paid(r)'
    <3>1. Paid(r)
      BY <2>1 DEF Orderly
    <3>2. CASE r = cur
      BY <1>1, <1>4, <1>10, <3>1, <3>2 DEF Paid, Kept
    <3>3. CASE r # cur
      <4>1. pointer'[r] = pointer[r]
        BY <1>10, <3>3
      <4>2. ASSUME NEW d \in Job, jobs[d].pc \in Storing, Current(d) = r
            PROVE  jobs'[d].pc \in Storing /\ Plan[d][jobs'[d].next] = r
        BY <1>0, <1>7, <3>3, <4>2 DEF OnlyMoves, Current
      <4>3. (\E d \in Job : jobs[d].pc \in Storing /\ Plan[d][jobs[d].next] = r) =>
              \E d \in Job : jobs'[d].pc \in Storing /\ Plan[d][jobs'[d].next] = r
        BY <4>2 DEF Current
      <4>4. Kept(r) => Kept(r)'
        BY <1>1, <4>1, <4>3 DEF Kept, Current
      <4> QED BY <1>1, <3>1, <4>4 DEF Paid
    <3> QED BY <3>2, <3>3
  <2> QED BY <1>1, <1>7, <2>1, <2>3, <2>4, <2>5, OrderlyMoves DEF Orderly
<1>16. overlapped' \/ lostAnswers' \cup unlisted' # {} \/ Lossless'
  <2> SUFFICES ASSUME ~overlapped, lostAnswers \cup unlisted = {} PROVE Lossless'
    BY <1>1
  <2>1. Lossless /\ Orderly
    BY DEF ArchiveInv
  <2>2. \A q \in Over(cur) : pointer[q] = Nothing
    BY <1>0, <1>1, <2>1 DEF Orderly, Listed, Buying
  <2>3. pointer[cur] = Nothing
    BY <1>4, <2>2 DEF Over
  <2>4. ASSUME NEW s \in manifests PROVE Named(s)'
    <3>1. s[1] \in Requests /\ s[2] \in Answers /\ s[2] # Nothing
      BY <1>3, ArchiveAssumption DEF FilesTyped, Stored
    <3>2. CASE pointer[s[1]] = s[2]
      BY <1>10, <2>3, <3>1, <3>2 DEF Named
    <3>3. ASSUME NEW d \in Job, jobs[d].pc = "pointer", s = <<Current(d), jobs[d].answer>>
          PROVE  Named(s)'
      <4>1. d = j
        BY <1>1, <2>1, <3>3 DEF Orderly, OneRun, Running
      <4>2. pointer'[s[1]] = s[2]
        BY <1>0, <1>10, <3>3, <4>1
      <4> QED BY <4>2 DEF Named
    <3>4. Named(s)
      BY <2>1 DEF Lossless
    <3> QED BY <3>2, <3>3, <3>4 DEF Named
  <2>5. ASSUME NEW r \in Requests, NEW b \in Answers, Stands(r, b) PROVE Stands(r, b)'
    <3>1. b # Nothing
      BY ArchiveAssumption
    <3>2. CASE pointer[r] = b
      BY <1>10, <2>3, <2>5, <3>1, <3>2 DEF Stands
    <3>3. ASSUME pointer[r] = Nothing, NEW q \in Over(r), pointer[q] = b PROVE Stands(r, b)'
      <4>1. q \in Requests /\ q # cur /\ r # cur
        BY <2>2, <2>3, <3>1, <3>3 DEF Over
      <4>2. pointer'[r] = Nothing /\ pointer'[q] = b
        BY <1>10, <3>3, <4>1
      <4> QED BY <3>3, <4>2 DEF Stands, Over
    <3> QED BY <2>5, <3>2, <3>3 DEF Stands
  <2>6. ASSUME NEW d \in Job, Kind[d] = "market", jobs'[d].pc \in Underway, NEW i \in 1..Len(jobs'[d].got)
        PROVE  Stands(Plan[d][i], jobs[d].got[i])'
    <3>0. JobTyped(d) /\ JobTyped(d)'
      <4>1. CASE d = j
        BY <1>3, <1>12, <4>1
      <4>2. CASE d # j
        BY <1>1, <1>7, <1>11, <4>2, OthersKeep DEF OnlyMoves, ArchiveInv
      <4> QED BY <4>1, <4>2
    <3>a. PICK r, b : r = Plan[d][i] /\ b = jobs'[d].got[i]
      OBVIOUS
    <3> SUFFICES Stands(r, b)'
      BY <3>a DEF Stands, Over
    <3>1. CASE d # j
      <4>1. jobs'[d] = jobs[d]
        BY <1>7, <3>1 DEF OnlyMoves
      <4>2. Stands(Plan[d][i], jobs[d].got[i])
        BY <2>1, <2>6, <4>1 DEF Lossless
      <4>3. Plan[d][i] \in Requests /\ jobs[d].got[i] \in Answers
        <5>1. jobs[d].got \in Seq(Answers) /\ Len(jobs[d].got) = jobs[d].next - 1 /\ jobs[d].next \in 1..(Len(Plan[d]) + 1)
          BY <2>6, <3>0, <4>1 DEF JobTyped
        <5>2. i \in 1..Len(Plan[d]) /\ i \in 1..Len(jobs[d].got)
          BY <2>6, <4>1, <5>1, PlanShape
        <5> QED BY <5>1, <5>2, PlanShape
      <4> QED BY <2>5, <3>a, <4>1, <4>2, <4>3
    <3>2. CASE d = j
      <4>0. Accepts(j, a)
        BY <1>7, <1>9, <2>6, <3>2 DEF Underway, Buying
      <4>1. PICK got : got = Append(jobs[j].got, a)
        OBVIOUS
      <4>2. OneMore(j, a, got)
        BY <1>0, <1>1, <1>3, <1>4, <4>1, TakenGot
      <4>3. /\ Plan[j][Len(got)] = cur /\ got[Len(got)] = a
            /\ \A n \in 1..Len(got) : n = Len(got) \/ (n \in 1..Len(jobs[j].got) /\ got[n] = jobs[j].got[n])
        BY <1>0, <4>2 DEF OneMore
      <4>4. jobs'[j].got = got /\ i \in 1..Len(got)
        BY <1>7, <1>8, <2>6, <3>2, <4>0, <4>1
      <4>5. CASE i = Len(got)
        <5>1. pointer'[r] = b
          BY <1>10, <3>a, <3>2, <4>3, <4>4, <4>5
        <5> QED BY <5>1 DEF Stands
      <4>6. CASE i \in 1..Len(jobs[j].got) /\ got[i] = jobs[j].got[i]
        <5>1. Stands(Plan[j][i], jobs[j].got[i])
          BY <1>1, <2>1, <2>6, <3>2, <4>6 DEF Lossless, Underway, Buying
        <5>2. Plan[j][i] \in Requests /\ jobs[j].got[i] \in Answers
          <6>1. jobs[j].got \in Seq(Answers) /\ Len(jobs[j].got) = jobs[j].next - 1
                /\ jobs[j].next \in 1..(Len(Plan[j]) + 1)
            BY <1>1, <1>3 DEF JobTyped, Underway, Buying
          <6>2. i \in 1..Len(Plan[j])
            BY <4>6, <6>1, PlanShape
          <6> QED BY <4>6, <6>1, <6>2, PlanShape
        <5>3. r = Plan[j][i] /\ b = jobs[j].got[i]
          BY <3>a, <3>2, <4>4, <4>6
        <5> QED BY <2>5, <5>1, <5>2, <5>3
      <4> QED BY <4>3, <4>4, <4>5, <4>6
    <3> QED BY <3>1, <3>2
  <2> QED BY <1>1, <2>4, <2>6 DEF Lossless
<1>17. audited => audited'
  BY <1>1
<1> QED BY <1>7, <1>11, <1>12, <1>13, <1>14, <1>15, <1>16, <1>17, OneJobMoves

(* The invariant of the archive holds at first: nothing is stored and nothing runs. *)
LEMMA ArchiveInitInv == ArchiveInit => ArchiveInv
<1> SUFFICES ASSUME ArchiveInit PROVE ArchiveInv
  OBVIOUS
<1>1. \A j \in Job : /\ jobs[j].pc = "idle" /\ jobs[j].next = 1
      /\ jobs[j].index = {} /\ jobs[j].spent = 0
                     /\ jobs[j].calls = 0 /\ jobs[j].expected = 0 /\ jobs[j].before = 0
  BY DEF ArchiveInit, Idle
<1>2. FilesTyped /\ ArchiveSound
  BY ArchiveAssumption DEF ArchiveInit, FilesTyped, ArchiveSound
<1>3. \A j \in Job : jobs[j].pc \notin Looking \cup Storing \cup Underway
  BY <1>1 DEF Looking, Storing, Underway, Buying
<1>4. ASSUME NEW j \in Job PROVE JobTyped(j)
  <2>1. 1 \in 1..(Len(Plan[j]) + 1)
    BY PlanShape
  <2> QED BY <1>1, <1>3, <2>1 DEF JobTyped
<1>5. \A j \in Job : Held(j) /\ Accepted(j)
  BY <1>1, <1>3 DEF Held, Accepted
<1>6. \A j \in Job : Budget(j)
  BY <1>1, ArchiveAssumption DEF Budget, Buying
<1>7. Orderly
  <2>1. OneRun
    BY <1>1 DEF OneRun, Running
  <2>2. \A j \in Job : Listed(j) /\ Reserved(j)
    BY <1>1 DEF Listed, Reserved, Looking, Buying, Running
  <2>3. \A r \in Requests : Paid(r)
    BY DEF ArchiveInit, Paid
  <2> QED BY <2>1, <2>2, <2>3 DEF Orderly, ArchiveInit
<1>8. Lossless
  BY <1>3 DEF Lossless, ArchiveInit
<1> QED BY <1>2, <1>4, <1>5, <1>6, <1>7, <1>8 DEF ArchiveInv

(* Every step of every run keeps the invariant of the archive. *)
LEMMA ArchiveStepInv == ArchiveInv /\ [ArchiveNext]_archiveVars => ArchiveInv'
<1> SUFFICES ASSUME ArchiveInv, [ArchiveNext]_archiveVars PROVE ArchiveInv'
  OBVIOUS
<1>1. ASSUME NEW j \in Job, Start(j) \/ JobStep(j) \/ FetchLost(j) \/ ProcessDies(j) PROVE ArchiveInv'
  BY <1>1, StartKeeps, UsageKeeps, PreflightKeeps, FindKeeps, PaidFetchKeeps, RefusedKeeps,
     WriteArtifactKeeps, WriteManifestKeeps, WritePointerKeeps, AccountKeeps, FetchLostKeeps, DiesKeeps
     DEF JobStep
<1>2. CASE UNCHANGED archiveVars
  <2> USE <1>2 DEF archiveVars, archive, history
  <2>1. FilesTyped' /\ ArchiveSound'
    BY DEF ArchiveInv, FilesTyped, ArchiveSound
  <2>2. FilesGrow
    BY DEF FilesGrow
  <2>3. \A j \in Job : JobTyped(j)' /\ Held(j)' /\ Budget(j)' /\ Accepted(j)'
    BY <2>1, <2>2, OthersKeep
  <2>4. overlapped' \/ Orderly'
    BY DEF ArchiveInv, Orderly, OneRun, Running, Listed, Reserved, Paid, Kept, Current, Over, Supersets
  <2>5. overlapped' \/ lostAnswers' \cup unlisted' # {} \/ Lossless'
    BY DEF ArchiveInv, Lossless, Named, Stands, Current
  <2> QED BY <2>1, <2>3, <2>4, <2>5 DEF ArchiveInv
<1> QED BY <1>1, <1>2 DEF ArchiveNext

(* What a build loads for a request is the answer that stands for it.               *)
LEMMA StandsIsLoaded ==
  ASSUME ArchiveInv, ~overlapped, lostAnswers \cup unlisted = {},
         NEW r \in Requests, NEW a \in Answers, Stands(r, a)
  PROVE  Loads(r) # {} /\ \A s \in Loads(r) : s[2] = a
<1>1. FilesTyped /\ ArchiveSound /\ Orderly /\ Lossless /\ a # Nothing
  BY ArchiveAssumption DEF ArchiveInv
<1>2. CASE pointer[r] = a
  <2>0. <<r, a>> \in artifacts
    BY <1>1, <1>2 DEF ArchiveSound
  <2>1. Exact(r) = {<<r, a>>}
    BY <1>1, <1>2, <2>0 DEF Exact
  <2>2. Loads(r) = {<<r, a>>}
    BY <2>1 DEF Loads, Cached
  <2> QED BY <2>2
<1>3. ASSUME pointer[r] = Nothing, NEW q \in Over(r), pointer[q] = a
      PROVE  Loads(r) # {} /\ \A s \in Loads(r) : s[2] = a
  <2>1. q \in Requests /\ q.at = r.at /\ r.markets \subseteq q.markets
    BY DEF Over
  <2>2. Loads(r) = Smallest(Supersets(r, manifests))
    BY <1>3 DEF Loads, Cached, Exact
  <2>3. <<q, a>> \in Supersets(r, manifests)
    BY <1>1, <1>3, <2>1 DEF ArchiveSound, Supersets
  <2>4. Supersets(r, manifests) \subseteq Stored
    BY <1>1 DEF Supersets, FilesTyped
  <2>5. Loads(r) # {}
    BY <2>2, <2>3, <2>4, SmallestExists
  <2>6. ASSUME NEW s \in Loads(r) PROVE s[2] = a
    <3>1. s \in manifests /\ s[1] \in Requests /\ s[2] \in Answers
          /\ s[1].at = r.at /\ r.markets \subseteq s[1].markets
      BY <2>2, <2>4 DEF Smallest, Supersets, Stored
    <3>2. s[2] # Nothing /\ r # q
      BY <1>1, <1>3, <3>1, ArchiveAssumption
    <3>3. s[1] = r \/ s[1] = q
      BY <2>1, <3>1, <3>2, RequestShape DEF FullMarkets, CloseMarkets
    <3>4. CASE pointer[s[1]] = s[2]
      BY <1>3, <3>2, <3>3, <3>4
    <3>5. ASSUME NEW e \in Job, jobs[e].pc = "pointer", s = <<Current(e), jobs[e].answer>> PROVE FALSE
      <4>1. \A o \in Over(s[1]) : pointer[o] = Nothing
        BY <1>1, <3>5 DEF Orderly, Listed, Buying
      <4>2. q \in Over(s[1])
        BY <2>1, <3>3, <1>3 DEF Over
      <4> QED BY <1>1, <1>3, <4>1, <4>2
    <3> QED BY <1>1, <3>1, <3>4, <3>5 DEF Lossless, Named
  <2> QED BY <2>5, <2>6
<1> QED BY <1>2, <1>3 DEF Stands

(* The invariant gives what the run checks. *)
LEMMA ArchiveInvSound == ArchiveInv => ArchiveSound /\ CreditsAccounted /\ FinishedPlanStands
<1> SUFFICES ASSUME ArchiveInv PROVE ArchiveSound /\ CreditsAccounted /\ FinishedPlanStands
  OBVIOUS
<1>1. ArchiveSound
  BY DEF ArchiveInv
<1>2. ArchiveTypeOK
  <2>1. pointer \in [Requests -> Answers \cup {Nothing}]
    BY DEF ArchiveInv, FilesTyped
  <2> QED BY <2>1 DEF ArchiveInv, FilesTyped, JobTyped, ArchiveTypeOK
<1>3. SpendWithinPreflight
  BY DEF ArchiveInv, Budget, SpendWithinPreflight
<1>4. ReserveKept
  BY DEF ArchiveInv, Orderly, ReserveKept
<1>5. PaidOnce
  BY DEF ArchiveInv, Orderly, Paid, PaidOnce
<1>6. FinishedPlanStands
  <2> SUFFICES ASSUME NEW j \in Job, jobs[j].pc = "done", Kind[j] = "market", NEW i \in DOMAIN Plan[j]
               PROVE  /\ jobs[j].got[i] # NoSnapshot /\ jobs[j].got[i] <= Plan[j][i].at
                      /\ overlapped \/ lostAnswers \cup unlisted # {}
                         \/ (Loads(Plan[j][i]) # {} /\ \A s \in Loads(Plan[j][i]) : s[2] = jobs[j].got[i])
    BY DEF FinishedPlanStands
  <2>1. jobs[j].got \in Seq(Answers) /\ Len(jobs[j].got) = Len(Plan[j]) /\ jobs[j].pc \in Underway
    BY PlanShape DEF ArchiveInv, JobTyped, Underway
  <2>2. i \in 1..Len(jobs[j].got) /\ Plan[j][i] \in Requests /\ jobs[j].got[i] \in Answers
    BY <2>1, PlanShape
  <2>3. Eligible(Plan[j][i], jobs[j].got[i])
    BY <2>1, <2>2 DEF ArchiveInv, Accepted
  <2>4. ASSUME ~overlapped, lostAnswers \cup unlisted = {} PROVE Stands(Plan[j][i], jobs[j].got[i])
    BY <2>1, <2>2, <2>4 DEF ArchiveInv, Lossless
  <2> QED BY <2>2, <2>3, <2>4, StandsIsLoaded DEF Eligible
<1> QED BY <1>1, <1>2, <1>3, <1>4, <1>5, <1>6 DEF CreditsAccounted

(* A pointer never names a manifest, nor a manifest an artifact, that is not there,  *)
(* whatever crashed between the three writes of historical_odds_audit.py's store.   *)
THEOREM ArchiveStaysSound == ArchiveSpec => []ArchiveSound
BY ArchiveInitInv, ArchiveStepInv, ArchiveInvSound, PTL DEF ArchiveSpec

(* Every credit is accounted for, whatever jobs overlap and crash.                  *)
THEOREM CreditsStayAccounted == ArchiveSpec => []CreditsAccounted
BY ArchiveInitInv, ArchiveStepInv, ArchiveInvSound, PTL DEF ArchiveSpec

(* What a finished market run has accepted is what a build of the dataset loads.    *)
THEOREM FinishedPlansStand == ArchiveSpec => []FinishedPlanStands
BY ArchiveInitInv, ArchiveStepInv, ArchiveInvSound, PTL DEF ArchiveSpec

-----------------------------------------------------------------------------
(* 4. What the research predictions have seen *)

(* What may inform a prediction of game g at horizon h: for the validation season what  *)
(* was available at the cutoff, for an earlier season nothing of the validation season. *)
Informs(k, g, h) ==
    /\ k \in Games
    /\ SeasonOf(g) = ValidationSeason =>
          Schedule[k].kickoff + OutcomeDelay <= Schedule[g].kickoff - AsOfBefore[h]
    /\ SeasonOf(g) # ValidationSeason => SeasonOf(k) # ValidationSeason

MayInform(g, h) == {k \in Games : Informs(k, g, h)}

RowSound(r) ==
    /\ r.game \in Games /\ r.horizon \in Horizons
    /\ r.inSample = FALSE
    /\ r.knows \subseteq MayInform(r.game, r.horizon)

Plain(r) == "pool" \notin DOMAIN r

PoolSound(r) ==
    /\ \A p \in r.pool : p.inSample = FALSE /\ p.horizon = r.horizon
    /\ Cardinality({p.game : p \in r.pool}) = Cardinality(r.pool)

PlainRows(rows) == \A r \in rows : RowSound(r) /\ Plain(r)
PooledRows(rows) == \A r \in rows : RowSound(r) /\ (Plain(r) \/ PoolSound(r))

ResearchInv ==
    /\ DOMAIN research = Stages
    /\ \A s \in {"baseline", "strong", "preseason"} : Has(s) => PlainRows(research[s])
    /\ \A s \in {"probability", "aware"} : Has(s) => PooledRows(research[s])
    /\ Has("comparison") => \A r \in research["comparison"] : r.game \in Games

(* The numbers of the assumptions.                                                *)
LEMMA Calendar ==
  /\ FirstSeason \in Int /\ FirstFold \in Int /\ ValidationSeason \in Int
  /\ FirstSeason < FirstFold /\ FirstCalibration \in Int /\ FirstFold < FirstCalibration
  /\ OutcomeDelay \in Nat /\ \A h \in Horizons : AsOfBefore[h] \in Nat
  /\ MorningHorizon \in Horizons /\ IsFiniteSet(Games)
  /\ \A g \in Games :
        /\ SeasonOf(g) \in Int /\ FirstSeason <= SeasonOf(g) /\ SeasonOf(g) <= ValidationSeason
        /\ Schedule[g].kickoff \in Int
BY WalkForwardAssumption

(* A game of no validation season may inform every prediction.                    *)
LEMMA EarlierSeasonInforms ==
  ASSUME NEW k \in Games, NEW g \in Games, NEW h \in Horizons, SeasonOf(k) # ValidationSeason
  PROVE  k \in MayInform(g, h)
<1>1. SeasonOf(g) = ValidationSeason => SeasonOf(k) < SeasonOf(g)
  BY Calendar
<1>2. QED
  BY <1>1, RestAssumption DEF MayInform, Informs

(* Of an earlier season than a game of the schedule is not the validation season.     *)
LEMMA EarlierSeason ==
  ASSUME NEW k \in Games, NEW g \in Games, SeasonOf(k) < SeasonOf(g)
  PROVE  SeasonOf(k) # ValidationSeason
BY Calendar

(* A fold's training games may inform the predictions of its season, and are not its  *)
(* games.                                                                         *)
LEMMA TrainInforms ==
  ASSUME NEW g \in Games, NEW h \in Horizons
  PROVE  /\ Train(SeasonOf(g)) \subseteq MayInform(g, h)
         /\ g \notin Train(SeasonOf(g))
         /\ \A t \in Train(SeasonOf(g)) : t \in Games /\ SeasonOf(t) < SeasonOf(g)
<1>1. \A t \in Train(SeasonOf(g)) : t \in Games /\ SeasonOf(t) < SeasonOf(g)
  BY Calendar DEF Train, GamesOf
<1>2. QED
  BY <1>1, Calendar, EarlierSeason, EarlierSeasonInforms

(* The choice of hyperparameters looks at no result of the validation season.       *)
LEMMA ChosenInforms ==
  ASSUME NEW end \in Int, end <= ValidationSeason, NEW g \in Games, NEW h \in Horizons
  PROVE  Chosen(end) \subseteq MayInform(g, h)
<1>1. ASSUME NEW k \in Chosen(end) PROVE k \in Games /\ SeasonOf(k) # ValidationSeason
  <2>1. PICK s \in SelectionSeasons(end) : k \in Train(s) \cup GamesOf({s})
    BY <1>1 DEF Chosen
  <2>2. s \in Int /\ s < ValidationSeason
    BY Calendar DEF SelectionSeasons
  <2>3. k \in Games /\ SeasonOf(k) <= s
    BY <2>1, <2>2, Calendar DEF Train, GamesOf
  <2>4. QED
    BY <2>2, <2>3, Calendar
<1>2. QED
  BY <1>1, EarlierSeasonInforms

-----------------------------------------------------------------------------
(* Ratings *)

(* What one function says of a game by what it says of the earlier ones.             *)
Step(f, g) == EarlierOf(g) \cup UNION {f[p] : p \in EarlierOf(g)}

(* A function that says more, says more in its step.                                *)
LEMMA StepMonotone ==
  ASSUME NEW f, NEW e, NEW g \in Games, \A p \in Games : f[p] \subseteq e[p]
  PROVE  Step(f, g) \subseteq Step(e, g)
<1>1. EarlierOf(g) \subseteq Games
  BY DEF EarlierOf
<1> SUFFICES ASSUME NEW k \in Step(f, g) PROVE k \in Step(e, g)
  OBVIOUS
<1>2. CASE k \in EarlierOf(g)
  BY <1>2 DEF Step
<1>3. CASE k \notin EarlierOf(g)
  <2>1. PICK p \in EarlierOf(g) : k \in f[p]
    BY <1>3 DEF Step
  <2>2. k \in e[p]
    BY <1>1, <2>1
  <2>3. QED
    BY <2>2 DEF Step
<1>4. QED
  BY <1>2, <1>3

(* The ratings' equation has a solution: the least function that contains each of    *)
(* its steps.                                                                     *)
LEMMA RatedEquation == RatedBy = [g \in Games |-> Step(RatedBy, g)]
<1> DEFINE F == [Games -> SUBSET Games]
           Closed(f) == \A g \in Games : Step(f, g) \subseteq f[g]
           all == {f \in F : Closed(f)}
           least == [g \in Games |-> {k \in Games : \A f \in all : k \in f[g]}]
<1>1. \A g \in Games : EarlierOf(g) \subseteq Games
  BY DEF EarlierOf
<1>2. least \in F
  OBVIOUS
<1>3. \A f \in all, g \in Games : least[g] \subseteq f[g]
  OBVIOUS
<1>4. \A g \in Games : Step(least, g) \subseteq least[g]
  <2> SUFFICES ASSUME NEW g \in Games, NEW k \in Step(least, g) PROVE k \in least[g]
    OBVIOUS
  <2>1. k \in Games
    BY <1>1, <1>2 DEF Step
  <2>2. ASSUME NEW f \in all PROVE k \in f[g]
    <3>1. Step(least, g) \subseteq Step(f, g)
      <4>1. \A p \in Games : least[p] \subseteq f[p]
        BY <1>3
      <4> HIDE DEF least
      <4>2. QED
        BY <4>1, StepMonotone
    <3>2. Step(f, g) \subseteq f[g]
      BY <2>2
    <3>3. QED
      BY <3>1, <3>2
  <2>3. QED
    BY <2>1, <2>2
<1>5. \A g \in Games : least[g] \subseteq Step(least, g)
  <2> DEFINE next == [g \in Games |-> Step(least, g)]
  <2>1. next \in F
    <3>1. \A g \in Games : Step(least, g) \subseteq Games
      BY <1>2, <1>4
    <3>2. QED
      BY <3>1
  <2>2. \A g \in Games : next[g] \subseteq least[g]
    BY <1>4
  <2>3. \A g \in Games : Step(next, g) \subseteq next[g]
    <3>1. \A g \in Games : Step(next, g) \subseteq Step(least, g)
      <4> HIDE DEF next, least
      <4>1. QED
        BY <2>2, StepMonotone
    <3>2. QED
      BY <3>1
  <2>4. next \in all
    BY <2>1, <2>3
  <2>5. QED
    BY <1>3, <2>4
<1>6. least = [g \in Games |-> Step(least, g)]
  BY <1>4, <1>5
<1> HIDE DEF least
<1>7. \E f : f = [g \in Games |-> EarlierOf(g) \cup UNION {f[p] : p \in EarlierOf(g)}]
  BY <1>6 DEF Step
<1>8. RatedBy = [g \in Games |-> EarlierOf(g) \cup UNION {RatedBy[p] : p \in EarlierOf(g)}]
  BY <1>7 DEF RatedBy
<1>9. QED
  BY <1>8 DEF Step

(* An earlier game of a team is of the same season or an earlier one, and its result  *)
(* is available at every cutoff of the later one.                                  *)
LEMMA EarlierRests ==
  ASSUME NEW g \in Games, NEW p \in EarlierOf(g)
  PROVE  /\ p \in Games /\ SeasonOf(p) <= SeasonOf(g)
         /\ Schedule[p].kickoff < Schedule[g].kickoff
         /\ \A h \in Horizons :
               Schedule[p].kickoff + OutcomeDelay <= Schedule[g].kickoff - AsOfBefore[h]
<1>1. p \in Games /\ Schedule[p].kickoff < Schedule[g].kickoff /\ SharedTeam(p, g)
  BY DEF EarlierOf
<1>2. ASSUME SeasonOf(g) < SeasonOf(p) PROVE FALSE
  BY <1>1, <1>2, Calendar, RestAssumption
<1>3. QED
  BY <1>1, <1>2, Calendar, RestAssumption

(* The same of every game a rating rests on, through however many opponents.         *)
LEMMA RatedRests ==
  ASSUME NEW g \in Games, NEW k \in Rated[g]
  PROVE  /\ k \in Games /\ SeasonOf(k) <= SeasonOf(g)
         /\ \A h \in Horizons :
               Schedule[k].kickoff + OutcomeDelay <= Schedule[g].kickoff - AsOfBefore[h]
<1> DEFINE Good(x) ==
             \A y \in RatedBy[x] :
                /\ y \in Games /\ SeasonOf(y) <= SeasonOf(x)
                /\ \A h \in Horizons :
                      Schedule[y].kickoff + OutcomeDelay <= Schedule[x].kickoff - AsOfBefore[h]
           bad == {x \in Games : ~Good(x)}
           times == {Schedule[x].kickoff : x \in bad}
<1>1. bad = {}
  <2> SUFFICES ASSUME bad # {} PROVE FALSE
    OBVIOUS
  <2>1. PICK x \in bad : \A y \in bad : Schedule[x].kickoff <= Schedule[y].kickoff
    <3>1. times \in SUBSET Int /\ times # {}
      BY Calendar
    <3>2. IsFiniteSet(times)
      <4> HIDE DEF Good
      <4>1. IsFiniteSet(bad)
        BY Calendar, FS_Subset
      <4> DEFINE f == [y \in bad |-> Schedule[y].kickoff]
      <4>2. f \in Surjection(bad, times)
        BY DEF Surjection
      <4> HIDE DEF f, bad, times
      <4>3. QED
        BY <4>1, <4>2, FS_Surjection
    <3> HIDE DEF bad
    <3>3. QED
      <4> HIDE DEF times
      <4>1. PICK t \in times : \A u \in times : t <= u
        BY <3>1, <3>2, LeastOf
      <4>2. QED
        BY <4>1 DEF times
  <2>2. x \in Games /\ RatedBy[x] = EarlierOf(x) \cup UNION {RatedBy[p] : p \in EarlierOf(x)}
    BY RatedEquation DEF Step
  <2>3. ASSUME NEW p \in EarlierOf(x) PROVE Good(p)
    <3>1. p \in Games /\ Schedule[p].kickoff < Schedule[x].kickoff
      BY <2>2, EarlierRests
    <3>2. p \notin bad
      BY <2>1, <2>2, <3>1, Calendar
    <3>3. QED
      BY <3>1, <3>2
  <2>4. Good(x)
    <3> SUFFICES ASSUME NEW y \in RatedBy[x]
                 PROVE  /\ y \in Games /\ SeasonOf(y) <= SeasonOf(x)
                        /\ \A h \in Horizons :
                              Schedule[y].kickoff + OutcomeDelay
                                <= Schedule[x].kickoff - AsOfBefore[h]
      OBVIOUS
    <3>1. CASE y \in EarlierOf(x)
      BY <2>2, <3>1, EarlierRests
    <3>2. CASE y \notin EarlierOf(x)
      <4>1. PICK p \in EarlierOf(x) : y \in RatedBy[p]
        BY <2>2, <3>2
      <4>2. /\ p \in Games /\ SeasonOf(p) <= SeasonOf(x)
            /\ Schedule[p].kickoff < Schedule[x].kickoff
        BY <2>2, EarlierRests
      <4>3. /\ y \in Games /\ SeasonOf(y) <= SeasonOf(p)
            /\ \A h \in Horizons :
                  Schedule[y].kickoff + OutcomeDelay <= Schedule[p].kickoff - AsOfBefore[h]
        BY <2>3, <4>1
      <4>4. QED
        BY <2>2, <4>2, <4>3, Calendar
    <3>3. QED
      BY <3>1, <3>2
  <2>5. QED
    BY <2>1, <2>4
<1>2. k \in RatedBy[g]
  BY DEF Rated
<1>3. Good(g)
  BY <1>1
<1>4. QED
  BY <1>2, <1>3

(* What a rating rests on may inform the prediction that uses it.                     *)
LEMMA RatedInforms ==
  ASSUME NEW g \in Games, NEW h \in Horizons
  PROVE  Rated[g] \subseteq MayInform(g, h)
<1> SUFFICES ASSUME NEW k \in Rated[g] PROVE k \in MayInform(g, h)
  OBVIOUS
<1>1. k \in Games /\ SeasonOf(k) <= SeasonOf(g)
  BY RatedRests
<1>2. Schedule[k].kickoff + OutcomeDelay <= Schedule[g].kickoff - AsOfBefore[h]
  BY RatedRests
<1>3. QED
  BY <1>1, <1>2, Calendar DEF MayInform, Informs

-----------------------------------------------------------------------------
(* Rows *)

(* A row is sound when its fit and its choices may inform it.                         *)
LEMMA PredictionSound ==
  ASSUME NEW name, NEW g \in Games, NEW h \in Horizons,
         NEW fit, NEW others, g \notin fit,
         fit \subseteq MayInform(g, h), others \subseteq MayInform(g, h)
  PROVE  /\ RowSound(Prediction(name, g, h, fit, others))
         /\ Plain(Prediction(name, g, h, fit, others))
<1> DEFINE r == Prediction(name, g, h, fit, others)
<1>1. DOMAIN r = {"candidate", "game", "horizon", "inSample", "knows"}
  BY DEF Prediction
<1>2. /\ r.game = g /\ r.horizon = h /\ r.inSample = (g \in fit)
      /\ r.knows = fit \cup others
  BY DEF Prediction
<1> HIDE DEF r
<1>3. r.inSample = FALSE
  <2>1. (g \in fit) = FALSE
    OBVIOUS
  <2>2. QED
    BY <1>2, <2>1, Zenon
<1>4. RowSound(r)
  BY <1>2, <1>3 DEF RowSound
<1>5. Plain(r)
  BY <1>1 DEF Plain
<1>6. QED
  BY <1>4, <1>5 DEF r

(* The rows of a fold are of games of its seasons.                                *)
LEMMA OfSeasons == \A seasons : GamesOf(seasons) \subseteq Games
BY DEF GamesOf

(* Averages are of training games.                                                *)
LEMMA NaiveSound ==
  ASSUME NEW seasons, NEW horizons, horizons \subseteq Horizons
  PROVE  PlainRows(NaiveRows(seasons, horizons))
<1> SUFFICES ASSUME NEW r \in NaiveRows(seasons, horizons) PROVE RowSound(r) /\ Plain(r)
  BY DEF PlainRows
<1>1. PICK g \in GamesOf(seasons), h \in horizons :
         r = Prediction("naive", g, h, Train(SeasonOf(g)), {})
  BY DEF NaiveRows, RowsOver
<1>2. g \in Games /\ h \in Horizons
  BY OfSeasons
<1>3. QED
  BY <1>1, <1>2, TrainInforms, PredictionSound

(* The tournament's rows (run_tournament).                                         *)
LEMMA BaselineSound ==
  ASSUME NEW end \in EndSeasons, NEW horizons \in HorizonChoices
  PROVE  PlainRows(BaselineRows(end, horizons))
<1> DEFINE seasons == {s \in FoldSeasons : s <= end}
<1>1. end \in Int /\ end <= ValidationSeason /\ horizons \subseteq Horizons
  BY ChoiceAssumption
<1> SUFFICES ASSUME NEW r \in BaselineRows(end, horizons) PROVE RowSound(r) /\ Plain(r)
  BY DEF PlainRows
<1>2. CASE r \in NaiveRows(seasons, horizons)
  <2> HIDE DEF seasons
  <2>1. QED
    BY <1>1, <1>2, NaiveSound DEF PlainRows
<1>3. ASSUME NEW g \in GamesOf(seasons), NEW h \in horizons,
             r = Prediction("elo", g, h, {}, Rated[g])
      PROVE  RowSound(r) /\ Plain(r)
  <2>1. g \in Games /\ h \in Horizons
    BY <1>1, OfSeasons
  <2>2. QED
    BY <1>3, <2>1, RatedInforms, PredictionSound
<1>4. ASSUME NEW g \in GamesOf(seasons), NEW h \in horizons,
             r = Prediction("ridge", g, h, Train(SeasonOf(g)), Chosen(end))
      PROVE  RowSound(r) /\ Plain(r)
  <2>1. g \in Games /\ h \in Horizons
    BY <1>1, OfSeasons
  <2>2. QED
    BY <1>1, <1>4, <2>1, TrainInforms, ChosenInforms, PredictionSound
<1>5. \/ r \in NaiveRows(seasons, horizons)
      \/ \E g \in GamesOf(seasons), h \in horizons : r = Prediction("elo", g, h, {}, Rated[g])
      \/ \E g \in GamesOf(seasons), h \in horizons :
            r = Prediction("ridge", g, h, Train(SeasonOf(g)), Chosen(end))
  BY DEF BaselineRows, RowsOver
<1>6. QED
  BY <1>2, <1>3, <1>4, <1>5

(* The trees' rows (run_strong_model_tournament).                                   *)
LEMMA StrongSound ==
  ASSUME NEW horizons \in HorizonChoices
  PROVE  PlainRows(StrongRows(horizons))
<1>1. horizons \subseteq Horizons /\ ValidationSeason \in Int
  BY ChoiceAssumption, Calendar
<1> SUFFICES ASSUME NEW r \in StrongRows(horizons) PROVE RowSound(r) /\ Plain(r)
  BY DEF PlainRows
<1>2. PICK g \in GamesOf(FoldSeasons), h \in horizons :
         r = Prediction("tree", g, h, Train(SeasonOf(g)), Chosen(ValidationSeason))
  BY DEF StrongRows, RowsOver
<1>3. g \in Games /\ h \in Horizons
  BY <1>1, OfSeasons
<1>4. Chosen(ValidationSeason) \subseteq MayInform(g, h)
  BY <1>1, <1>3, ChosenInforms
<1>5. QED
  BY <1>2, <1>3, <1>4, TrainInforms, PredictionSound

(* The preseason models' rows: the ratings of training games are of no later season.   *)
LEMMA PreseasonSound ==
  ASSUME NEW horizons \in HorizonChoices
  PROVE  PlainRows(PreseasonRows(horizons))
<1>1. horizons \subseteq Horizons
  BY ChoiceAssumption
<1> SUFFICES ASSUME NEW r \in PreseasonRows(horizons) PROVE RowSound(r) /\ Plain(r)
  BY DEF PlainRows
<1>2. ASSUME NEW g \in GamesOf(FoldSeasons), NEW h \in horizons,
             r = Prediction("ridge_preseason", g, h, Train(SeasonOf(g)), {})
      PROVE  RowSound(r) /\ Plain(r)
  <2>1. g \in Games /\ h \in Horizons
    BY <1>1, OfSeasons
  <2>2. QED
    BY <1>2, <2>1, TrainInforms, PredictionSound
<1>3. ASSUME NEW g \in GamesOf(FoldSeasons), NEW h \in horizons,
             r = Prediction("power_preseason", g, h, Train(SeasonOf(g)),
                            Rated[g] \cup UNION {Rated[t] : t \in Train(SeasonOf(g))})
      PROVE  RowSound(r) /\ Plain(r)
  <2> DEFINE others == Rated[g] \cup UNION {Rated[t] : t \in Train(SeasonOf(g))}
  <2>1. g \in Games /\ h \in Horizons
    BY <1>1, OfSeasons
  <2>2. ASSUME NEW t \in Train(SeasonOf(g)), NEW k \in Rated[t] PROVE k \in MayInform(g, h)
    <3>1. t \in Games /\ SeasonOf(t) < SeasonOf(g)
      BY <2>1, TrainInforms
    <3>2. k \in Games /\ SeasonOf(k) <= SeasonOf(t)
      BY <3>1, RatedRests
    <3>3. SeasonOf(k) < SeasonOf(g)
      BY <2>1, <3>1, <3>2, Calendar
    <3>4. QED
      BY <2>1, <3>2, <3>3, EarlierSeason, EarlierSeasonInforms
  <2>3. Rated[g] \subseteq MayInform(g, h)
    BY <2>1, RatedInforms
  <2>4. others \subseteq MayInform(g, h)
    BY <2>2, <2>3
  <2> HIDE DEF others
  <2>5. r = Prediction("power_preseason", g, h, Train(SeasonOf(g)), others)
    BY <1>3 DEF others
  <2>6. QED
    BY <2>1, <2>4, <2>5, TrainInforms, PredictionSound
<1>4. \/ \E g \in GamesOf(FoldSeasons), h \in horizons :
            r = Prediction("ridge_preseason", g, h, Train(SeasonOf(g)), {})
      \/ \E g \in GamesOf(FoldSeasons), h \in horizons :
            r = Prediction("power_preseason", g, h, Train(SeasonOf(g)),
                           Rated[g] \cup UNION {Rated[t] : t \in Train(SeasonOf(g))})
  BY DEF PreseasonRows, RowsOver
<1>5. QED
  BY <1>2, <1>3, <1>4

(* A pool of earlier seasons adds nothing that may not inform, and is of its own       *)
(* model's residuals out of sample, one for a game.                                 *)
LEMMA CalibratedSound ==
  ASSUME NEW rows, \A x \in rows : RowSound(x), NEW r \in rows
  PROVE  RowSound(Calibrated(rows, r)) /\ PoolSound(Calibrated(rows, r))
<1> DEFINE pool == PoolOf(rows, r)
           residuals == {[game |-> p.game, horizon |-> p.horizon, inSample |-> p.inSample] :
                            p \in pool}
           knows == r.knows \cup {p.game : p \in pool} \cup UNION {p.knows : p \in pool}
           c == Calibrated(rows, r)
<1>1. /\ c.game = r.game /\ c.horizon = r.horizon /\ c.inSample = r.inSample
      /\ c.knows = knows /\ c.pool = residuals
  BY DEF Calibrated
<1> HIDE DEF c
<1>2. /\ r.game \in Games /\ r.horizon \in Horizons /\ r.inSample = FALSE
      /\ r.knows \subseteq MayInform(r.game, r.horizon)
  BY DEF RowSound
<1>3. ASSUME NEW p \in pool
      PROVE  /\ p.game \in Games /\ p.horizon = r.horizon /\ p.inSample = FALSE
             /\ SeasonOf(p.game) < SeasonOf(r.game)
             /\ p.knows \subseteq MayInform(p.game, p.horizon)
  BY DEF PoolOf, RowSound
<1> HIDE DEF pool
<1>4. ASSUME NEW p \in pool
      PROVE  /\ p.game \in MayInform(r.game, r.horizon)
             /\ p.knows \subseteq MayInform(r.game, r.horizon)
  <2>1. SeasonOf(p.game) # ValidationSeason
    BY <1>2, <1>3, EarlierSeason
  <2>2. p.game \in MayInform(r.game, r.horizon)
    BY <1>2, <1>3, <2>1, EarlierSeasonInforms
  <2>3. ASSUME NEW k \in p.knows PROVE k \in MayInform(r.game, r.horizon)
    <3>1. k \in Games /\ SeasonOf(k) # ValidationSeason
      BY <1>3, <2>1 DEF MayInform, Informs
    <3>2. QED
      BY <1>2, <3>1, EarlierSeasonInforms
  <2>4. QED
    BY <2>2, <2>3
<1>5. knows \subseteq MayInform(r.game, r.horizon)
  BY <1>2, <1>4
<1>6. RowSound(c)
  BY <1>1, <1>2, <1>5 DEF RowSound
<1>7. ASSUME NEW p \in residuals
      PROVE  /\ p.game \in Games /\ p.inSample = FALSE /\ p.horizon = r.horizon
             /\ p = [game |-> p.game, horizon |-> r.horizon, inSample |-> FALSE]
  <2>1. PICK q \in pool : p = [game |-> q.game, horizon |-> q.horizon, inSample |-> q.inSample]
    OBVIOUS
  <2>2. p.game = q.game /\ p.horizon = q.horizon /\ p.inSample = q.inSample
    BY <2>1
  <2>3. QED
    BY <1>3, <2>1, <2>2
<1> HIDE DEF residuals
<1>8. Cardinality({p.game : p \in residuals}) = Cardinality(residuals)
  <2> DEFINE games == {p.game : p \in residuals}
             f == [g \in games |-> [game |-> g, horizon |-> r.horizon, inSample |-> FALSE]]
  <2>2. IsFiniteSet(games)
    <3>1. games \subseteq Games
      BY <1>7
    <3>2. QED
      BY <3>1, Calendar, FS_Subset
  <2>3. \A g \in games : f[g] \in residuals /\ f[g].game = g
    BY <1>7
  <2>4. \A p \in residuals : p.game \in games /\ f[p.game] = p
    BY <1>7
  <2>5. f \in Bijection(games, residuals)
    <3>1. DOMAIN f = games
      OBVIOUS
    <3> HIDE DEF games
    <3>2. f \in [games -> residuals]
      BY <2>3
    <3> HIDE DEF f
    <3>3. f \in Injection(games, residuals)
      <4>1. \A a, b \in games : f[a] = f[b] => a = b
        BY <2>3
      <4>2. QED
        BY <3>2, <4>1 DEF Injection, IsInjective
    <3>4. f \in Surjection(games, residuals)
      <4>1. \A p \in residuals : \E g \in games : f[g] = p
        BY <2>4
      <4>2. QED
        BY <3>2, <4>1 DEF Surjection
    <3>5. QED
      BY <3>3, <3>4 DEF Bijection
  <2> HIDE DEF f, games
  <2>6. ExistsBijection(games, residuals)
    BY <2>5 DEF ExistsBijection
  <2>7. QED
    BY <2>2, <2>6, FS_Bijection DEF games
<1>9. PoolSound(c)
  BY <1>1, <1>7, <1>8 DEF PoolSound
<1>10. QED
  BY <1>6, <1>9 DEF c

(* The calibrated rows (build_probability_rows).                                    *)
LEMMA ProbabilitySound ==
  ASSUME NEW rows, PlainRows(rows), NEW end
  PROVE  PooledRows(ProbabilityRows(rows, end))
<1>1. \A x \in SelectedRows(rows, end) : RowSound(x)
  BY DEF SelectedRows, PlainRows
<1>2. ASSUME NEW r \in SelectedRows(rows, end)
      PROVE  /\ RowSound(Calibrated(SelectedRows(rows, end), r))
             /\ PoolSound(Calibrated(SelectedRows(rows, end), r))
  BY <1>1, CalibratedSound
<1>3. QED
  BY <1>2 DEF ProbabilityRows, PooledRows

(* What the market-aware tournament predicts before it calibrates.                 *)
LEMMA NewSound ==
  ASSUME NEW markets, markets \subseteq Games
  PROVE  PlainRows(NewRows(markets))
<1> SUFFICES ASSUME NEW r \in NewRows(markets) PROVE RowSound(r) /\ Plain(r)
  BY DEF PlainRows
<1>1. PICK g \in markets :
         r = Prediction("market_ridge", g, MorningHorizon,
                        {t \in markets : SeasonOf(t) < SeasonOf(g)}, {})
  BY DEF NewRows
<1> DEFINE fit == {t \in markets : SeasonOf(t) < SeasonOf(g)}
<1>2. g \in Games /\ MorningHorizon \in Horizons
  BY Calendar
<1>3. \A t \in fit : t \in MayInform(g, MorningHorizon)
  BY <1>2, EarlierSeason, EarlierSeasonInforms
<1>4. g \notin fit
  BY <1>2, Calendar
<1> HIDE DEF fit
<1>5. r = Prediction("market_ridge", g, MorningHorizon, fit, {})
  BY <1>1 DEF fit
<1>6. QED
  BY <1>2, <1>3, <1>4, <1>5, PredictionSound

(* A blend has seen what its pairs of earlier seasons have seen (_blend_rows).          *)
LEMMA BlendsSound ==
  ASSUME NEW football, PlainRows(football), \A x \in football : x.horizon = MorningHorizon
  PROVE  PlainRows(Blends(football))
<1> SUFFICES ASSUME NEW b \in Blends(football) PROVE RowSound(b) /\ Plain(b)
  BY DEF PlainRows
<1>1. PICK r \in football :
         b = Prediction("blend_" \o r.candidate, r.game, MorningHorizon,
                        {p.game : p \in BlendTraining(football, r)},
                        r.knows \cup UNION {p.knows : p \in BlendTraining(football, r)})
  BY DEF Blends
<1> DEFINE training == BlendTraining(football, r)
           fit == {p.game : p \in training}
           others == r.knows \cup UNION {p.knows : p \in training}
<1>2. /\ r.game \in Games /\ MorningHorizon \in Horizons
      /\ r.knows \subseteq MayInform(r.game, MorningHorizon)
  BY Calendar DEF PlainRows, RowSound
<1>3. ASSUME NEW p \in training
      PROVE  /\ p.game \in Games /\ SeasonOf(p.game) < SeasonOf(r.game)
             /\ p.knows \subseteq MayInform(p.game, p.horizon)
  BY DEF BlendTraining, PlainRows, RowSound
<1> HIDE DEF training
<1>4. ASSUME NEW p \in training
      PROVE  /\ p.game \in MayInform(r.game, MorningHorizon) /\ p.game # r.game
             /\ p.knows \subseteq MayInform(r.game, MorningHorizon)
  <2>1. SeasonOf(p.game) # ValidationSeason /\ p.game # r.game
    BY <1>2, <1>3, EarlierSeason, Calendar
  <2>2. p.game \in MayInform(r.game, MorningHorizon)
    BY <1>2, <1>3, <2>1, EarlierSeasonInforms
  <2>3. ASSUME NEW k \in p.knows PROVE k \in MayInform(r.game, MorningHorizon)
    <3>1. k \in Games /\ SeasonOf(k) # ValidationSeason
      BY <1>3, <2>1 DEF MayInform, Informs
    <3>2. QED
      BY <1>2, <3>1, EarlierSeasonInforms
  <2>4. QED
    BY <2>1, <2>2, <2>3
<1>5. /\ fit \subseteq MayInform(r.game, MorningHorizon) /\ r.game \notin fit
      /\ others \subseteq MayInform(r.game, MorningHorizon)
  BY <1>2, <1>4
<1> HIDE DEF fit, others
<1>6. b = Prediction("blend_" \o r.candidate, r.game, MorningHorizon, fit, others)
  BY <1>1 DEF fit, others, training
<1>7. QED
  BY <1>2, <1>5, <1>6, PredictionSound

(* All rows of the market-aware tournament.                                         *)
LEMMA AwareSound ==
  ASSUME NEW comparison, \A x \in comparison : x.game \in Games, NEW rows, PlainRows(rows)
  PROVE  PooledRows(AwareRows(comparison, rows))
<1> DEFINE markets == QuotedGames(comparison)
           football == FootballRows(markets, rows)
           forecasts == {Prediction("market", g, MorningHorizon, {}, {}) : g \in markets}
                       \cup football \cup NewRows(markets) \cup Blends(football)
<1>1. markets \subseteq Games
  BY DEF QuotedGames
<1>2. PlainRows(football) /\ \A x \in football : x.horizon = MorningHorizon
  BY DEF FootballRows, PlainRows
<1>3. PlainRows({Prediction("market", g, MorningHorizon, {}, {}) : g \in markets})
  <2>1. ASSUME NEW g \in markets
        PROVE  /\ RowSound(Prediction("market", g, MorningHorizon, {}, {}))
               /\ Plain(Prediction("market", g, MorningHorizon, {}, {}))
    <3>1. g \in Games /\ MorningHorizon \in Horizons
      BY <1>1, Calendar
    <3>2. QED
      BY <3>1, PredictionSound
  <2>2. QED
    BY <2>1 DEF PlainRows
<1> HIDE DEF markets, football
<1>4. PlainRows(NewRows(markets)) /\ PlainRows(Blends(football))
  BY <1>1, <1>2, NewSound, BlendsSound
<1>5. PlainRows(forecasts)
  BY <1>2, <1>3, <1>4 DEF PlainRows
<1> HIDE DEF forecasts
<1>6. \A x \in forecasts : RowSound(x)
  BY <1>5 DEF PlainRows
<1>7. \A r \in forecasts : RowSound(Calibrated(forecasts, r)) /\ PoolSound(Calibrated(forecasts, r))
  BY <1>6, CalibratedSound
<1>8. AwareRows(comparison, rows)
        = forecasts \cup {Calibrated(forecasts, r) : r \in {x \in forecasts :
                         Cardinality(PoolOf(forecasts, x)) >= MinPool}}
  BY DEF AwareRows, forecasts, football, markets
<1>9. QED
  BY <1>5, <1>7, <1>8 DEF PooledRows, PlainRows

-----------------------------------------------------------------------------
(* The commands *)

(* Initially there is no file.                                                     *)
LEMMA ResearchInitSound == ResearchInit => ResearchInv
<1> SUFFICES ASSUME ResearchInit PROVE ResearchInv
  OBVIOUS
<1>1. DOMAIN research = Stages /\ \A s \in Stages : ~Has(s)
  BY DEF ResearchInit, Has
<1>2. {"baseline", "strong", "preseason", "probability", "aware", "comparison"} \subseteq Stages
  BY DEF Stages
<1>3. QED
  BY <1>1, <1>2 DEF ResearchInv

(* A command overwrites the file of its stage and no other.                        *)
LEMMA WritesKeepsInv ==
  ASSUME ResearchInv, NEW stage \in Stages, NEW rows, Writes(stage, rows),
         stage \in {"baseline", "strong", "preseason"} => PlainRows(rows),
         stage \in {"probability", "aware"} => PooledRows(rows),
         stage = "comparison" => \A r \in rows : r.game \in Games
  PROVE  ResearchInv'
<1>1. /\ DOMAIN research = Stages /\ DOMAIN research' = Stages
      /\ research'[stage] = rows
      /\ \A s \in Stages : s # stage => research'[s] = research[s]
  BY DEF ResearchInv, Writes
<1>2. \A s \in Stages : s # stage => (Has(s)' <=> Has(s))
  BY <1>1 DEF Has
<1>3. ASSUME NEW s \in {"baseline", "strong", "preseason"}, Has(s)' PROVE PlainRows(research'[s])
  <2>1. s \in Stages
    BY DEF Stages
  <2>2. QED
    BY <1>1, <1>2, <1>3, <2>1 DEF ResearchInv
<1>4. ASSUME NEW s \in {"probability", "aware"}, Has(s)' PROVE PooledRows(research'[s])
  <2>1. s \in Stages
    BY DEF Stages
  <2>2. QED
    BY <1>1, <1>2, <1>4, <2>1 DEF ResearchInv
<1>5. ASSUME Has("comparison")' PROVE \A r \in research'["comparison"] : r.game \in Games
  <2>1. "comparison" \in Stages
    BY DEF Stages
  <2>2. QED
    BY <1>1, <1>2, <1>5, <2>1 DEF ResearchInv
<1>6. /\ \A s \in {"baseline", "strong", "preseason"} : Has(s)' => PlainRows(research[s])'
      /\ \A s \in {"probability", "aware"} : Has(s)' => PooledRows(research[s])'
      /\ Has("comparison")' => \A r \in research'["comparison"] : r.game \in Games
  BY <1>3, <1>4, <1>5 DEF PlainRows, PooledRows
<1>7. QED
  BY <1>1, <1>6 DEF ResearchInv

(* Every command keeps the invariant.                                               *)
LEMMA ResearchStep == ResearchInv /\ [ResearchNext]_researchVars => ResearchInv'
<1> SUFFICES ASSUME ResearchInv, [ResearchNext]_researchVars PROVE ResearchInv'
  OBVIOUS
<1>1. CASE UNCHANGED researchVars
  BY <1>1 DEF ResearchInv, researchVars, Has, PlainRows, PooledRows
<1>2. CASE RunTournament
  <2>1. PICK end \in EndSeasons, horizons \in HorizonChoices :
           Writes("baseline", BaselineRows(end, horizons))
    BY <1>2 DEF RunTournament
  <2>2. PlainRows(BaselineRows(end, horizons))
    BY BaselineSound
  <2>3. QED
    BY <2>1, <2>2, WritesKeepsInv DEF Stages
<1>3. CASE RunStrongModels
  <2>1. PICK horizons \in HorizonChoices : Writes("strong", StrongRows(horizons))
    BY <1>3 DEF RunStrongModels
  <2>2. PlainRows(StrongRows(horizons))
    BY StrongSound
  <2>3. QED
    BY <2>1, <2>2, WritesKeepsInv DEF Stages
<1>4. CASE RunPreseason
  <2>1. PICK horizons \in HorizonChoices : Writes("preseason", PreseasonRows(horizons))
    BY <1>4 DEF RunPreseason
  <2>2. PlainRows(PreseasonRows(horizons))
    BY PreseasonSound
  <2>3. QED
    BY <2>1, <2>2, WritesKeepsInv DEF Stages
<1>5. CASE RunProbability
  <2>1. PICK end \in EndSeasons : Writes("probability", ProbabilityRows(research["baseline"], end))
    BY <1>5 DEF RunProbability
  <2>2. PlainRows(research["baseline"])
    BY <1>5 DEF RunProbability, ResearchInv
  <2>3. PooledRows(ProbabilityRows(research["baseline"], end))
    BY <2>2, ProbabilitySound
  <2>4. QED
    BY <2>1, <2>3, WritesKeepsInv DEF Stages
<1>6. CASE CompareWithMarket
  <2>1. Writes("comparison", ComparisonRows(research["baseline"]))
    BY <1>6 DEF CompareWithMarket
  <2>2. PlainRows(research["baseline"])
    BY <1>6 DEF CompareWithMarket, ResearchInv
  <2>3. \A r \in ComparisonRows(research["baseline"]) : r.game \in Games
    BY <2>2 DEF ComparisonRows, OofRows, PlainRows, RowSound
  <2>4. QED
    BY <2>1, <2>3, WritesKeepsInv DEF Stages
<1>7. CASE RunMarketAware
  <2> DEFINE rows == research["baseline"] \cup research["preseason"]
  <2>1. Writes("aware", AwareRows(research["comparison"], rows))
    BY <1>7 DEF RunMarketAware
  <2>2. PlainRows(rows) /\ \A r \in research["comparison"] : r.game \in Games
    BY <1>7 DEF RunMarketAware, ResearchInv, PlainRows
  <2> HIDE DEF rows
  <2>3. PooledRows(AwareRows(research["comparison"], rows))
    BY <2>2, AwareSound
  <2>4. QED
    BY <2>1, <2>3, WritesKeepsInv DEF Stages
<1>8. QED
  BY <1>1, <1>2, <1>3, <1>4, <1>5, <1>6, <1>7 DEF ResearchNext

(* Whatever experiments are run, in whatever order and however often: a prediction    *)
(* for the validation season has seen no result that was not available at its cutoff,  *)
(* every residual of a pool is out of sample, and no pool mixes horizons               *)
(* (run_tournament, build_probability_rows, _blend_rows).                            *)
THEOREM PredictionsOutOfSample == ResearchSpec => []OutOfSample
<1>1. ResearchInv => OutOfSample
  <2> SUFFICES ASSUME ResearchInv PROVE OutOfSample
    OBVIOUS
  <2>1. ASSUME NEW r \in RowsOf(PredictionStages)
        PROVE  RowSound(r) /\ (Plain(r) \/ PoolSound(r))
    <3>1. PICK s \in PredictionStages : Has(s) /\ r \in research[s]
      BY DEF RowsOf
    <3>2. QED
      BY <3>1 DEF ResearchInv, PredictionStages, PlainRows, PooledRows
  <2>2. ValidationSeesOnlyThePast
    BY <2>1 DEF ValidationSeesOnlyThePast, RowSound, MayInform, Informs
  <2>3. \A r \in Pooled : PoolSound(r)
    <3> SUFFICES ASSUME NEW r \in Pooled PROVE PoolSound(r)
      OBVIOUS
    <3>1. r \in RowsOf(PredictionStages) /\ ~Plain(r)
      BY DEF Pooled, Plain, RowsOf, PredictionStages
    <3>2. QED
      BY <2>1, <3>1
  <2>4. PoolsOutOfSample
    <3>1. ASSUME NEW r \in Pooled, NEW p \in r.pool PROVE ~p.inSample
      <4>1. p.inSample = FALSE
        BY <2>3 DEF PoolSound
      <4>2. QED
        BY <4>1
    <3>2. QED
      BY <3>1 DEF PoolsOutOfSample
  <2>5. HorizonsNeverPooled
    BY <2>3 DEF HorizonsNeverPooled, PoolSound
  <2>6. QED
    BY <2>2, <2>4, <2>5 DEF OutOfSample
<1>2. QED
  BY <1>1, ResearchInitSound, ResearchStep, PTL DEF ResearchSpec
-----------------------------------------------------------------------------
(* 5. What historical odds cover *)

(* The input of the call is one of the inputs.                                      *)
LEMMA CoverageTyped == CoverageSpec => [](asked = NoInput \/ asked \in Inputs)
<1>1. CoverageInit => asked = NoInput \/ asked \in Inputs
  BY DEF CoverageInit
<1>2. (asked = NoInput \/ asked \in Inputs) /\ [CoverageNext]_asked
        => (asked = NoInput \/ asked \in Inputs)'
  BY DEF CoverageNext, Ask
<1>3. QED
  BY <1>1, <1>2, PTL DEF CoverageSpec

(* One candidate is the event that is taken (reconcile_event).                       *)
LEMMA OnlyCandidate ==
  ASSUME NEW game, NEW events, events \in Seq(Range(events)), NEW i \in Candidates(game, events),
         Reconcile(game, events).status = "reliable"
  PROVE  Reconcile(game, events).event = events[i]
<1> DEFINE found == Candidates(game, events)
<1>1. IsFiniteSet(found)
  <2>1. found \in SUBSET (1..Len(events))
    BY DEF Candidates
  <2>2. IsFiniteSet(1..Len(events))
    BY FS_Interval
  <2> HIDE DEF found
  <2>3. QED
    BY <2>1, <2>2, FS_Subset
<1>2. Cardinality(found) = 1
  BY DEF Reconcile
<1>3. found = {i}
  <2> HIDE DEF found
  <2>1. PICK x : found = {x}
    BY <1>1, <1>2, FS_Singleton
  <2>2. i \in found
    BY DEF found
  <2>3. QED
    BY <2>1, <2>2
<1>4. Reconcile(game, events).event = events[CHOOSE k \in found : TRUE]
  BY <1>2 DEF Reconcile
<1>5. (CHOOSE k \in found : TRUE) = i
  <2> HIDE DEF found
  <2>1. QED
    BY <1>3
<1>6. QED
  BY <1>4, <1>5

(* The side of an outcome (_normalize_outcomes).                                   *)
LEMMA SideIs ==
  ASSUME NEW game, NEW market, NEW name
  PROVE  /\ market # "totals" =>
               /\ Side(game, market, name) = "home" <=> Compatible(name, game.home)
               /\ Side(game, market, name) = "away"
                    <=> ~Compatible(name, game.home) /\ Compatible(name, game.away)
         /\ market = "totals" =>
               /\ Side(game, market, name) = "over" <=> name = <<"over">>
               /\ Side(game, market, name) = "under" <=> name = <<"under">>
<1>1. <<"over">> # <<"under">>
  OBVIOUS
<1>2. CASE market # "totals"
  BY <1>2 DEF Side
<1>3. CASE market = "totals"
  BY <1>1, <1>3 DEF Side
<1>4. QED
  BY <1>2, <1>3

(* Two outcomes.                                                                *)
LEMMA TwoOutcomes ==
  ASSUME NEW offers, offers \in Seq(Range(offers)), Len(offers) = 2
  PROVE  Range(offers) = {offers[1], offers[2]}
<1>1. DOMAIN offers = {1, 2}
  OBVIOUS
<1>2. QED
  BY <1>1 DEF Range

(* An outcome with a side names a team.                                            *)
LEMMA MeansATeam ==
  ASSUME NEW game, NEW market, market # "totals", NEW offers, NamesTheTeams(game, offers),
         NEW p \in Range(offers), Side(game, market, p.name) \in {"home", "away"}
  PROVE  p.of \in {"home", "away"} /\ (p.of = "home" => Compatible(p.name, game.home))
<1>1. Compatible(p.name, game.home) \/ Compatible(p.name, game.away)
  BY SideIs
<1>2. QED
  BY <1>1 DEF NamesTheTeams

(* An outcome that means a team has that team's side: a name that fits both teams      *)
(* takes the home side, and then the market is not complete.                         *)
LEMMA OnItsSide ==
  ASSUME NEW game, NEW market, market # "totals", NEW offers, offers \in Seq(Range(offers)),
         NamesTheTeams(game, offers), DatasetComplete(game, market, offers),
         NEW o \in Range(offers)
  PROVE  Side(game, market, o.name) = o.of
<1> DEFINE side(q) == Side(game, market, q.name)
<1>1. Range(offers) = {offers[1], offers[2]}
  BY TwoOutcomes DEF DatasetComplete
<1>2. {side(q) : q \in Range(offers)} = {"home", "away"}
  BY DEF DatasetComplete, Paired, Sides
<1>3. PICK q \in Range(offers) : side(q) # side(o)
  <2>1. PICK x \in Range(offers), y \in Range(offers) : side(x) = "home" /\ side(y) = "away"
    <3>1. "home" \in {side(q) : q \in Range(offers)} /\ "away" \in {side(q) : q \in Range(offers)}
      BY <1>2
    <3>2. QED
      BY <3>1
  <2>2. side(x) # side(y)
    BY <2>1
  <2>3. QED
    BY <2>2
<1>4. side(o) \in {"home", "away"} /\ side(q) \in {"home", "away"}
  BY <1>2
<1>5. side(o) = "home" <=> Compatible(o.name, game.home)
  BY SideIs
<1>6. /\ side(q) = "home" <=> Compatible(q.name, game.home)
  BY SideIs
<1>7. /\ o.of \in {"home", "away"} /\ q.of \in {"home", "away"}
      /\ o.of = "home" => Compatible(o.name, game.home)
      /\ q.of = "home" => Compatible(q.name, game.home)
  BY <1>4, MeansATeam
<1>8. o.of # q.of
  <2>1. o.of = q.of => o.name = q.name
    BY <1>7 DEF NamesTheTeams
  <2>2. QED
    BY <1>3, <2>1
<1>9. CASE o.of = "home"
  BY <1>5, <1>7, <1>9
<1>10. CASE o.of = "away"
  <2>1. q.of = "home"
    BY <1>7, <1>8, <1>10
  <2>2. side(q) = "home"
    BY <1>6, <1>7, <2>1
  <2>3. QED
    BY <1>3, <1>4, <1>10, <2>2
<1>11. QED
  BY <1>7, <1>9, <1>10

(* What the dataset finds complete, the audit does.                                 *)
LEMMA CompleteForAudit ==
  ASSUME NEW game, NEW market \in Markets, NEW offers, offers \in Seq(Range(offers)),
         \A o \in Range(offers) : o.price \in Int,
         DatasetComplete(game, market, offers)
  PROVE  AuditComplete(game, market, offers)
<1> DEFINE side(q) == Side(game, market, q.name)
<1>1. Len(offers) = 2 /\ \A o \in Range(offers) : o.price # 0
  BY DEF DatasetComplete
<1>2. {side(q) : q \in Range(offers)} = Sides(market)
  BY DEF DatasetComplete, Paired
<1>3. CASE market # "totals"
  <2>1. PICK x \in Range(offers), y \in Range(offers) : side(x) = "home" /\ side(y) = "away"
    <3>1. "home" \in {side(q) : q \in Range(offers)} /\ "away" \in {side(q) : q \in Range(offers)}
      BY <1>2, <1>3 DEF Sides
    <3>2. QED
      BY <3>1
  <2>2. Compatible(x.name, game.home) /\ Compatible(y.name, game.away)
    BY <1>3, <2>1, SideIs
  <2>3. Opposing(game, offers)
    BY <2>2 DEF Opposing
  <2>4. market = "spreads" => OppositePoints(offers)
    BY DEF DatasetComplete
  <2>5. CASE market = "h2h"
    BY <1>1, <2>3, <2>5 DEF AuditComplete
  <2>6. CASE market = "spreads"
    BY <1>1, <2>3, <2>4, <2>6 DEF AuditComplete
  <2>7. QED
    BY <1>3, <2>5, <2>6 DEF Markets
<1>4. CASE market = "totals"
  <2>1. EqualPoints(offers)
    BY <1>4 DEF DatasetComplete
  <2>2. \A q \in Range(offers) : side(q) \in {"over", "under"}
    BY <1>2, <1>4 DEF Sides
  <2>3. \A q \in Range(offers) : q.name \in {<<"over">>, <<"under">>}
    BY <1>4, <2>2, SideIs
  <2>4. PICK x \in Range(offers), y \in Range(offers) : side(x) = "over" /\ side(y) = "under"
    <3>1. "over" \in {side(q) : q \in Range(offers)} /\ "under" \in {side(q) : q \in Range(offers)}
      BY <1>2, <1>4 DEF Sides
    <3>2. QED
      BY <3>1
  <2>5. x.name = <<"over">> /\ y.name = <<"under">>
    BY <1>4, <2>4, SideIs
  <2>6. {o.name : o \in Range(offers)} = {<<"over">>, <<"under">>}
    BY <2>3, <2>5
  <2>7. QED
    BY <1>1, <1>4, <2>1, <2>6 DEF AuditComplete
<1>5. QED
  BY <1>3, <1>4

(* Books that are listed once and complete for the dataset are so many for the audit.   *)
LEMMA BooksCounted ==
  ASSUME NEW game, NEW market \in Markets, NEW books, books \in Seq(Range(books)),
         IsInjective([i \in DOMAIN books |-> books[i].key]),
         \A b \in Range(books) :
            /\ b.outcomes \in Seq(Range(b.outcomes))
            /\ \A o \in Range(b.outcomes) : o.price \in Int
  PROVE  /\ DatasetBooks(game, market, books) \in Nat /\ AuditBooks(game, market, books) \in Nat
         /\ DatasetBooks(game, market, books) <= AuditBooks(game, market, books)
<1> DEFINE good == {i \in DOMAIN books :
                      /\ books[i].key \in Supported
                      /\ DatasetComplete(game, market, books[i].outcomes)}
           kept == {c \in Range(books) : /\ c.key \in Supported
                                         /\ AuditComplete(game, market, c.outcomes)}
           keys == {b.key : b \in kept}
           f == [i \in good |-> books[i].key]
           n == [i \in DOMAIN books |-> books[i].key]
<1>1. IsFiniteSet(DOMAIN books)
  <2>1. DOMAIN books = 1..Len(books) /\ Len(books) \in Nat
    OBVIOUS
  <2>2. IsFiniteSet(1..Len(books))
    BY <2>1, FS_Interval
  <2>3. QED
    BY <2>1, <2>2
<1>2. IsFiniteSet(keys)
  <2>1. IsFiniteSet({n[i] : i \in DOMAIN books})
    <3>1. n \in Surjection(DOMAIN books, {n[i] : i \in DOMAIN books})
      BY DEF Surjection
    <3> HIDE DEF n
    <3>2. QED
      BY <1>1, <3>1, FS_Surjection
  <2>2. keys \subseteq {n[i] : i \in DOMAIN books}
    BY DEF Range
  <2> HIDE DEF n, keys
  <2>3. QED
    BY <2>1, <2>2, FS_Subset
<1>3. f \in [good -> keys]
  <2> SUFFICES ASSUME NEW i \in good PROVE books[i].key \in keys
    OBVIOUS
  <2>1. books[i] \in Range(books) /\ books[i].key \in Supported
    BY DEF Range
  <2>2. AuditComplete(game, market, books[i].outcomes)
    BY <2>1, CompleteForAudit
  <2>3. QED
    BY <2>1, <2>2
<1>4. \A i, k \in good : f[i] = f[k] => i = k
  BY DEF IsInjective
<1>5. f \in Injection(good, keys)
  <2> HIDE DEF f, good, keys
  <2>1. DOMAIN f = good
    BY <1>3
  <2>2. QED
    BY <1>3, <1>4, <2>1 DEF Injection, IsInjective
<1>6. /\ Cardinality(good) \in Nat /\ Cardinality(keys) \in Nat
      /\ Cardinality(good) <= Cardinality(keys)
  <2> HIDE DEF f, good, keys
  <2>1. QED
    BY <1>2, <1>5, FS_Injection, FS_CardinalityType
<1>7. QED
  BY <1>6 DEF DatasetBooks, AuditBooks

(* What the dataset takes from an answer is of the right game, on the right side, and   *)
(* was counted by the audit, for every answer (reconcile_event, _normalize_outcomes).   *)
THEOREM PricesStayWellFounded == CoverageSpec => []PricesWellFounded
<1>1. (asked = NoInput \/ asked \in Inputs) => PricesWellFounded
  <2> SUFFICES ASSUME asked \in Inputs, asked # NoInput PROVE PricesWellFounded
    BY DEF PricesWellFounded, ListedGameNeverMismapped, PricesOnTheirSide, DatasetWithinAudit
  <2>1. ListedGameNeverMismapped
    <3> SUFFICES ASSUME asked.kind = "event", NEW i \in DOMAIN asked.events,
                        asked.events[i].of = asked.game.id,
                        i \in Candidates(asked.game, asked.events),
                        Reconcile(asked.game, asked.events).status = "reliable"
                 PROVE  Reconcile(asked.game, asked.events).event.of = asked.game.id
      BY DEF ListedGameNeverMismapped
    <3>1. asked.events \in Seq(Range(asked.events))
      BY EventAssumption
    <3>2. Reconcile(asked.game, asked.events).event = asked.events[i]
      BY <3>1, OnlyCandidate
    <3>3. QED
      BY <3>2
  <2>2. PricesOnTheirSide
    <3> SUFFICES ASSUME asked.kind = "market", asked.market # "totals",
                        NEW b \in Range(asked.books),
                        DatasetComplete(asked.game, asked.market, b.outcomes),
                        NEW o \in Range(b.outcomes)
                 PROVE  Side(asked.game, asked.market, o.name) = o.of
      BY DEF PricesOnTheirSide
    <3>1. b.outcomes \in Seq(Range(b.outcomes)) /\ NamesTheTeams(asked.game, b.outcomes)
      BY MarketAssumption
    <3>2. QED
      BY <3>1, OnItsSide
  <2>3. DatasetWithinAudit
    <3> SUFFICES ASSUME asked.kind = "market",
                        IsInjective([i \in DOMAIN asked.books |-> asked.books[i].key]),
                        DatasetUsable("reliable", TRUE, asked.game, asked.market, asked.books)
                 PROVE  AuditUsable("reliable", TRUE, asked.game, asked.market, asked.books)
      BY DEF DatasetWithinAudit
    <3> DEFINE inDataset == DatasetBooks(asked.game, asked.market, asked.books)
               inAudit == AuditBooks(asked.game, asked.market, asked.books)
    <3>1. /\ asked.market \in Markets /\ asked.books \in Seq(Range(asked.books))
          /\ \A b \in Range(asked.books) :
                /\ b.outcomes \in Seq(Range(b.outcomes))
                /\ \A o \in Range(b.outcomes) : o.price \in Int
      BY MarketAssumption
    <3>2. inDataset \in Nat /\ inAudit \in Nat /\ inDataset <= inAudit
      BY <3>1, BooksCounted
    <3> HIDE DEF inDataset, inAudit
    <3>3. inDataset >= 2 => inAudit >= 2
      BY <3>2
    <3>4. QED
      BY <3>3 DEF DatasetUsable, AuditUsable, MinimumBooks, inDataset, inAudit
  <2>4. QED
    BY <2>1, <2>2, <2>3 DEF PricesWellFounded
<1>2. QED
  BY <1>1, CoverageTyped, PTL

-----------------------------------------------------------------------------
(* Decisions *)

(* A decision looks at the records of the frozen cohort only.                       *)
LEMMA DecidedByPrimary ==
  ASSUME NEW audit, NEW others, Primary(audit) = Primary(others)
  PROVE  Decision(audit) = Decision(others) /\ MorningPolicy(audit) = MorningPolicy(others)
<1>1. \A h, m : Approved(audit, h, m) <=> Approved(others, h, m)
  BY DEF Approved
<1>2. \A h : MeanCoverage(Primary(audit), h) = MeanCoverage(Primary(others), h)
  OBVIOUS
<1>3. Decision(audit) = Decision(others)
  BY <1>1 DEF Decision
<1>4. QED
  BY <1>2, <1>3 DEF MorningPolicy

(* An approved horizon and market has a usable record of the cohort.                 *)
LEMMA ApprovedHasUsable ==
  ASSUME NEW audit, IsFiniteSet(audit), NEW h, NEW m, Approved(audit, h, m)
  PROVE  \E r \in audit :
            r.horizon = h /\ r.market = m /\ r.usable /\ r.cohort = "fbs_vs_fbs"
<1> DEFINE overall == Of(Primary(audit), h, m)
           usable == {r \in overall : r.usable}
<1>1. overall \subseteq audit /\ \A r \in overall :
         r.horizon = h /\ r.market = m /\ r.cohort = "fbs_vs_fbs"
  BY DEF Of, Primary
<1>2. IsFiniteSet(overall)
  <2> HIDE DEF overall
  <2>1. QED
    BY <1>1, FS_Subset
<1>3. Cardinality(overall) > 0 /\ 100 * Cardinality(usable) >= 80 * Cardinality(overall)
  BY DEF Approved, Covered, AtLeast, Count
<1> HIDE DEF overall
<1>4. Cardinality(overall) \in Nat
  BY <1>2, FS_CardinalityType
<1>5. usable # {}
  <2>1. ASSUME usable = {} PROVE FALSE
    <3>1. Cardinality(usable) = 0
      BY <2>1, FS_EmptySet
    <3> HIDE DEF usable
    <3>2. QED
      BY <1>3, <1>4, <3>1
  <2>2. QED
    BY <2>1
<1>6. QED
  BY <1>1, <1>5

(* A decision to go means every later horizon and market was approved.               *)
LEMMA GoIsFull ==
  ASSUME NEW audit, Decision(audit) = "GO", NEW h \in LaterHorizons, NEW m \in Markets
  PROVE  Approved(audit, h, m)
BY DEF Decision

-----------------------------------------------------------------------------
(* Plans *)

(* The games of a plan and their ranks.                                            *)
PlanGiven(games, rank) ==
    /\ IsFiniteSet(games)
    /\ \A g \in games : g.kick \in Int /\ rank[g.id] \in Int /\ rank[g.window] \in Int
    /\ \A g, h \in games :
          /\ g.id = h.id => g = h
          /\ rank[g.id] = rank[h.id] => g.id = h.id
          /\ rank[g.window] = rank[h.window] => g.window = h.window

(* The windows, ids and kickoffs of finitely many games are finitely many.            *)
LEMMA FieldsFinite ==
  ASSUME NEW S, IsFiniteSet(S)
  PROVE  IsFiniteSet({g.window : g \in S}) /\ IsFiniteSet({g.id : g \in S})
         /\ IsFiniteSet({g.kick : g \in S})
<1> DEFINE w == [g \in S |-> g.window]
           i == [g \in S |-> g.id]
           k == [g \in S |-> g.kick]
<1>1. w \in Surjection(S, {g.window : g \in S})
  BY DEF Surjection
<1>2. i \in Surjection(S, {g.id : g \in S})
  BY DEF Surjection
<1>3. k \in Surjection(S, {g.kick : g \in S})
  BY DEF Surjection
<1> HIDE DEF w, i, k
<1>4. QED
  BY <1>1, <1>2, <1>3, FS_Surjection

(* The lesser of two and a count.                                                   *)
LEMMA LesserOf ==
  ASSUME NEW n \in Int
  PROVE  Min({2, n}) = IF n <= 2 THEN n ELSE 2
<1> DEFINE S == {2, n}
<1>1. S \in SUBSET Int /\ S # {}
  OBVIOUS
<1>2. IsFiniteSet(S)
  <2>1. IsFiniteSet({2}) /\ IsFiniteSet({n})
    BY FS_Singleton
  <2>2. IsFiniteSet({2} \cup {n})
    BY <2>1, FS_Union
  <2>3. {2} \cup {n} = S
    OBVIOUS
  <2> HIDE DEF S
  <2>4. QED
    BY <2>2, <2>3
<1>3. Min(S) \in S /\ \A y \in S : Min(S) <= y
  <2> HIDE DEF S
  <2>1. QED
    BY <1>1, <1>2, MinIs
<1>4. QED
  BY <1>3

(* The morning request of a game is that of its day (build_morning_plan).            *)
LEMMA MorningOnce ==
  ASSUME NEW games, NEW rank, PlanGiven(games, rank), NEW g \in games
  PROVE  /\ Cardinality({r \in MorningPlan(games) : g.id \in r.games}) = 1
         /\ \A r \in MorningPlan(games), h \in games :
               g.id \in r.games /\ h.day = g.day => r.at + 180 <= h.kick
<1> DEFINE slate(d) == {k \in games : k.day = d}
           kicks(d) == {k.kick : k \in slate(d)}
           request(d) == [at |-> Min(kicks(d)) - 180, games |-> {k.id : k \in slate(d)}]
           mine == {r \in MorningPlan(games) : g.id \in r.games}
<1>1. MorningPlan(games) = {request(d) : d \in {h.day : h \in games}}
  BY DEF MorningPlan
<1>2. ASSUME NEW d \in {h.day : h \in games}, g.id \in request(d).games PROVE d = g.day
  <2>1. PICK h \in slate(d) : h.id = g.id
    BY <1>2
  <2>2. h = g
    BY <2>1 DEF PlanGiven
  <2>3. QED
    BY <2>2
<1>3. g.id \in request(g.day).games
  BY DEF PlanGiven
<1>4. mine = {request(g.day)}
  <2> HIDE DEF request
  <2>1. QED
    BY <1>1, <1>2, <1>3
<1>5. ASSUME NEW h \in games, h.day = g.day PROVE request(g.day).at + 180 <= h.kick
  <2>1. /\ kicks(g.day) \in SUBSET Int /\ h.kick \in kicks(g.day)
    BY <1>5 DEF PlanGiven
  <2>2. IsFiniteSet(kicks(g.day))
    <3> DEFINE S == slate(g.day)
    <3>1. IsFiniteSet(S)
      BY FS_Subset DEF PlanGiven
    <3> HIDE DEF S
    <3>2. IsFiniteSet({k.kick : k \in S})
      BY <3>1, FieldsFinite
    <3>3. QED
      BY <3>2 DEF S
  <2>3. Min(kicks(g.day)) \in Int /\ Min(kicks(g.day)) <= h.kick
    <3> HIDE DEF kicks
    <3>1. QED
      BY <2>1, <2>2, MinIs
  <2>4. request(g.day).at = Min(kicks(g.day)) - 180
    OBVIOUS
  <2> HIDE DEF request, kicks
  <2>5. h.kick \in Int
    BY DEF PlanGiven
  <2>6. QED
    BY <2>3, <2>4, <2>5
<1>6. Cardinality(mine) = 1
  <2> HIDE DEF request, mine
  <2>1. QED
    BY <1>4, FS_Singleton
<1>7. \A r \in MorningPlan(games), h \in games :
         g.id \in r.games /\ h.day = g.day => r.at + 180 <= h.kick
  <2> HIDE DEF request
  <2>1. QED
    BY <1>4, <1>5
<1>8. QED
  BY <1>6, <1>7

(* The first by rank.                                                             *)
LEMMA FirstIs ==
  ASSUME NEW S, IsFiniteSet(S), S # {}, NEW rank, \A e \in S : rank[e] \in Int
  PROVE  First(S, rank) \in S /\ \A e \in S : rank[First(S, rank)] <= rank[e]
<1> DEFINE ranks == {rank[e] : e \in S}
           f == [e \in S |-> rank[e]]
<1>1. ranks \in SUBSET Int /\ ranks # {}
  OBVIOUS
<1>2. IsFiniteSet(ranks)
  <2>1. f \in Surjection(S, ranks)
    BY DEF Surjection
  <2> HIDE DEF f, ranks
  <2>2. QED
    BY <2>1, FS_Surjection
<1>3. \E e \in S : \A d \in S : rank[e] <= rank[d]
  <2>1. PICK r \in ranks : \A q \in ranks : r <= q
    <3> HIDE DEF ranks
    <3>1. QED
      BY <1>1, <1>2, LeastOf
  <2>2. QED
    BY <2>1
<1>4. QED
  BY <1>3 DEF First

(* Two elements count two.                                                         *)
LEMMA PairCounted ==
  ASSUME NEW a, NEW b, a # b
  PROVE  IsFiniteSet({a, b}) /\ Cardinality({a, b}) = 2
<1> DEFINE S == {a}
<1>1. IsFiniteSet(S) /\ Cardinality(S) = 1 /\ b \notin S /\ S \cup {b} = {a, b}
  BY FS_Singleton
<1> HIDE DEF S
<1>2. IsFiniteSet(S \cup {b}) /\ Cardinality(S \cup {b}) = Cardinality(S) + 1
  BY <1>1, FS_AddElement
<1>3. QED
  BY <1>1, <1>2

(* The first two are the first and the first of the rest.                           *)
LEMMA FirstTwoIs ==
  ASSUME NEW S, IsFiniteSet(S), S # {}, NEW rank, \A e \in S : rank[e] \in Int,
         \A e, d \in S : rank[e] = rank[d] => e = d
  PROVE  \E a \in S, b \in S : FirstTwo(S, rank) = {a, b} /\ (a = b => S = {a})
<1> DEFINE a == First(S, rank)
           rest == S \ {a}
           before(e) == {f \in S : rank[f] < rank[e]}
<1>1. a \in S /\ \A e \in S : rank[a] <= rank[e]
  BY FirstIs
<1> HIDE DEF a
<1>2. before(a) = {}
  BY <1>1
<1>3. Cardinality(before(a)) < 2
  BY <1>2, FS_EmptySet
<1>4. CASE rest = {}
  <2>1. S = {a}
    BY <1>1, <1>4
  <2>2. FirstTwo(S, rank) = {a, a}
    BY <1>3, <2>1 DEF FirstTwo
  <2>3. QED
    BY <2>1, <2>2
<1>5. CASE rest # {}
  <2> DEFINE b == First(rest, rank)
  <2>1. IsFiniteSet(rest)
    BY FS_Subset
  <2>2. b \in rest /\ \A e \in rest : rank[b] <= rank[e]
    BY <1>5, <2>1, FirstIs
  <2> HIDE DEF b
  <2>3. before(b) = {a}
    BY <1>1, <2>2
  <2>4. Cardinality(before(b)) < 2
    <3>1. Cardinality({a}) = 1
      BY FS_Singleton
    <3> HIDE DEF before
    <3>2. QED
      BY <2>3, <3>1
  <2>5. ASSUME NEW e \in S, e # a, e # b PROVE ~(Cardinality(before(e)) < 2)
    <3>1. {a, b} \subseteq before(e)
      BY <1>1, <2>2, <2>5
    <3>2. IsFiniteSet(before(e))
      BY FS_Subset
    <3>4. Cardinality({a, b}) = 2
      BY <2>2, PairCounted
    <3> HIDE DEF before
    <3>6. Cardinality({a, b}) <= Cardinality(before(e)) /\ Cardinality(before(e)) \in Nat
      BY <3>1, <3>2, FS_Subset, FS_CardinalityType
    <3>7. QED
      BY <3>4, <3>6
  <2>6. FirstTwo(S, rank) = {a, b}
    BY <1>1, <1>3, <2>2, <2>4, <2>5 DEF FirstTwo
  <2>7. QED
    BY <1>1, <2>2, <2>6
<1>6. QED
  BY <1>4, <1>5

(* A set of one or of the first two of its elements counts as the set does up to two.   *)
LEMMA PairOf ==
  ASSUME NEW S, IsFiniteSet(S), NEW a \in S, NEW b \in S, a = b => S = {a}
  PROVE  Cardinality({a, b}) = Min({2, Cardinality(S)})
<1> DEFINE n == Cardinality(S)
<1>1. n \in Nat
  BY FS_CardinalityType
<1>2. CASE a = b
  <2>1. n = 1 /\ {a, b} = {a}
    BY <1>2, FS_Singleton
  <2>2. Cardinality({a, b}) = 1
    BY <2>1, FS_Singleton
  <2> HIDE DEF n
  <2>3. Min({2, n}) = 1
    BY <2>1, LesserOf
  <2>4. QED
    BY <2>2, <2>3 DEF n
<1>3. CASE a # b
  <2>1. IsFiniteSet({a, b}) /\ Cardinality({a, b}) = 2
    BY <1>3, PairCounted
  <2>2. Cardinality({a, b}) <= n
    <3>1. {a, b} \subseteq S
      OBVIOUS
    <3>2. QED
      BY <3>1, FS_Subset
  <2> HIDE DEF n
  <2>3. 2 <= n
    BY <2>1, <2>2
  <2>4. Min({2, n}) = 2
    BY <1>1, <2>3, LesserOf
  <2>5. QED
    BY <2>1, <2>4 DEF n
<1>4. QED
  BY <1>2, <1>3

(* The sample of a cell has its first game of each of the first two windows, or its      *)
(* first two games where there is one window (_stratified_sample).                    *)
LEMMA SampleIs ==
  ASSUME NEW games, NEW rank, PlanGiven(games, rank), NEW cell, cell \subseteq games, cell # {}
  PROVE  \E g1 \in cell, g2 \in cell :
            /\ SampleOf(cell, rank) = {g1.id, g2.id}
            /\ g1 = g2 => cell = {g1}
            /\ g1.window = g2.window => {g.window : g \in cell} = {g1.window}
<1> DEFINE wins == {g.window : g \in cell}
           ids == {g.id : g \in cell}
           in(w) == {g \in cell : g.window = w}
           idsIn(w) == {g.id : g \in in(w)}
           first(w) == First(idsIn(w), rank)
           chosen == {first(w) : w \in FirstTwo(wins, rank)}
           rest == ids \ chosen
<1>1. IsFiniteSet(cell)
  BY FS_Subset DEF PlanGiven
<1>2. IsFiniteSet(wins) /\ wins # {} /\ (\A w \in wins : rank[w] \in Int)
      /\ (\A w, v \in wins : rank[w] = rank[v] => w = v)
  <2>1. IsFiniteSet(wins)
    BY <1>1, FieldsFinite
  <2>2. QED
    BY <2>1 DEF PlanGiven
<1>3. IsFiniteSet(ids) /\ \A i \in ids : rank[i] \in Int
  <2>1. IsFiniteSet(ids)
    BY <1>1, FieldsFinite
  <2>2. QED
    BY <2>1 DEF PlanGiven
<1>4. ASSUME NEW w \in wins PROVE first(w) \in idsIn(w)
  <2>1. idsIn(w) \subseteq ids /\ idsIn(w) # {}
    OBVIOUS
  <2>2. IsFiniteSet(idsIn(w)) /\ \A i \in idsIn(w) : rank[i] \in Int
    <3> HIDE DEF idsIn, ids
    <3>1. QED
      BY <1>3, <2>1, FS_Subset
  <2> HIDE DEF idsIn
  <2>3. QED
    BY <2>1, <2>2, FirstIs
<1>5. PICK w1 \in wins, w2 \in wins : FirstTwo(wins, rank) = {w1, w2} /\ (w1 = w2 => wins = {w1})
  <2> HIDE DEF wins
  <2>1. QED
    BY <1>2, FirstTwoIs
<1>6. PICK g1 \in in(w1) : g1.id = first(w1)
  BY <1>4
<1>7. PICK g2 \in in(w2) : g2.id = first(w2)
  BY <1>4
<1>8. chosen = {g1.id, g2.id}
  <2> HIDE DEF first, wins
  <2>1. QED
    BY <1>5, <1>6, <1>7
<1>9. SampleOf(cell, rank) = IF Cardinality(chosen) < 2 /\ rest # {}
                             THEN chosen \cup {First(rest, rank)} ELSE chosen
  BY DEF SampleOf
<1>10. \A g, h \in cell : g.id = h.id => g = h
  BY DEF PlanGiven
<1>11. CASE w1 # w2
  <2>1. g1.window = w1 /\ g2.window = w2 /\ g1 # g2 /\ g1.id # g2.id
    BY <1>10, <1>11
  <2>2. Cardinality(chosen) = 2
    <3> HIDE DEF chosen
    <3>1. QED
      BY <1>8, <2>1, PairCounted
  <2> HIDE DEF chosen, rest
  <2>3. SampleOf(cell, rank) = {g1.id, g2.id}
    BY <1>8, <1>9, <2>2
  <2>4. QED
    BY <1>11, <2>1, <2>3
<1>12. CASE w1 = w2
  <2>1. wins = {w1} /\ g1 \in cell /\ chosen = {g1.id}
    <3>1. g1.id = g2.id
      BY <1>6, <1>7, <1>12
    <3> HIDE DEF chosen
    <3>2. QED
      BY <1>5, <1>8, <1>12, <3>1
  <2>2. Cardinality(chosen) = 1
    <3> HIDE DEF chosen
    <3>1. QED
      BY <2>1, FS_Singleton
  <2>3. CASE rest = {}
    <3>1. SampleOf(cell, rank) = {g1.id, g1.id}
      <4> HIDE DEF chosen, rest
      <4>1. QED
        BY <1>9, <2>1, <2>3
    <3>2. cell = {g1}
      <4>1. \A g \in cell : g.id = g1.id
        <5>1. ids \subseteq chosen
          BY <2>3
        <5> HIDE DEF chosen
        <5>2. QED
          BY <2>1, <5>1
      <4>2. QED
        BY <1>10, <2>1, <4>1
    <3>3. wins = {g1.window}
      BY <3>2
    <3>4. QED
      BY <2>1, <3>1, <3>2, <3>3
  <2>4. CASE rest # {}
    <3>1. First(rest, rank) \in rest
      <4>1. IsFiniteSet(rest) /\ \A i \in rest : rank[i] \in Int
        <5>1. rest \subseteq ids
          OBVIOUS
        <5> HIDE DEF rest, ids
        <5>2. QED
          BY <1>3, <5>1, FS_Subset
      <4> HIDE DEF rest
      <4>2. QED
        BY <2>4, <4>1, FirstIs
    <3>2. PICK g \in cell : g.id = First(rest, rank)
      BY <3>1
    <3>3. g.id # g1.id
      <4>1. First(rest, rank) \notin chosen
        BY <3>1
      <4> HIDE DEF chosen, rest
      <4>2. QED
        BY <2>1, <3>2, <4>1
    <3>4. SampleOf(cell, rank) = {g1.id, g.id}
      <4> HIDE DEF chosen, rest
      <4>1. SampleOf(cell, rank) = chosen \cup {First(rest, rank)}
        BY <1>9, <2>2, <2>4
      <4>2. QED
        BY <2>1, <3>2, <4>1
    <3>5. g1.window = w1 /\ wins = {g1.window}
      BY <2>1
    <3>6. QED
      BY <2>1, <3>2, <3>3, <3>4, <3>5
  <2>5. QED
    BY <2>3, <2>4
<1>13. QED
  BY <1>11, <1>12

(* The games of a season and phase, and those of them that are sampled.               *)
CellOf(games, g) == {h \in games : h.season = g.season /\ h.phase = g.phase}
SampledOf(games, rank, g) == {h \in CellOf(games, g) : h.id \in LaterSample(games, rank)}

(* What is sampled of the games of a season and phase is the sample of that cell:     *)
(* ids are unique, so no other cell's sample has its games (build_later_horizon_plan). *)
LEMMA SampledOfCell ==
  ASSUME NEW games, NEW rank, PlanGiven(games, rank), NEW g \in games
  PROVE  \E g1 \in CellOf(games, g), g2 \in CellOf(games, g) :
            /\ SampledOf(games, rank, g) = {g1, g2}
            /\ g1 = g2 => CellOf(games, g) = {g1}
            /\ g1.window = g2.window => {h.window : h \in CellOf(games, g)} = {g1.window}
<1> DEFINE cell == CellOf(games, g)
           cellOf(sp) == {h \in games : <<h.season, h.phase>> = sp}
           sps == {<<h.season, h.phase>> : h \in games}
           sp0 == <<g.season, g.phase>>
<1>1. LaterSample(games, rank) = UNION {SampleOf(cellOf(sp), rank) : sp \in sps}
  BY DEF LaterSample
<1>2. cell = cellOf(sp0) /\ sp0 \in sps
  BY DEF CellOf
<1>3. cell \subseteq games /\ cell # {}
  BY DEF CellOf
<1> HIDE DEF cell
<1>4. PICK g1 \in cell, g2 \in cell :
         /\ SampleOf(cell, rank) = {g1.id, g2.id}
         /\ g1 = g2 => cell = {g1}
         /\ g1.window = g2.window => {h.window : h \in cell} = {g1.window}
  BY <1>3, SampleIs
<1>5. ASSUME NEW h \in cell, NEW sp \in sps, h.id \in SampleOf(cellOf(sp), rank)
      PROVE  h.id \in SampleOf(cell, rank)
  <2>1. cellOf(sp) \subseteq games /\ cellOf(sp) # {}
    OBVIOUS
  <2>2. PICK k \in cellOf(sp) : k.id = h.id
    <3> HIDE DEF cellOf, sps
    <3>1. PICK k1 \in cellOf(sp), k2 \in cellOf(sp) : SampleOf(cellOf(sp), rank) = {k1.id, k2.id}
      BY <2>1, SampleIs
    <3>2. QED
      BY <1>5, <3>1
  <2>3. k = h
    BY <1>3, <2>2 DEF PlanGiven
  <2>4. sp = sp0
    <3>1. <<h.season, h.phase>> = sp
      BY <2>2, <2>3
    <3>2. <<h.season, h.phase>> = sp0
      BY <1>2, <1>5
    <3>3. QED
      BY <3>1, <3>2
  <2>5. QED
    BY <1>2, <1>5, <2>4
<1>6. ASSUME NEW h \in cell
      PROVE  h.id \in LaterSample(games, rank) <=> h \in {g1, g2}
  <2>1. h.id \in LaterSample(games, rank) <=> h.id \in SampleOf(cell, rank)
    <3> HIDE DEF cellOf, sps, sp0
    <3>1. QED
      BY <1>1, <1>2, <1>5
  <2>2. \A k \in cell : k.id = h.id => k = h
    BY <1>3 DEF PlanGiven
  <2>3. QED
    BY <1>4, <2>1, <2>2
<1>7. SampledOf(games, rank, g) = {g1, g2}
  BY <1>6 DEF SampledOf, cell
<1>8. QED
  BY <1>4, <1>7 DEF cell

(* A game is asked for once per horizon: requests of a horizon that share a game are for *)
(* one instant (build_later_horizon_plan).                                          *)
LEMMA AskedOnce ==
  ASSUME NEW games, NEW rank, NEW anchors, PlanGiven(games, rank),
         NEW r1 \in LaterPlan(games, rank, anchors), NEW r2 \in LaterPlan(games, rank, anchors),
         r1.horizon = r2.horizon, r1.games \cap r2.games # {}
  PROVE  r1 = r2
<1> DEFINE sample == {g \in games : g.id \in LaterSample(games, rank) \cup anchors}
           at(before, t) == {g.id : g \in {h \in sample : h.kick - before = t}}
           request(horizon, before, ms, t) ==
             [horizon |-> horizon, at |-> t, markets |-> ms, games |-> at(before, t)]
           instants(before) == {g.kick - before : g \in sample}
<1>1. LaterPlan(games, rank, anchors)
        = {request("60_minutes_before_kickoff", 60, Markets, t) : t \in instants(60)}
          \cup {request("near_close_5_minutes", 5, {"spreads", "totals"}, t) : t \in instants(5)}
  BY DEF LaterPlan
<1>2. ASSUME NEW before, NEW t1, NEW t2, at(before, t1) \cap at(before, t2) # {}
      PROVE  t1 = t2
  <2>1. PICK h1 \in sample, h2 \in sample :
           h1.kick - before = t1 /\ h2.kick - before = t2 /\ h1.id = h2.id
    BY <1>2
  <2>2. h1 = h2
    BY <2>1 DEF PlanGiven
  <2>3. QED
    BY <2>1, <2>2
<1>3. ASSUME NEW horizon, NEW before, NEW ms, NEW t1, NEW t2,
             r1 = request(horizon, before, ms, t1), r2 = request(horizon, before, ms, t2)
      PROVE  r1 = r2
  <2>1. r1.games = at(before, t1) /\ r2.games = at(before, t2)
    <3> HIDE DEF at
    <3>1. QED
      BY <1>3
  <2>2. t1 = t2
    <3> HIDE DEF at
    <3>1. QED
      BY <1>2, <2>1
  <2>3. QED
    BY <1>3, <2>2
<1>4. \A horizon, before, ms, t : request(horizon, before, ms, t).horizon = horizon
  OBVIOUS
<1> HIDE DEF request, instants
<1>5. \A r \in LaterPlan(games, rank, anchors) :
         \/ /\ r.horizon = "60_minutes_before_kickoff"
            /\ \E t : r = request("60_minutes_before_kickoff", 60, Markets, t)
         \/ /\ r.horizon = "near_close_5_minutes"
            /\ \E t : r = request("near_close_5_minutes", 5, {"spreads", "totals"}, t)
  BY <1>1, <1>4
<1>6. CASE r1.horizon = "60_minutes_before_kickoff"
  <2>1. \E t1, t2 : /\ r1 = request("60_minutes_before_kickoff", 60, Markets, t1)
                    /\ r2 = request("60_minutes_before_kickoff", 60, Markets, t2)
    BY <1>6, <1>5
  <2>2. QED
    BY <1>3, <2>1
<1>7. CASE r1.horizon # "60_minutes_before_kickoff"
  <2>1. \E t1, t2 : /\ r1 = request("near_close_5_minutes", 5, {"spreads", "totals"}, t1)
                    /\ r2 = request("near_close_5_minutes", 5, {"spreads", "totals"}, t2)
    BY <1>7, <1>5
  <2>2. QED
    BY <1>3, <2>1
<1>8. QED
  BY <1>6, <1>7

(* The sample of every season and phase counts its games and its windows up to two.    *)
LEMMA SampleCounted ==
  ASSUME NEW games, NEW rank, PlanGiven(games, rank), NEW g \in games
  PROVE  /\ Cardinality(SampledOf(games, rank, g)) = Min({2, Cardinality(CellOf(games, g))})
         /\ Cardinality({h.window : h \in SampledOf(games, rank, g)})
              = Min({2, Cardinality({h.window : h \in CellOf(games, g)})})
<1> DEFINE cell == CellOf(games, g)
           wins == {h.window : h \in cell}
<1>1. PICK g1 \in cell, g2 \in cell :
         /\ SampledOf(games, rank, g) = {g1, g2}
         /\ g1 = g2 => cell = {g1}
         /\ g1.window = g2.window => wins = {g1.window}
  BY SampledOfCell
<1>2. IsFiniteSet(cell)
  BY FS_Subset DEF PlanGiven, CellOf
<1>3. IsFiniteSet(wins) /\ g1.window \in wins /\ g2.window \in wins
  BY <1>2, FieldsFinite
<1>4. {h.window : h \in SampledOf(games, rank, g)} = {g1.window, g2.window}
  BY <1>1
<1> HIDE DEF wins, cell
<1>5. Cardinality(SampledOf(games, rank, g)) = Min({2, Cardinality(cell)})
  BY <1>1, <1>2, PairOf
<1>6. Cardinality({g1.window, g2.window}) = Min({2, Cardinality(wins)})
  BY <1>1, <1>3, PairOf
<1>7. QED
  BY <1>4, <1>5, <1>6 DEF wins, cell

(* What is bought is covered: the decision rests on the frozen cohort and on every     *)
(* horizon, and the plans ask for each game in time and once, for every schedule, order  *)
(* of hashes and audit (build_decision, build_morning_plan, build_later_horizon_plan).   *)
THEOREM PlansStayCovered == CoverageSpec => []PlansCovered
<1>1. (asked = NoInput \/ asked \in Inputs) => PlansCovered
  <2> SUFFICES ASSUME asked \in Inputs, asked # NoInput PROVE PlansCovered
    BY DEF PlansCovered, ContextNeverVetoes, GoCoversEveryHorizon, MorningBeforeEveryKickoff,
           SampleSpreadsOverWindows
  <2>1. ContextNeverVetoes
    <3> DEFINE without == {r \in asked.records : r.cohort = "fbs_vs_fbs"}
    <3>1. Primary(asked.records) = Primary(without)
      BY DEF Primary
    <3> HIDE DEF without
    <3>2. /\ Decision(asked.records) = Decision(without)
          /\ MorningPolicy(asked.records) = MorningPolicy(without)
      BY <3>1, DecidedByPrimary
    <3>3. QED
      BY <3>2 DEF ContextNeverVetoes, without
  <2>2. GoCoversEveryHorizon
    <3> SUFFICES ASSUME asked.kind = "decision", Decision(asked.records) = "GO",
                        NEW h \in LaterHorizons, NEW m \in Markets
                 PROVE  \E r \in asked.records :
                           r.horizon = h /\ r.market = m /\ r.usable /\ r.cohort = "fbs_vs_fbs"
      BY DEF GoCoversEveryHorizon
    <3>1. IsFiniteSet(asked.records)
      BY DecisionAssumption
    <3>2. Approved(asked.records, h, m)
      BY GoIsFull
    <3>3. QED
      BY <3>1, <3>2, ApprovedHasUsable
  <2>3. ASSUME asked.kind = "plan" PROVE PlanGiven(asked.games, asked.rank)
    BY <2>3, PlanAssumption DEF PlanGiven
  <2>4. MorningBeforeEveryKickoff
    <3> SUFFICES ASSUME asked.kind = "plan", NEW g \in asked.games
                 PROVE  /\ Cardinality({r \in MorningPlan(asked.games) : g.id \in r.games}) = 1
                        /\ \A r \in MorningPlan(asked.games), h \in asked.games :
                              g.id \in r.games /\ h.day = g.day => r.at + 180 <= h.kick
      BY DEF MorningBeforeEveryKickoff
    <3>1. QED
      BY <2>3, MorningOnce
  <2>5. SampleSpreadsOverWindows
    <3>1. ASSUME asked.kind = "plan", NEW g \in asked.games
          PROVE  /\ Cardinality(SampledOf(asked.games, asked.rank, g))
                      = Min({2, Cardinality(CellOf(asked.games, g))})
                 /\ Cardinality({h.window : h \in SampledOf(asked.games, asked.rank, g)})
                      = Min({2, Cardinality({h.window : h \in CellOf(asked.games, g)})})
      BY <2>3, <3>1, SampleCounted
    <3>2. ASSUME asked.kind = "plan",
                 NEW r1 \in LaterPlan(asked.games, asked.rank, asked.anchors),
                 NEW r2 \in LaterPlan(asked.games, asked.rank, asked.anchors),
                 r1.horizon = r2.horizon, r1.games \cap r2.games # {}
          PROVE  r1 = r2
      BY <2>3, <3>2, AskedOnce
    <3>3. QED
      BY <3>1, <3>2 DEF SampleSpreadsOverWindows, SampledOf, CellOf
  <2>6. QED
    BY <2>1, <2>2, <2>4, <2>5 DEF PlansCovered
<1>2. QED
  BY <1>1, CoverageTyped, PTL
=============================================================================
