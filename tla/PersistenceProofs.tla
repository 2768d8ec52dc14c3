-------------------------- MODULE PersistenceProofs --------------------------
(* Proofs about Persistence: IInv is inductive, for every set of chunks, every
   neighborhood relation, every bound, with save and load failures and crashes. *)
EXTENDS Persistence, TLAPS

(* Gameplay code never takes a lifecycle flag away from a chunk. *)
FlagsOnlyGrow == ApiFlags \subseteq {"full"}

(* The mark for "no record" is not a record. *)
LEMMA NoneIsNoContent == None \notin Content
BY Zenon, PersistenceAssumption DEF Content, Flags

(* A freshly attached world satisfies the invariant. *)
LEMMA InitIInv == Init => IInv
<1> SUFFICES ASSUME Init PROVE IInv  BY Zenon
<1> USE PersistenceAssumption DEF Init
<1>1. TypeOK
  BY Zenon DEF TypeOK, Content, Flags
<1>2. Resident = {} /\ Dirty = {}
  BY Zenon DEF Resident, Dirty
<1>3. SavesInv /\ LoadsInv /\ GenInv /\ StopInv
  BY Zenon, <1>2 DEF SavesInv, LoadsInv, GenInv, StopInv
<1>4. DiskInv
  BY Zenon, <1>2 DEF DiskInv
<1> QED BY Zenon, <1>1, <1>3, <1>4 DEF IInv

(* Stuttering preserves it. *)
LEMMA StutterIInv == IInv /\ UNCHANGED vars => IInv'
BY DEF vars, storeVars, fileVars, saveVars, loadVars, genVars, ownerVars, IInv, TypeOK,
       SavesInv, DiskInv, LoadsInv, GenInv, StopInv, Between, Resident, Dirty

(* with_chunk_mut: one revision up keeps the chunk ahead of its watermark. *)
LEMMA MutateIInv == ASSUME IInv, NEW p \in Chunk, Mutate(p) PROVE IInv'
<1> USE PersistenceAssumption DEF Mutate, saveVars, loadVars, fileVars, genVars, ownerVars
<1>1. cur[p] \in Content /\ cur[p] # None /\ cur'[p] = [cur[p] EXCEPT !.rev = @ + 1]
      /\ cur'[p] \in Content /\ cur'[p] # None /\ \A x \in Chunk : x # p => cur'[x] = cur[x]
  BY DEF IInv, TypeOK, LoadsInv, Resident, Content, Flags
<1>2. TypeOK'
  BY Zenon, <1>1 DEF IInv, TypeOK, Content, Flags
<1>3. Resident' = Resident
  BY Zenon, <1>1 DEF Resident
<1>4. SavesInv'
  BY SMTT(90), <1>1, <1>3 DEF IInv, TypeOK, SavesInv, Between, Leq, Dirty, Content, SaveMsg, SaveReceipt, Resident
<1>5. DiskInv'
  BY <1>1, <1>3 DEF IInv, TypeOK, SavesInv, DiskInv, Leq, Dirty, Content, Resident
<1>6. LoadsInv'
  BY Zenon, <1>1, <1>3 DEF IInv, LoadsInv
<1>7. GenInv'
  BY Zenon, <1>1, <1>3 DEF IInv, TypeOK, GenInv
<1>8. StopInv'
  BY Zenon DEF StopInv
<1> QED BY Zenon, <1>2, <1>4, <1>5, <1>6, <1>7, <1>8 DEF IInv

(* set_lifecycle_flags, when it only adds flags. *)
LEMMA SetLifecycleFlagsIInv ==
    ASSUME IInv, FlagsOnlyGrow, NEW p \in Chunk, NEW f \in Flags, SetLifecycleFlags(p, f)
    PROVE  IInv'
<1> USE PersistenceAssumption
    DEF SetLifecycleFlags, saveVars, loadVars, fileVars, genVars, ownerVars
<1>1. /\ f = "full" /\ cur[p] \in Content /\ cur[p] # None
      /\ cur'[p] = [rev |-> cur[p].rev, flags |-> "full"] /\ cur'[p] \in Content /\ cur'[p] # None
      /\ \A x \in Chunk : x # p => cur'[x] = cur[x]
  BY DEF IInv, TypeOK, LoadsInv, Resident, Content, Flags, FlagsOnlyGrow
<1>2. TypeOK'
  BY Zenon, <1>1 DEF IInv, TypeOK, Content, Flags
<1>3. Resident' = Resident
  BY Zenon, <1>1 DEF Resident
<1>4. ASSUME persisted[p] # None, Leq(persisted[p], cur[p]), cur'[p] = persisted[p]
      PROVE  cur[p] = persisted[p]
  BY <1>1, <1>4 DEF IInv, TypeOK, Leq, Content, Flags
<1>5. Dirty \subseteq Dirty'
  BY Zenon, <1>1, <1>3, <1>4 DEF IInv, TypeOK, SavesInv, Dirty, Resident
<1>6. SavesInv'
  BY SMTT(90), <1>1, <1>3, <1>5 DEF IInv, TypeOK, SavesInv, Between, Leq, Content, SaveMsg, SaveReceipt, Resident
<1>7. DiskInv'
  BY <1>1, <1>3, <1>5 DEF IInv, TypeOK, DiskInv, Resident
<1>8. LoadsInv'
  BY Zenon, <1>1, <1>3 DEF IInv, LoadsInv
<1>9. GenInv' /\ StopInv'
  BY Zenon, <1>1, <1>3 DEF IInv, TypeOK, GenInv, StopInv
<1> QED BY Zenon, <1>2, <1>6, <1>7, <1>8, <1>9 DEF IInv

(* Steps that only move the owner, pins, or the set of adopted chunks. *)
LEMMA PinIInv == ASSUME IInv, NEW p \in Chunk, Pin(p) \/ Unpin(p) PROVE IInv'
<1>1. /\ pins' \in [Chunk -> Nat]
      /\ UNCHANGED <<cur, persisted, fileVars, saveVars, loadVars, chunks, genVars, ownerVars, latest>>
  BY DEF Pin, Unpin, IInv, TypeOK
<1> QED
  BY SMTT(90), <1>1 DEF fileVars, saveVars, loadVars, genVars, ownerVars, IInv, TypeOK, SavesInv, DiskInv,
              LoadsInv, GenInv, StopInv, Between, Resident, Dirty

(* Steps of the owner that only move its place: the start of a tick, the end of its load phase, stop. *)
LEMMA OwnerIInv == ASSUME IInv, BeginTick \/ EndLoads \/ Stop PROVE IInv'
<1>1. /\ pc' \in {"loads", "saves", "flush"} /\ left' \in Nat /\ target' = target
      /\ UNCHANGED <<storeVars, fileVars, saveVars, loadVars, chunks, genVars, latest>>
  BY Zenon, PersistenceAssumption DEF BeginTick, EndLoads, Stop, IInv, TypeOK
<1> QED
  BY SMTT(90), <1>1 DEF storeVars, fileVars, saveVars, loadVars, genVars, IInv, TypeOK, SavesInv, DiskInv,
              LoadsInv, GenInv, StopInv, Between, Resident, Dirty

(* try_evict_chunk: a clean chunk may leave because it is durable. *)
LEMMA EvictIInv == ASSUME IInv, NEW K \in SUBSET chunks, EvictCleanUnpinned(K) PROVE IInv'
<1> USE PersistenceAssumption
    DEF EvictCleanUnpinned, Evictable, saveVars, loadVars, fileVars, genVars, ownerVars
<1>1. TypeOK'
  BY Zenon DEF IInv, TypeOK
<1>2. Resident' = Resident \ K /\ Dirty' = Dirty /\ K \cap Dirty = {} /\ K \subseteq Resident
  BY DEF IInv, TypeOK, LoadsInv, Resident, Dirty
<1>3. SavesInv'
  <2>1. \A x \in save_in_flight : cur'[x] = cur[x] /\ persisted'[x] = persisted[x]
    BY Zenon, <1>2 DEF IInv, TypeOK, SavesInv
  <2> QED BY Zenon, <1>2, <2>1 DEF IInv, SavesInv, Between, Resident
<1>4. DiskInv'
  <2>1. ASSUME NEW x \in K
        PROVE  durable[x] = latest[x]
    <3>1. x \in Resident /\ cur[x] = persisted[x] /\ x \notin save_in_flight
      BY Zenon, <1>2 DEF IInv, SavesInv, Dirty
    <3>2. \A d \in saveDone : d.pos # x
      BY Zenon, <3>1 DEF IInv, SavesInv
    <3> QED BY Zenon, <3>1, <3>2 DEF IInv, DiskInv, Resident
  <2> QED BY Zenon, <1>2, <2>1 DEF IInv, DiskInv, Resident
<1>5. LoadsInv'
  BY Zenon, <1>2 DEF IInv, LoadsInv
<1>6. GenInv' /\ StopInv'
  BY Zenon DEF IInv, GenInv, StopInv
<1> QED BY Zenon, <1>1, <1>3, <1>4, <1>5, <1>6 DEF IInv

(* Asking the load service for positions that are neither resident nor known
   to be missing. *)
LEMMA RequestIInv ==
    ASSUME IInv, NEW P \in SUBSET Chunk, P \cap (Resident \cup load_missing) = {}, Request(P),
           UNCHANGED <<storeVars, fileVars, saveVars, load_missing, loadDone, genVars, latest>>,
           UNCHANGED chunks, pc' = "idle", left' \in Nat, target' \in Chunk
    PROVE  IInv'
<1> USE DEF Request, storeVars, saveVars, fileVars, genVars
<1>1. TypeOK'
  BY Zenon DEF IInv, TypeOK
<1>2. Resident' = Resident /\ Dirty' = Dirty
  BY Zenon DEF Resident, Dirty
<1>3. SavesInv' /\ DiskInv' /\ GenInv' /\ StopInv'
  BY Zenon, <1>2 DEF IInv, SavesInv, DiskInv, GenInv, StopInv, Between
<1>4. LoadsInv'
  BY Zenon, <1>2 DEF IInv, LoadsInv
<1> QED BY Zenon, <1>1, <1>3, <1>4 DEF IInv

(* MainChunkSource::getOrGenerate. *)
LEMMA GetOrGenerateIInv == ASSUME IInv, NEW p \in Chunk, GetOrGenerate(p) PROVE IInv'
<1>1. Cardinality(Nbr[p]) \in Nat
  BY Zenon, PersistenceAssumption
<1>2. CASE p \notin Resident \cup load_missing
  BY <1>2, RequestIInv DEF GetOrGenerate, IInv, TypeOK, ownerVars
<1>3. CASE p \in Resident \cup load_missing
  <2>1. /\ UNCHANGED <<storeVars, fileVars, saveVars, loadVars, genVars, latest>>
        /\ pc' \in {"idle", "neighborhood"} /\ left' \in Nat /\ target' \in Chunk
        /\ chunks' \subseteq Resident
    BY Zenon, <1>1, <1>3 DEF GetOrGenerate, IInv, TypeOK, LoadsInv, ownerVars
  <2> USE <2>1 DEF storeVars, saveVars, loadVars, fileVars, genVars
  <2>2. TypeOK'
    BY Zenon DEF IInv, TypeOK, Resident
  <2>3. Resident' = Resident /\ Dirty' = Dirty
    BY Zenon DEF Resident, Dirty
  <2>4. SavesInv' /\ DiskInv' /\ GenInv' /\ StopInv' /\ LoadsInv'
    BY Zenon, <2>3 DEF IInv, SavesInv, DiskInv, GenInv, StopInv, LoadsInv, Between
  <2> QED BY Zenon, <2>2, <2>4 DEF IInv
<1> QED BY Zenon, <1>2, <1>3

(* The preflight that answers "loading". *)
LEMMA NeighborhoodLoadingIInv == ASSUME IInv, NeighborhoodLoading PROVE IInv'
<1>1. Unsettled(target) \in SUBSET Chunk /\ Unsettled(target) \cap (Resident \cup load_missing) = {}
  BY Zenon, PersistenceAssumption DEF Unsettled, IInv, TypeOK
<1> QED BY Zenon, <1>1, RequestIInv DEF NeighborhoodLoading, IInv, TypeOK

(* Generation: what the call leaves of every chunk. *)
LEMMA GenerateIInv == ASSUME IInv, NEW B \in SUBSET Chunk, GenerateIntoStore(B) PROVE IInv'
<1> DEFINE fresh   == Nbr[target] \ Resident
           R       == Resident \cup fresh
           centers == PostProcessed(fresh, R)
           touched == UNION {Nbr[x] : x \in centers}
<1> USE PersistenceAssumption DEF saveVars, fileVars
<1>1. /\ fresh \subseteq load_missing /\ fresh \cap Resident = {}
      /\ fresh \subseteq Chunk /\ touched \subseteq R /\ centers \subseteq touched
      /\ \A x \in centers \cap Resident : cur[x].flags # "full"
  BY SMTT(90) DEF GenerateIntoStore, Unsettled, PostProcessed, Resident, IInv, TypeOK
<1>2. ASSUME NEW x \in Chunk
      PROVE  /\ x \notin R => cur'[x] = cur[x]
             /\ x \in R => cur'[x] \in Content
             /\ x \in Resident => cur[x] \in Content /\ Leq(cur[x], cur'[x])
  <2>1. CASE x \notin fresh \cup touched
    BY SMTT(90), <1>1, <2>1 DEF GenerateIntoStore, IInv, TypeOK, Resident, Content, Leq
  <2>2. CASE x \in fresh
    BY SMTT(90), <1>1, <2>2 DEF GenerateIntoStore, Content, Flags
  <2>3. CASE x \in touched \ fresh
    <3>1. x \in Resident /\ cur[x] \in Content
      BY Zenon, <1>1, <2>3 DEF IInv, TypeOK, Resident
    <3>2. cur'[x] = [rev   |-> cur[x].rev + (IF x \in B THEN 1 ELSE 0),
                     flags |-> IF x \in centers THEN "full" ELSE cur[x].flags]
      BY Zenon, <2>3, <3>1 DEF GenerateIntoStore
    <3> QED BY <1>1, <3>1, <3>2 DEF Content, Flags, Leq
  <2> QED BY Zenon, <2>1, <2>2, <2>3
<1>3. Resident' = R
  <2> HIDE DEF fresh, centers, touched
  <2>1. Resident \subseteq Chunk /\ \A x \in Chunk : x \in Resident <=> cur[x] # None
    BY Zenon DEF Resident
  <2> QED BY Zenon, <1>1, <1>2, <2>1, NoneIsNoContent DEF Resident
<1>4. TypeOK'
  <2>1. cur' \in [Chunk -> Content \cup {None}]
    BY Zenon, <1>2 DEF GenerateIntoStore, IInv, TypeOK
  <2>2. latest' \in [Chunk -> Content \cup {None}]
    BY Zenon, <1>2 DEF GenerateIntoStore, IInv, TypeOK
  <2>3. /\ load_missing' = load_missing \ Nbr[target] /\ chunks' = chunks \cup {target}
        /\ genState' = genState \cup fresh /\ genDirty' = TRUE /\ pc' = "idle"
        /\ UNCHANGED <<left, target, persisted, pins, visible, durable, tried, save_in_flight,
                       saveQ, saveDone, in_flight, loadQ, loadDone, genDisk>>
    BY Zenon DEF GenerateIntoStore, ClearMissing
  <2> HIDE DEF fresh, R, centers, touched
  <2> QED BY Zenon, <1>1, <2>1, <2>2, <2>3 DEF IInv, TypeOK
<1>5. \A x \in fresh : persisted[x] = None /\ durable[x] = None /\ visible[x] = None
  BY Zenon, <1>1 DEF IInv, DiskInv, LoadsInv, TypeOK, Dirty
<1>6. Dirty \subseteq Dirty' /\ fresh \subseteq Dirty'
  <2>1. ASSUME NEW x \in Dirty, cur'[x] = persisted[x]
        PROVE  FALSE
    <3>1. x \in Resident /\ cur[x] # persisted[x] /\ persisted[x] # None
      <4> HIDE DEF fresh, centers, touched
      <4> QED BY Zenon, <1>2, <2>1, NoneIsNoContent DEF Dirty, Resident
    <3>2. Leq(persisted[x], cur[x]) /\ Leq(cur[x], persisted[x])
      BY Zenon, <1>2, <2>1, <3>1 DEF IInv, SavesInv, Resident
    <3>3. persisted[x] \in Content /\ cur[x] \in Content
      BY Zenon, <3>1 DEF IInv, TypeOK, Resident
    <3> QED BY <3>1, <3>2, <3>3 DEF Leq, Content, Flags
  <2>2. persisted' = persisted
    BY Zenon DEF GenerateIntoStore
  <2>3. \A x \in R : cur'[x] # None
    BY Zenon, <1>3 DEF Resident
  <2> HIDE DEF fresh, centers, touched
  <2> QED BY Zenon, <1>1, <1>3, <1>5, <2>1, <2>2, <2>3 DEF Dirty
<1>7. SavesInv'
  <2>1. \A x \in Resident : persisted[x] # None => Leq(persisted[x], cur'[x])
    BY SMTT(90), <1>2 DEF IInv, TypeOK, SavesInv, Leq, Content, Resident
  <2>2. \A m \in saveQ \cup saveDone : m.pos \in Resident /\ Leq(m.content, cur'[m.pos])
    BY SMTT(90), <1>2 DEF IInv, TypeOK, SavesInv, SaveMsg, SaveReceipt, Between, Leq, Content, Dirty, Resident
  <2>3. UNCHANGED <<persisted, save_in_flight, saveQ, saveDone>>
    BY Zenon DEF GenerateIntoStore
  <2> HIDE DEF fresh, R, centers, touched
  <2> QED BY Zenon, <1>3, <1>5, <1>6, <2>1, <2>2, <2>3 DEF R, IInv, SavesInv, Between
<1>8. DiskInv'
  <2>1. /\ UNCHANGED <<persisted, durable, visible, saveDone>>
        /\ latest' = [x \in Chunk |-> IF x \in R THEN cur'[x] ELSE latest[x]]
    BY Zenon DEF GenerateIntoStore
  <2> HIDE DEF fresh, centers, touched
  <2> QED BY Zenon, <1>1, <1>3, <1>5, <1>6, <2>1 DEF IInv, DiskInv, TypeOK, SavesInv
<1>9. LoadsInv'
  <2>1. /\ load_missing' = load_missing \ Nbr[target] /\ chunks' = chunks \cup {target}
        /\ UNCHANGED <<durable, in_flight, loadQ, loadDone>>
    BY Zenon DEF GenerateIntoStore, ClearMissing
  <2>2. target \in R /\ target \in Chunk
    BY Zenon DEF IInv, TypeOK
  <2> HIDE DEF centers, touched
  <2> QED BY Zenon, <1>1, <1>3, <2>1, <2>2 DEF IInv, LoadsInv, TypeOK
<1>10. GenInv'
  <2>1. /\ genState' = genState \cup fresh /\ genDirty' = TRUE /\ genDisk' = genDisk
        /\ durable' = durable /\ latest' = [x \in Chunk |-> IF x \in R THEN cur'[x] ELSE latest[x]]
    BY Zenon DEF GenerateIntoStore
  <2>2. \A x \in R : cur'[x] # None
    BY Zenon, <1>3 DEF Resident
  <2> HIDE DEF fresh, centers, touched
  <2> QED BY Zenon, <1>1, <2>1, <2>2 DEF IInv, GenInv, TypeOK
<1>11. StopInv'
  BY Zenon DEF GenerateIntoStore, StopInv
<1> QED BY Zenon, <1>4, <1>7, <1>8, <1>9, <1>10, <1>11 DEF IInv

(* poll_load_completions: a loaded chunk enters clean. *)
LEMMA PollLoadIInv == ASSUME IInv, NEW d \in loadDone, PollLoad(d) PROVE IInv'
<1> USE DEF PollLoad, ClearMissing, Throw, saveVars, fileVars, genVars, storeVars
<1>1. /\ d \in LoadOutcome /\ d.pos \in Chunk /\ d.pos \in in_flight /\ d.pos \notin Resident
      /\ d.pos \notin load_missing /\ d.pos \notin save_in_flight /\ pc # "flushed"
  BY Zenon DEF IInv, TypeOK, LoadsInv, SavesInv, Dirty, LoadOutcome
<1>2. d.out \in {"loaded", "missing", "failed"}
  BY Zenon, <1>1 DEF LoadOutcome
<1>3. CASE d.out = "loaded"
  <2>1. d.content \in Content /\ d.content = durable[d.pos] /\ d.content # None
    BY Zenon, <1>1, <1>3 DEF IInv, LoadsInv, LoadOutcome
  <2>2. /\ cur' = [cur EXCEPT ![d.pos] = d.content]
        /\ persisted' = [persisted EXCEPT ![d.pos] = d.content]
        /\ pins' = [pins EXCEPT ![d.pos] = 0]
        /\ load_missing' = load_missing \ {d.pos}
        /\ pc' = pc /\ target' = target /\ left' = left - 1 /\ left > 0
    BY Zenon, <1>1, <1>3
  <2>3. TypeOK'
    BY SMTT(90), <1>1, <2>1, <2>2 DEF IInv, TypeOK
  <2>4. Resident' = Resident \cup {d.pos} /\ Dirty' = Dirty
    <3>1. /\ cur'[d.pos] = d.content /\ persisted'[d.pos] = d.content
          /\ \A x \in Chunk : x # d.pos => cur'[x] = cur[x] /\ persisted'[x] = persisted[x]
      BY Zenon, <1>1, <2>2 DEF IInv, TypeOK
    <3>2. Resident' = Resident \cup {d.pos}
      BY Zenon, <1>1, <2>1, <3>1 DEF Resident
    <3> QED BY <1>1, <3>1, <3>2 DEF Dirty, Resident
  <2>5. SavesInv'
    <3>1. UNCHANGED <<save_in_flight, saveQ, saveDone>>
      BY Zenon
    <3>2. Leq(cur'[d.pos], cur'[d.pos]) /\ persisted'[d.pos] = cur'[d.pos]
      BY SMTT(90), <1>1, <2>1, <2>2 DEF IInv, TypeOK, Leq, Content
    <3>3. \A x \in Chunk : x # d.pos => cur'[x] = cur[x] /\ persisted'[x] = persisted[x]
      BY Zenon, <2>2 DEF IInv, TypeOK
    <3>4. \A m \in saveQ \cup saveDone : m.pos \in Chunk /\ m.pos # d.pos
      BY Zenon, <1>1 DEF IInv, TypeOK, SavesInv
    <3> HIDE DEF PollLoad
    <3> QED BY Zenon, <1>1, <2>4, <3>1, <3>2, <3>3, <3>4 DEF IInv, SavesInv, Between, Resident
  <2>6. DiskInv'
    <3>1. /\ cur'[d.pos] = d.content /\ persisted'[d.pos] = d.content
          /\ \A x \in Chunk : x # d.pos => cur'[x] = cur[x] /\ persisted'[x] = persisted[x]
      BY Zenon, <1>1, <2>2 DEF IInv, TypeOK
    <3>2. UNCHANGED <<durable, visible, latest, saveDone>>
      BY Zenon
    <3>3. latest[d.pos] = durable[d.pos]
      BY Zenon, <1>1 DEF IInv, DiskInv
    <3> HIDE DEF PollLoad
    <3> QED BY Zenon, <1>1, <2>1, <2>4, <3>1, <3>2, <3>3 DEF IInv, DiskInv, Resident
  <2>7. LoadsInv'
    BY Zenon, <1>1, <2>2, <2>4 DEF IInv, LoadsInv
  <2>8. GenInv' /\ StopInv'
    BY Zenon, <1>1, <2>2 DEF IInv, GenInv, StopInv
  <2> QED BY Zenon, <2>3, <2>5, <2>6, <2>7, <2>8 DEF IInv
<1>4. CASE d.out # "loaded"
  <2>1. /\ UNCHANGED storeVars /\ pc' \in {pc, "flush"} /\ target' = target /\ left' \in Nat
        /\ \/ load_missing' = load_missing
           \/ d.out = "missing" /\ load_missing' = load_missing \cup {d.pos}
    BY SMTT(90), <1>2, <1>4 DEF IInv, TypeOK
  <2>2. TypeOK'
    BY Zenon, <1>1, <2>1 DEF IInv, TypeOK
  <2>3. Resident' = Resident /\ Dirty' = Dirty
    BY Zenon, <2>1 DEF Resident, Dirty
  <2>4. SavesInv' /\ DiskInv' /\ GenInv' /\ StopInv'
    BY Zenon, <1>1, <2>1, <2>3 DEF IInv, SavesInv, DiskInv, GenInv, StopInv, Between
  <2>5. LoadsInv'
    BY Zenon, <1>1, <2>1, <2>3 DEF IInv, LoadsInv
  <2> QED BY Zenon, <2>2, <2>4, <2>5 DEF IInv
<1> QED BY Zenon, <1>3, <1>4

(* apply_save_completion: the watermark moves to what is durable. *)
LEMMA PollSaveIInv == ASSUME IInv, NEW d \in saveDone, PollSave(d) PROVE IInv'
<1> USE DEF PollSave, Watermark, loadVars, fileVars, genVars
<1>1. /\ d.pos \in Resident /\ d.pos \in Chunk /\ d.content \in Content /\ d.ok \in BOOLEAN
      /\ d.pos \in save_in_flight /\ Between(d.pos, d.content) /\ pc # "flushed"
  BY Zenon DEF IInv, TypeOK, SavesInv, Dirty, SaveReceipt
<1>2. /\ pc' \in {pc, "flush", "failed"} /\ left' \in Nat /\ target' = target
      /\ UNCHANGED <<cur, pins, fileVars, saveQ, loadVars, chunks, genVars, latest>>
      /\ saveDone' = saveDone \ {d} /\ save_in_flight' = save_in_flight \ {d.pos}
  BY SMTT(90) DEF IInv, TypeOK
<1>3. Resident' = Resident
  BY Zenon, <1>2 DEF Resident
<1>6. /\ d.ok => persisted' = [persisted EXCEPT ![d.pos] = d.content]
      /\ ~d.ok => persisted' = persisted
  BY Zenon, <1>1 DEF MarkAccepted, Between, Leq
<1> HIDE DEF PollSave
<1>4. CASE d.ok
  <2>1. persisted' = [persisted EXCEPT ![d.pos] = d.content]
    BY Zenon, <1>4, <1>6
  <2>2. TypeOK'
    BY Zenon, <1>1, <1>2, <2>1 DEF IInv, TypeOK
  <2>3. \A x \in Chunk : x # d.pos => (x \in Dirty' <=> x \in Dirty)
    BY Zenon, <1>2, <1>3, <2>1 DEF Dirty, IInv, TypeOK
  <2>4. SavesInv'
    BY Zenon, <1>1, <1>2, <1>3, <2>1, <2>3
    DEF IInv, TypeOK, SavesInv, Between, SaveMsg, SaveReceipt, Resident
  <2>5. DiskInv'
    <3>1. /\ persisted'[d.pos] = d.content
          /\ \A x \in Chunk : x # d.pos => persisted'[x] = persisted[x]
      BY Zenon, <1>1, <2>1 DEF IInv, TypeOK
    <3>2. durable[d.pos] = d.content /\ visible[d.pos] = d.content
      BY Zenon, <1>4 DEF IInv, DiskInv
    <3>3. Resident \subseteq Chunk /\ \A x \in saveDone : x.pos = d.pos => x = d
      BY Zenon DEF Resident, IInv, SavesInv
    <3>4. UNCHANGED <<cur, visible, durable, latest>> /\ saveDone' = saveDone \ {d}
      BY Zenon, <1>2
    <3>5. \A x \in Chunk : IF x \in Resident' THEN latest'[x] = cur'[x]
                            ELSE latest'[x] = durable'[x] /\ persisted'[x] = None
      BY Zenon, <1>1, <1>3, <3>1, <3>4 DEF IInv, DiskInv
    <3>6. \A e \in saveDone' : e.ok => durable'[e.pos] = e.content /\ visible'[e.pos] = e.content
      BY Zenon, <3>4 DEF IInv, DiskInv
    <3>7. ASSUME NEW x \in Resident', \A e \in saveDone' : e.pos = x => ~e.ok
          PROVE  durable'[x] = persisted'[x]
      <4>1. CASE x = d.pos
        BY Zenon, <3>1, <3>2, <3>4, <4>1
      <4>2. CASE x # d.pos
        BY Zenon, <1>3, <3>1, <3>3, <3>4, <3>7, <4>2 DEF IInv, DiskInv
      <4> QED BY Zenon, <4>1, <4>2
    <3>8. \A x \in Chunk : visible'[x] # durable'[x] => x \in Dirty'
      BY Zenon, <2>3, <3>2, <3>4 DEF IInv, DiskInv
    <3>9. \A x \in Chunk : durable'[x] # None => visible'[x] # None /\ Leq(durable'[x], visible'[x])
      BY Zenon, <3>4 DEF IInv, DiskInv
    <3> QED BY Zenon, <3>5, <3>6, <3>7, <3>8, <3>9 DEF DiskInv
  <2>6. LoadsInv'
    BY Zenon, <1>2, <1>3 DEF IInv, LoadsInv
  <2>7. GenInv' /\ StopInv'
    BY Zenon, <1>1, <1>2, <1>3 DEF IInv, GenInv, StopInv
  <2> QED BY Zenon, <2>2, <2>4, <2>5, <2>6, <2>7 DEF IInv
<1>5. CASE ~d.ok
  <2>1. persisted' = persisted
    BY Zenon, <1>5, <1>6
  <2>2. TypeOK'
    BY Zenon, <1>2, <2>1 DEF IInv, TypeOK
  <2>3. Dirty' = Dirty
    BY Zenon, <1>2, <1>3, <2>1 DEF Dirty
  <2>4. SavesInv'
    BY Zenon, <1>1, <1>2, <1>3, <2>1, <2>3 DEF IInv, SavesInv, Between
  <2>5. DiskInv'
    BY Zenon, <1>1, <1>2, <1>3, <1>5, <2>1, <2>3 DEF IInv, SavesInv, DiskInv
  <2>6. LoadsInv'
    BY Zenon, <1>2, <1>3 DEF IInv, LoadsInv
  <2>7. GenInv' /\ StopInv'
    BY Zenon, <1>1, <1>2, <1>3 DEF IInv, GenInv, StopInv
  <2> QED BY Zenon, <2>2, <2>4, <2>5, <2>6, <2>7 DEF IInv
<1> QED BY Zenon, <1>1, <1>4, <1>5

(* Submitting snapshots of chunks that are dirty and not in flight. *)
LEMMA ScheduleSaves ==
    ASSUME IInv, NEW S \in SUBSET Candidates, Schedule(S),
           UNCHANGED <<storeVars, fileVars, saveDone, latest>>
    PROVE  SavesInv' /\ DiskInv' /\ Resident' = Resident /\ Dirty' = Dirty
           /\ save_in_flight' \subseteq Chunk /\ saveQ' \subseteq SaveMsg
<1> USE DEF Schedule, storeVars, fileVars
<1>1. Resident' = Resident /\ Dirty' = Dirty
  BY Zenon DEF Resident, Dirty
<1>2. S \subseteq Dirty /\ S \cap save_in_flight = {} /\ S \subseteq Chunk
      /\ \A p \in S : cur[p] \in Content /\ Leq(cur[p], cur[p])
  BY SMTT(90) DEF Candidates, Dirty, Resident, IInv, TypeOK, Leq, Content
<1>3. SavesInv'
  <2>1. save_in_flight' \subseteq Dirty'
    BY Zenon, <1>1, <1>2 DEF IInv, SavesInv
  <2>2. \A m \in saveQ' : m \in saveQ \/ (m.pos \in S /\ m.content = cur[m.pos])
    BY SMTT(90)
  <2>3. \A p \in Resident' : persisted'[p] # None => Leq(persisted'[p], cur'[p])
    BY Zenon, <1>1 DEF IInv, SavesInv
  <2>4. \A p \in S : Between(p, cur[p])
    BY Zenon, <1>2, <2>3, <1>1 DEF Between, Dirty
  <2>5. \A m \in saveQ' : m.pos \in save_in_flight' /\ Between(m.pos, m.content)'
    BY Zenon, <2>2, <2>4 DEF IInv, SavesInv, Between
  <2>6. \A d \in saveDone' : d.pos \in save_in_flight' /\ Between(d.pos, d.content)'
    BY Zenon DEF IInv, SavesInv, Between
  <2>7. ASSUME NEW m \in saveQ', NEW n \in saveQ', m.pos = n.pos PROVE m = n
    <3> DEFINE Sent == {[pos |-> p, content |-> cur[p]] : p \in S}
    <3>1. saveQ' = saveQ \cup Sent
      BY Zenon
    <3>2. \A x \in Sent : x.pos \in S /\ x = [pos |-> x.pos, content |-> cur[x.pos]]
      OBVIOUS
    <3>3. \A x \in saveQ : x.pos \notin S
      BY Zenon, <1>2 DEF IInv, SavesInv
    <3>4. \A x, y \in saveQ : x.pos = y.pos => x = y
      BY Zenon DEF IInv, SavesInv
    <3> HIDE DEF Sent
    <3>5. CASE m \in saveQ /\ n \in saveQ
      BY Zenon, <2>7, <3>4, <3>5
    <3>6. CASE m \in Sent /\ n \in Sent
      BY Zenon, <2>7, <3>2, <3>6
    <3>7. CASE (m \in saveQ /\ n \in Sent) \/ (m \in Sent /\ n \in saveQ)
      BY Zenon, <2>7, <3>2, <3>3, <3>7
    <3> QED BY Zenon, <3>1, <3>5, <3>6, <3>7
  <2>8. /\ \A d, e \in saveDone' : d.pos = e.pos => d = e
        /\ \A m \in saveQ', d \in saveDone' : m.pos # d.pos
    BY Zenon, <1>2, <2>2 DEF IInv, SavesInv
  <2> QED BY Zenon, <2>1, <2>3, <2>5, <2>6, <2>7, <2>8 DEF SavesInv
<1>4. DiskInv'
  BY Zenon, <1>1 DEF IInv, DiskInv
<1>5. save_in_flight' \subseteq Chunk /\ saveQ' \subseteq SaveMsg
  BY SMTT(90), <1>2 DEF IInv, TypeOK, SaveMsg
<1> QED BY Zenon, <1>1, <1>3, <1>4, <1>5

(* When nothing is dirty and no receipt is outstanding, stable storage has
   everything. *)
LEMMA CleanMeansDurable ==
    ASSUME IInv, Dirty = {}, save_in_flight = {} PROVE \A p \in Chunk : durable[p] = latest[p]
<1>1. saveDone = {}
  BY Zenon DEF IInv, SavesInv
<1> QED BY Zenon, <1>1 DEF IInv, DiskInv, Dirty, Resident

(* The end of a tick: saves are scheduled, the generator state goes out when that is safe. *)
LEMMA EndTickIInv == ASSUME IInv, NEW S \in SUBSET Candidates, EndTick(S) PROVE IInv'
<1>1. /\ SavesInv' /\ DiskInv' /\ Resident' = Resident /\ Dirty' = Dirty
      /\ save_in_flight' \subseteq Chunk /\ saveQ' \subseteq SaveMsg
  BY Zenon, ScheduleSaves DEF EndTick
<1>2. /\ pc' = "idle" /\ UNCHANGED <<left, target, storeVars, fileVars, saveDone, loadVars, chunks, latest>>
      /\ \/ UNCHANGED genVars
         \/ Dirty = {} /\ save_in_flight' = {} /\ genDisk' = genState /\ genDirty' = FALSE
            /\ genState' = genState
  BY Zenon DEF EndTick, GeneratorSafe, PersistGenerator
<1> USE DEF storeVars, fileVars, loadVars, genVars
<1>3. TypeOK'
  BY Zenon, <1>1, <1>2 DEF IInv, TypeOK
<1>4. GenInv'
  <2>1. CASE UNCHANGED genVars
    BY Zenon, <1>2, <2>1 DEF IInv, GenInv
  <2>2. CASE ~UNCHANGED genVars
    <3>1. save_in_flight = {} /\ Dirty = {}
      BY Zenon, <1>2, <2>2 DEF EndTick, Schedule
    <3> QED BY Zenon, <1>2, <2>2, <3>1, CleanMeansDurable DEF IInv, TypeOK, GenInv
  <2> QED BY Zenon, <2>1, <2>2
<1>5. LoadsInv' /\ StopInv'
  BY Zenon, <1>1, <1>2 DEF IInv, LoadsInv, StopInv
<1> QED BY Zenon, <1>1, <1>3, <1>4, <1>5 DEF IInv

(* flush_persistence submits what is still dirty. *)
LEMMA FlushScheduleIInv == ASSUME IInv, NEW S \in SUBSET Candidates, FlushSchedule(S) PROVE IInv'
<1>1. /\ SavesInv' /\ DiskInv' /\ Resident' = Resident
      /\ save_in_flight' \subseteq Chunk /\ saveQ' \subseteq SaveMsg
  BY Zenon, ScheduleSaves DEF FlushSchedule
<1>2. /\ pc = "flush"
      /\ UNCHANGED <<saveDone, storeVars, fileVars, loadVars, chunks, genVars, ownerVars, latest>>
  BY Zenon DEF FlushSchedule
<1>3. TypeOK' /\ LoadsInv' /\ GenInv' /\ StopInv'
  BY Zenon, <1>1, <1>2 DEF storeVars, fileVars, loadVars, genVars, ownerVars, IInv, TypeOK, LoadsInv,
                    GenInv, StopInv
<1> QED BY Zenon, <1>1, <1>3 DEF IInv

(* flush_all returns. *)
LEMMA FlushDoneIInv == ASSUME IInv, FlushDone PROVE IInv'
<1>1. /\ Dirty = {} /\ save_in_flight = {} /\ pc' = "flushed"
      /\ UNCHANGED <<left, target, storeVars, fileVars, saveVars, loadVars, chunks, latest>>
      /\ genState' = genState /\ genDirty' = FALSE /\ genDisk' \in {genDisk, genState}
      /\ genDirty => genDisk' = genState
      /\ ~genDirty => genDisk' = genDisk
  BY Zenon DEF FlushDone, FlushComplete, PersistGenerator, Candidates, genVars, IInv, TypeOK
<1> USE DEF storeVars, fileVars, saveVars, loadVars
<1>2. TypeOK'
  BY Zenon, <1>1 DEF IInv, TypeOK
<1>3. Resident' = Resident /\ Dirty' = Dirty
  BY Zenon, <1>1 DEF Resident, Dirty
<1>4. SavesInv' /\ DiskInv' /\ LoadsInv' /\ StopInv'
  BY Zenon, <1>1, <1>3 DEF IInv, SavesInv, DiskInv, LoadsInv, StopInv, Between
<1>5. GenInv'
  <2>1. \A p \in Chunk : durable[p] = latest[p]
    BY Zenon, <1>1, CleanMeansDurable
  <2> QED BY Zenon, <1>1, <2>1 DEF IInv, TypeOK, GenInv
<1> QED BY Zenon, <1>2, <1>4, <1>5 DEF IInv

(* load_chunk answers with what is durable, for a chunk that cannot be dirty. *)
LEMMA LoadWorkerIInv == ASSUME IInv, NEW p \in loadQ, NEW ok \in BOOLEAN, LoadWorker(p, ok) PROVE IInv'
<1> USE DEF LoadWorker, storeVars, fileVars, saveVars, genVars, ownerVars
<1>1. p \in Chunk /\ p \in in_flight /\ p \notin Resident /\ visible[p] = durable[p]
  BY Zenon DEF IInv, TypeOK, LoadsInv, DiskInv, Dirty
<1>2. TypeOK'
  BY SMTT(90), <1>1 DEF IInv, TypeOK, LoadOutcome
<1>3. Resident' = Resident /\ Dirty' = Dirty
  BY Zenon DEF Resident, Dirty
<1>4. SavesInv' /\ DiskInv' /\ GenInv' /\ StopInv'
  BY Zenon, <1>3 DEF IInv, SavesInv, DiskInv, GenInv, StopInv, Between
<1>5. LoadsInv'
  <2> DEFINE o == [pos |-> p, content |-> visible[p],
                   out |-> IF ~ok THEN "failed" ELSE IF visible[p] = None THEN "missing" ELSE "loaded"]
  <2>1. /\ loadQ' = loadQ \ {p} /\ loadDone' = loadDone \cup {o}
        /\ UNCHANGED <<load_missing, in_flight, chunks, durable>>
    BY Zenon
  <2>2. /\ o.pos = p
        /\ o.out = "loaded" => o.content = durable[p] /\ o.content # None
        /\ o.out = "missing" => o.content = None /\ durable[p] = None
    BY Zenon, <1>1
  <2>3. \A d \in loadDone : d.pos # p
    BY Zenon DEF IInv, LoadsInv
  <2> HIDE DEF o, LoadWorker
  <2> QED BY Zenon, <1>1, <1>3, <2>1, <2>2, <2>3 DEF IInv, LoadsInv
<1> QED BY Zenon, <1>2, <1>4, <1>5 DEF IInv

(* While a snapshot waits in the channel, the watermark is what is durable. *)
LEMMA QueuedSave ==
    ASSUME IInv, NEW m \in saveQ
    PROVE  /\ m.pos \in Dirty /\ m.pos \in Resident /\ m.pos \in Chunk /\ m.content \in Content
           /\ Between(m.pos, m.content) /\ durable[m.pos] = persisted[m.pos]
           /\ \A d \in saveDone : d.pos # m.pos
<1>1. m.pos \in Dirty /\ m.pos \in Resident /\ m.pos \in Chunk /\ m.content \in Content
      /\ Between(m.pos, m.content) /\ \A d \in saveDone : d.pos # m.pos
  BY Zenon DEF IInv, TypeOK, SavesInv, Dirty, SaveMsg
<1> QED BY Zenon, <1>1 DEF IInv, DiskInv

(* save_snapshot, acknowledged or failed. *)
LEMMA SaveWorkerIInv == ASSUME IInv, NEW m \in saveQ, NEW ok \in BOOLEAN, SaveWorker(m, ok) PROVE IInv'
<1> DEFINE written == [durable EXCEPT ![m.pos] = m.content]
           receipt == [pos |-> m.pos, content |-> m.content, ok |-> ok]
<1>1. /\ saveQ' = saveQ \ {m} /\ saveDone' = saveDone \cup {receipt}
      /\ IF ok THEN visible' = written /\ durable' = written /\ tried' = {}
               ELSE /\ visible' \in {visible, durable, written} /\ durable' = durable
                    /\ tried' = tried \cup {written}
      /\ UNCHANGED <<storeVars, save_in_flight, loadVars, chunks, genVars, ownerVars, latest>>
  BY Zenon DEF SaveWorker
<1>2. /\ m.pos \in Dirty /\ m.pos \in Resident /\ m.pos \in Chunk /\ m.content \in Content
      /\ Between(m.pos, m.content) /\ durable[m.pos] = persisted[m.pos]
      /\ \A d \in saveDone : d.pos # m.pos
  BY Zenon, QueuedSave
<1> USE DEF storeVars, loadVars, genVars, ownerVars
<1>3. /\ written \in [Chunk -> Content \cup {None}] /\ written[m.pos] = m.content
      /\ \A x \in Chunk : x # m.pos => written[x] = durable[x]
  BY Zenon, <1>2 DEF IInv, TypeOK
<1>4. Resident' = Resident /\ Dirty' = Dirty
  BY Zenon, <1>1 DEF Resident, Dirty
<1> HIDE DEF written
<1>5. TypeOK'
  <2>1. receipt \in SaveReceipt
    BY Zenon, <1>2 DEF SaveReceipt
  <2> HIDE DEF receipt
  <2>2. saveQ' \subseteq SaveMsg /\ saveDone' \subseteq SaveReceipt
    BY Zenon, <1>1, <2>1 DEF IInv, TypeOK
  <2>3. /\ visible' \in [Chunk -> Content \cup {None}] /\ durable' \in [Chunk -> Content \cup {None}]
        /\ tried' \subseteq [Chunk -> Content \cup {None}]
    BY <1>1, <1>3 DEF IInv, TypeOK
  <2> QED BY Zenon, <1>1, <2>2, <2>3 DEF IInv, TypeOK
<1>6. SavesInv'
  <2>1. UNCHANGED <<cur, persisted, save_in_flight>>
    BY Zenon, <1>1
  <2>2. saveQ' \subseteq saveQ /\ m \notin saveQ' /\ \A d \in saveDone' : d \in saveDone \/ d = receipt
    BY Zenon, <1>1
  <2>3. receipt.pos = m.pos /\ receipt.content = m.content
    BY Zenon
  <2>4. m.pos \in save_in_flight /\ \A n \in saveQ' : n.pos # m.pos
    BY Zenon, <2>2 DEF IInv, SavesInv
  <2> HIDE DEF receipt
  <2> QED BY Zenon, <1>2, <1>4, <2>1, <2>2, <2>3, <2>4 DEF IInv, SavesInv, Between
<1>7. DiskInv'
  <2>1. \A x \in Chunk : IF x \in Resident' THEN latest'[x] = cur'[x]
                          ELSE latest'[x] = durable'[x] /\ persisted'[x] = None
    BY Zenon, <1>1, <1>2, <1>3, <1>4 DEF IInv, DiskInv
  <2>2. ASSUME NEW d \in saveDone', d.ok
        PROVE  durable'[d.pos] = d.content /\ visible'[d.pos] = d.content
    <3>1. CASE d \in saveDone
      <4>1. d.pos \in Chunk /\ d.pos # m.pos
        BY Zenon, <1>2, <3>1 DEF IInv, TypeOK, SaveReceipt
      <4>2. durable[d.pos] = d.content /\ visible[d.pos] = d.content
        BY Zenon, <2>2, <3>1 DEF IInv, DiskInv
      <4>3. durable'[d.pos] = durable[d.pos] /\ written[d.pos] = durable[d.pos]
        BY Zenon, <1>1, <1>3, <4>1
      <4> QED BY Zenon, <1>1, <4>1, <4>2, <4>3
    <3>2. CASE d = receipt
      BY Zenon, <1>1, <1>2, <1>3, <2>2, <3>2
    <3> QED BY Zenon, <1>1, <3>1, <3>2
  <2>3. ASSUME NEW x \in Resident', \A d \in saveDone' : d.pos = x => ~d.ok
        PROVE  durable'[x] = persisted'[x]
    <3>1. CASE x = m.pos
      <4>1. receipt \in saveDone' /\ receipt.pos = x /\ receipt.ok = ok
        BY Zenon, <1>1, <3>1
      <4>2. ~ok
        BY Zenon, <2>3, <4>1
      <4> QED BY Zenon, <1>1, <1>2, <3>1, <4>2
    <3>2. CASE x # m.pos
      <4>1. x \in Resident /\ x \in Chunk /\ \A d \in saveDone : d.pos = x => ~d.ok
        BY Zenon, <1>1, <1>4, <2>3 DEF Resident
      <4>2. durable[x] = persisted[x]
        BY Zenon, <4>1 DEF IInv, DiskInv
      <4> QED BY Zenon, <1>1, <1>3, <3>2, <4>1, <4>2
    <3> QED BY Zenon, <3>1, <3>2
  <2>4. \A x \in Chunk : visible'[x] # durable'[x] => x \in Dirty'
    BY Zenon, <1>1, <1>2, <1>3, <1>4 DEF IInv, DiskInv
  <2>5. ASSUME NEW x \in Chunk, durable'[x] # None
        PROVE  visible'[x] # None /\ Leq(durable'[x], visible'[x])
    <3>1. durable'[x] \in Content => Leq(durable'[x], durable'[x])
      BY DEF Leq, Content
    <3>2. durable'[x] \in Content
      BY Zenon, <1>5, <2>5 DEF TypeOK
    <3>3. x = m.pos /\ ~ok => Leq(durable[x], m.content) /\ m.content # None
      BY Zenon, <1>1, <1>2, <2>5, NoneIsNoContent DEF Between
    <3> QED BY Zenon, <1>1, <1>2, <1>3, <2>5, <3>1, <3>2, <3>3 DEF IInv, DiskInv
  <2> QED BY Zenon, <2>1, <2>2, <2>3, <2>4, <2>5 DEF DiskInv
<1>8. LoadsInv'
  <2>1. \A x \in in_flight \cup load_missing : x \in Chunk /\ durable'[x] = durable[x]
    <3>1. \A x \in in_flight \cup load_missing : x \in Chunk /\ x \notin Resident
      BY Zenon DEF IInv, LoadsInv, TypeOK
    <3> QED BY Zenon, <1>1, <1>2, <1>3, <3>1
  <2> QED BY Zenon, <1>1, <1>4, <2>1 DEF IInv, LoadsInv
<1>9. GenInv' /\ StopInv'
  <2>1. \A x \in Chunk : durable[x] # None => durable'[x] # None
    BY Zenon, <1>1, <1>2, <1>3, NoneIsNoContent
  <2> QED BY Zenon, <1>1, <1>4, <2>1 DEF IInv, TypeOK, GenInv, StopInv
<1> QED BY Zenon, <1>5, <1>6, <1>7, <1>8, <1>9 DEF IInv

(* compact_region. *)
LEMMA CompactWorkerIInv == ASSUME IInv, CompactWorker PROVE IInv'
<1> USE DEF CompactWorker, storeVars, saveVars, loadVars, genVars, ownerVars
<1>1. TypeOK'
  BY Zenon DEF IInv, TypeOK
<1>2. Resident' = Resident /\ Dirty' = Dirty
  BY Zenon DEF Resident, Dirty
<1>3. SavesInv' /\ LoadsInv' /\ GenInv' /\ StopInv'
  BY Zenon, <1>2 DEF IInv, SavesInv, LoadsInv, GenInv, StopInv, Between
<1>4. DiskInv'
  <2>1. \A x \in Chunk : durable[x] # None => Leq(durable[x], durable[x])
    BY DEF IInv, TypeOK, Leq, Content
  <2> QED BY Zenon, <1>2, <2>1 DEF IInv, DiskInv
<1> QED BY Zenon, <1>1, <1>3, <1>4 DEF IInv

(* A crash loses only what was not durable. *)
LEMMA CrashIInv == ASSUME IInv, TriedInv, Crash PROVE IInv'
<1> USE PersistenceAssumption DEF Crash
<1>1. TypeOK'
  BY Zenon DEF IInv, TypeOK
<1>2. Resident' = {} /\ Dirty' = {}
  BY Zenon DEF Resident, Dirty
<1>3. SavesInv' /\ LoadsInv' /\ StopInv'
  BY Zenon, <1>2 DEF SavesInv, LoadsInv, StopInv
<1>4. DiskInv'
  <2>1. \A x \in Chunk : durable'[x] # None => Leq(durable'[x], durable'[x])
    BY SMTT(90), <1>1 DEF TypeOK, Leq, Content
  <2> QED BY Zenon, <1>2, <2>1 DEF DiskInv
<1>5. GenInv'
  <2>1. \A x \in Chunk : durable[x] # None => durable'[x] # None
    BY Zenon DEF TriedInv
  <2> QED BY Zenon, <2>1 DEF IInv, TypeOK, GenInv
<1> QED BY Zenon, <1>1, <1>3, <1>4, <1>5 DEF IInv

(* Every step preserves the invariant. *)
LEMMA NextIInv == ASSUME FlagsOnlyGrow, IInv, TriedInv, [Next]_vars PROVE IInv'
<1>1. CASE Gameplay
  BY Zenon, <1>1, MutateIInv, PinIInv, GetOrGenerateIInv, SetLifecycleFlagsIInv, EvictIInv DEF Gameplay
<1>2. CASE Generation
  BY Zenon, <1>2, NeighborhoodLoadingIInv, GenerateIInv DEF Generation
<1>3. CASE PollLoads \/ PollSaves
  BY Zenon, <1>3, PollLoadIInv, PollSaveIInv DEF PollLoads, PollSaves
<1>4. CASE Tick \/ Stop
  BY Zenon, <1>4, OwnerIInv, EndTickIInv DEF Tick
<1>5. CASE Flush
  BY Zenon, <1>5, FlushDoneIInv, FlushScheduleIInv DEF Flush
<1>6. CASE Workers
  BY Zenon, <1>6, SaveWorkerIInv, CompactWorkerIInv, LoadWorkerIInv DEF Workers
<1> QED BY Zenon, <1>1, <1>2, <1>3, <1>4, <1>5, <1>6, CrashIInv, StutterIInv DEF Next

(* Only the save worker and a crash change what is durable. *)
LEMMA FileStep ==
  ASSUME [Next]_vars
  PROVE  \/ UNCHANGED <<durable, tried>> \/ Crash
         \/ \E m \in saveQ, ok \in BOOLEAN : SaveWorker(m, ok)
<1>1. CASE UNCHANGED vars
  BY Zenon, <1>1 DEF vars, fileVars
<1>2. CASE Workers
  BY Zenon, <1>2 DEF Workers, CompactWorker, LoadWorker, fileVars
<1>3. CASE Gameplay
  BY Zenon, <1>3 DEF Gameplay, Mutate, SetLifecycleFlags, Pin, Unpin, GetOrGenerate,
              EvictCleanUnpinned, fileVars
<1>4. CASE Generation
  BY Zenon, <1>4 DEF Generation, NeighborhoodLoading, GenerateIntoStore, fileVars
<1>5. CASE PollLoads \/ PollSaves
  BY Zenon, <1>5 DEF PollLoads, PollSaves, PollLoad, PollSave, fileVars
<1>6. CASE Tick \/ Stop \/ Flush
  BY Zenon, <1>6 DEF Tick, BeginTick, EndLoads, EndTick, Stop, Flush, FlushDone, FlushSchedule, fileVars
<1> QED BY Zenon, <1>1, <1>2, <1>3, <1>4, <1>5, <1>6 DEF Next

(* What failed saves may leave behind is never older than what is durable. *)
LEMMA NextTriedInv == ASSUME IInv, TriedInv, [Next]_vars PROVE TriedInv'
<1>1. CASE UNCHANGED <<durable, tried>> \/ Crash
  BY Zenon, <1>1 DEF TriedInv, Crash
<1>2. ASSUME NEW m \in saveQ, NEW ok \in BOOLEAN, SaveWorker(m, ok) PROVE TriedInv'
  <2> DEFINE written == [durable EXCEPT ![m.pos] = m.content]
  <2>1. \/ tried' = {}
        \/ tried' = tried \cup {written} /\ durable' = durable
    BY Zenon, <1>2 DEF SaveWorker
  <2>2. /\ m.pos \in Chunk /\ m.content \in Content
        /\ durable[m.pos] # None => Leq(durable[m.pos], m.content)
    BY Zenon, QueuedSave DEF Between
  <2>3. ASSUME NEW p \in Chunk, durable[p] # None
        PROVE  written[p] # None /\ Leq(durable[p], written[p])
    <3>1. CASE p = m.pos
      BY Zenon, <2>2, <2>3, <3>1, NoneIsNoContent DEF IInv, TypeOK
    <3>2. CASE p # m.pos
      BY SMTT(90), <2>2, <2>3, <3>2 DEF IInv, TypeOK, Leq, Content
    <3> QED BY Zenon, <3>1, <3>2
  <2> HIDE DEF written
  <2> QED BY Zenon, <2>1, <2>3 DEF TriedInv
<1> QED BY Zenon, <1>1, <1>2, FileStep

(* IndInv holds in every reachable state: of the residency record, the two
   worker channels, the region file and the owner, whatever the interleaving. *)
THEOREM Invariance == FlagsOnlyGrow => (Spec => []IndInv)
<1> SUFFICES ASSUME FlagsOnlyGrow PROVE Spec => []IndInv  BY Zenon
<1>1. Init => IndInv
  BY Zenon, InitIInv DEF Init, IndInv, TriedInv
<1>2. IndInv /\ [Next]_vars => IndInv'
  BY Zenon, NextIInv, NextTriedInv DEF IndInv
<1> QED BY <1>1, <1>2, PTL DEF Spec

(* What try_evict_chunk, failed saves and generation leave out of memory is on
   stable storage as it last was. *)
THEOREM NoChunkIsLost == FlagsOnlyGrow => (Spec => []NoLostChunk)
<1>1. IndInv => NoLostChunk
  BY Zenon DEF IndInv, IInv, DiskInv, NoLostChunk
<1> QED BY <1>1, Invariance, PTL

(* What is_dirty calls clean is on stable storage as it stands. *)
THEOREM CleanChunksAreDurable == FlagsOnlyGrow => (Spec => []CleanIsDurable)
<1>1. ASSUME IndInv PROVE CleanIsDurable
  <2>1. ASSUME NEW p \in Resident \ Dirty PROVE durable[p] = cur[p]
    <3>1. persisted[p] = cur[p] /\ \A d \in saveDone : d.pos # p
      BY Zenon, <1>1 DEF IndInv, IInv, SavesInv, Dirty
    <3> QED BY Zenon, <1>1, <3>1 DEF IndInv, IInv, DiskInv
  <2> QED BY Zenon, <2>1 DEF CleanIsDurable
<1> QED BY <1>1, Invariance, PTL

(* A cached Missing answer of the load service is still true when generation
   acts on it. *)
THEOREM MissingChunksAreAbsent == FlagsOnlyGrow => (Spec => []MissingIsAbsent)
<1>1. IndInv => MissingIsAbsent
  BY Zenon DEF IndInv, IInv, TypeOK, LoadsInv, DiskInv, Dirty, MissingIsAbsent
<1> QED BY <1>1, Invariance, PTL

(* mark_persisted accepts every receipt of a successful save. *)
THEOREM NoReceiptIsRefused == FlagsOnlyGrow => (Spec => []ReceiptsAccepted)
<1>1. IndInv => ReceiptsAccepted
  BY Zenon DEF IndInv, IInv, TypeOK, SavesInv, Between, Leq, Dirty, ReceiptsAccepted, MarkAccepted
<1> QED BY <1>1, Invariance, PTL

(* The structure state on disk never runs ahead of the chunk records. *)
THEOREM GeneratorStateNotAhead == FlagsOnlyGrow => (Spec => []GeneratorNotAhead)
<1>1. IndInv => GeneratorNotAhead
  BY Zenon DEF IndInv, IInv, GenInv, GeneratorNotAhead
<1> QED BY <1>1, Invariance, PTL

(* A flush that returns without error has made everything durable. *)
THEOREM FlushMakesDurable == FlagsOnlyGrow => (Spec => []FlushedIsDurable)
<1>1. IndInv => FlushedIsDurable
  BY Zenon, CleanMeansDurable DEF IndInv, IInv, StopInv, GenInv, FlushedIsDurable
<1> QED BY <1>1, Invariance, PTL

(* A step of the save worker or a crash moves a durable record forward only;
   no other step touches it. *)
THEOREM StorageOnlyAdvances == FlagsOnlyGrow => (Spec => StorageNeverRegresses)
<1> DEFINE Advance == \A p \in Chunk : durable[p] # None =>
                        durable'[p] # None /\ durable[p].rev <= durable'[p].rev
<1> SUFFICES ASSUME FlagsOnlyGrow PROVE Spec => StorageNeverRegresses  BY Zenon
<1>1. ASSUME IndInv, durable' = durable PROVE Advance
  BY SMTT(90), <1>1 DEF IndInv, IInv, TypeOK, Content
<1>2. ASSUME IndInv, Crash PROVE Advance
  <2>1. CASE durable' = durable
    BY Zenon, <1>1, <1>2, <2>1
  <2>2. CASE durable' \in tried
    BY Zenon, <1>2, <2>2 DEF IndInv, TriedInv, Leq
  <2> QED BY Zenon, <1>2, <2>1, <2>2 DEF Crash
<1>3. ASSUME IndInv, NEW m \in saveQ, NEW ok \in BOOLEAN, SaveWorker(m, ok) PROVE Advance
  <2>1. durable' = durable \/ durable' = [durable EXCEPT ![m.pos] = m.content]
    BY Zenon, <1>3 DEF SaveWorker
  <2>2. m.pos \in Chunk /\ m.content \in Content
        /\ (durable[m.pos] # None => durable[m.pos].rev <= m.content.rev)
    BY Zenon, <1>3, QueuedSave DEF IndInv, Between, Leq
  <2>3. durable \in [Chunk -> Content \cup {None}]
    BY Zenon, <1>3 DEF IndInv, IInv, TypeOK
  <2>4. ASSUME NEW p \in Chunk, durable[p] # None
        PROVE  durable'[p] # None /\ durable[p].rev <= durable'[p].rev
    <3>1. durable[p].rev \in Nat
      BY Zenon, <2>3, <2>4 DEF Content
    <3>2. CASE p = m.pos
      BY SMTT(90), <2>1, <2>2, <2>3, <2>4, <3>1, <3>2, NoneIsNoContent
    <3>3. CASE p # m.pos
      BY <2>1, <2>3, <2>4, <3>1, <3>3
    <3> QED BY Zenon, <3>2, <3>3
  <2> QED BY Zenon, <2>4
<1>4. ASSUME IndInv, [Next]_vars PROVE [Advance]_vars
  BY Zenon, <1>1, <1>2, <1>3, <1>4, FileStep
<1>5. Spec => []IndInv
  BY Zenon, Invariance
<1> QED BY <1>4, <1>5, PTL DEF Spec, StorageNeverRegresses
====
