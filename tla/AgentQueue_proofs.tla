------------------------- MODULE AgentQueue_proofs -------------------------
(***************************************************************************)
(* Theorems about AgentQueue, for every value of its constants.            *)
(***************************************************************************)
EXTENDS AgentQueue, FiniteSetTheorems, TLAPS

-----------------------------------------------------------------------------
(* Sets of instants. *)

LEMMA Bounds == MaxTime \in Nat /\ MaxFaults \in Nat /\ Capacity \in Nat
  BY QueueAssumption DEF QueueAssumption

LEMMA LeastExists ==
  ASSUME NEW S \in SUBSET Nat, S # {}
  PROVE  \E s \in S : \A t \in S : s <= t
<1>. DEFINE R == {p \in Nat \X Nat : p[1] < p[2]}
<1>1. IsWellFoundedOn(R, Nat)
  BY NatLessThanWellFounded DEF OpToRel
<1>. HIDE DEF R
<1>2. PICK s \in S : \A t \in S : <<t, s>> \notin R
  BY <1>1, WFMin
<1>3. \A t \in S : ~ (t < s)
  BY <1>2 DEF R
<1>. QED
  BY <1>3

\* The newest of a set of instants is one of them.
LEMMA NewestIn ==
  ASSUME NEW S \in SUBSET Time, S # {}
  PROVE  Newest(S) \in S
<1>. DEFINE L == {MaxTime - s : s \in S}
<1>1. MaxTime \in Nat
  BY Bounds
<1>2. \A s \in S : MaxTime - s \in Nat
  BY <1>1 DEF Time
<1>3. L \in SUBSET Nat /\ L # {}
  BY <1>2
<1>4. PICK l \in L : \A k \in L : l <= k
  BY <1>3, LeastExists
<1>5. PICK s \in S : l = MaxTime - s
  OBVIOUS
<1>6. \A t \in S : MaxTime - s <= MaxTime - t
  BY <1>4, <1>5
<1>7. \A t \in S : t <= s
  BY <1>1, <1>6 DEF Time
<1>. QED
  BY <1>7 DEF Newest

\* Sets of instants are finite, and so are the counts taken of them.
LEMMA CountOf ==
  ASSUME NEW S \in SUBSET Time
  PROVE  IsFiniteSet(S) /\ Cardinality(S) \in Nat
<1>1. IsFiniteSet(Time)
  BY Bounds, FS_Interval DEF Time
<1>. QED
  BY <1>1, FS_Subset, FS_CardinalityType

LEMMA CountGrows ==
  ASSUME NEW S \in SUBSET Time, NEW s, s \notin S
  PROVE  Cardinality(S \cup {s}) = Cardinality(S) + 1
  BY CountOf, FS_AddElement

LEMMA CountShrinks ==
  ASSUME NEW S \in SUBSET Time, NEW s \in S
  PROVE  Cardinality(S \ {s}) = Cardinality(S) - 1
  BY CountOf, FS_RemoveElement

LEMMA CountOfPart ==
  ASSUME NEW S \in SUBSET Time, NEW T \in SUBSET S
  PROVE  Cardinality(T) <= Cardinality(S)
  BY CountOf, FS_Subset

-----------------------------------------------------------------------------
(* Types. *)

\* atomic renames a temporary file it has written.
Writing == samplerPc = "write" => tmp # {}

TypeInv == TypeOK /\ Writing

LEMMA InitType == Init => TypeInv
<1>1. 0 \in Time /\ 0 \in 0 .. MaxFaults
  BY Bounds DEF Time
<1>2. Init => TypeOK
  <2>. SUFFICES ASSUME Init
                PROVE  TypeOK
    OBVIOUS
  <2>1. now \in Time /\ faults \in 0 .. MaxFaults
    BY <1>1 DEF Init
  <2>2. /\ wire \subseteq Time /\ recorded \subseteq Time
        /\ stored \subseteq Time /\ evicted \subseteq Time
    BY DEF Init
  <2>3. /\ queue \subseteq Time /\ tmp \subseteq Time
        /\ dropped \in Nat /\ persisted \in Nat
        /\ samplerPc \in {"wait", "write", "list", "prune", "persist"}
        /\ files \subseteq Time
        /\ size \in Int
    BY DEF Init
  <2>4. /\ uploaderPc \in {"idle", "ready", "sent", "acked"}
        /\ entries \subseteq Time
        /\ uploaderPc # "idle" => entries # {}
        /\ lead \in BOOLEAN
    BY DEF Init
  <2>. QED
    BY <2>1, <2>2, <2>3, <2>4 DEF TypeOK
<1>3. Init => Writing
  BY DEF Init, Writing
<1>. QED
  BY <1>2, <1>3 DEF TypeInv

LEMMA SamplerType ==
  ASSUME TypeInv, Sampler
  PROVE  TypeInv'
<1>. USE DEF TypeInv, TypeOK, Writing, sampler, uploader, ghosts
<1>1. CASE Sample
  BY <1>1 DEF Sample
<1>2. CASE Rename
  <2>1. Newest(tmp) \in Time
    BY <1>2, NewestIn DEF Rename
  <2>. QED
    BY <1>2, <2>1 DEF Rename
<1>3. CASE List
  <2>1. Cardinality(Listing) \in Nat
    BY CountOf DEF Listing
  <2>. QED
    BY <1>3, <2>1 DEF List
<1>4. CASE Pass
  BY <1>4 DEF Pass
<1>5. CASE Evict
  BY <1>5 DEF Evict
<1>6. CASE Persist
  BY <1>6 DEF Persist
<1>7. CASE PersistFails
  BY <1>7, Bounds DEF PersistFails
<1>8. CASE Pruned
  BY <1>8 DEF Pruned
<1>. QED
  BY <1>1, <1>2, <1>3, <1>4, <1>5, <1>6, <1>7, <1>8 DEF Sampler

LEMMA UploaderType ==
  ASSUME TypeInv, Uploader
  PROVE  TypeInv'
<1>. USE DEF TypeInv, TypeOK, Writing, sampler, uploader, ghosts
<1>1. CASE ReadDir
  <2>1. Picked \subseteq Time
    BY DEF Picked
  <2>. QED
    BY <1>1, <2>1 DEF ReadDir
<1>2. CASE Skip
  BY <1>2 DEF Skip, Advance
<1>3. CASE Send
  BY <1>3 DEF Send
<1>4. CASE Fail
  BY <1>4 DEF Fail, StopBatch
<1>5. CASE Remove
  BY <1>5 DEF Remove, Advance
<1>. QED
  BY <1>1, <1>2, <1>3, <1>4, <1>5 DEF Uploader

LEMMA OthersType ==
  ASSUME TypeInv, Tick \/ Restart \/ Reply \/ Network \/ UNCHANGED vars
  PROVE  TypeInv'
<1>. USE DEF TypeInv, TypeOK, Writing, sampler, uploader, ghosts
<1>1. CASE Tick
  BY <1>1, Bounds DEF Tick, Time
<1>2. CASE Restart
  <2>1. now' \in Time /\ faults' \in 0 .. MaxFaults
    BY <1>2, Bounds DEF Restart
  <2>2. /\ wire' \subseteq Time /\ recorded' \subseteq Time
        /\ stored' \subseteq Time /\ evicted' \subseteq Time
    BY <1>2 DEF Restart
  <2>3. /\ queue' \subseteq Time /\ tmp' \subseteq Time
        /\ dropped' \in Nat /\ persisted' \in Nat
        /\ samplerPc' \in {"wait", "write", "list", "prune", "persist"}
        /\ files' \subseteq Time
        /\ size' \in Int
    BY <1>2 DEF Restart
  <2>4. /\ uploaderPc' \in {"idle", "ready", "sent", "acked"}
        /\ entries' \subseteq Time
        /\ uploaderPc' # "idle" => entries' # {}
        /\ lead' \in BOOLEAN
    BY <1>2 DEF Restart
  <2>5. Writing'
    BY <1>2 DEF Restart
  <2>. QED
    BY <2>1, <2>2, <2>3, <2>4, <2>5
<1>3. CASE Reply
  BY <1>3 DEF Reply, Answer, AwaitsAnswer
<1>4. CASE Network
  BY <1>4 DEF Network, Lose, RecordUnheard
<1>5. CASE UNCHANGED vars
  BY <1>5 DEF vars
<1>. QED
  BY <1>1, <1>2, <1>3, <1>4, <1>5

LEMMA NextType == TypeInv /\ [Next]_vars => TypeInv'
  BY SamplerType, UploaderType, OthersType DEF Next

LEMMA TypeInvariant == Spec => []TypeInv
  BY InitType, NextType, PTL DEF Spec

\* The variables keep their types, and a round of uploading has entries left
\* for as long as it lasts.
THEOREM TypeCorrect == Spec => []TypeOK
<1>1. TypeInv => TypeOK
  BY DEF TypeInv
<1>. QED
  BY <1>1, TypeInvariant, PTL

-----------------------------------------------------------------------------
(* Where samples are. *)

\* A temporary file has never been in the queue; everything else has.  What is
\* evicted is gone, and the uploader removes only what the hub has.
TmpIsNew     == tmp \cap stored = {}
AllWasStored == queue \cup wire \cup recorded \cup evicted \subseteq stored
EvictedIsGone == queue \cap evicted = {}
AckedIsRecorded == uploaderPc = "acked" => Head \in recorded

PlaceInv == TmpIsNew /\ AllWasStored /\ EvictedIsGone /\ AckedIsRecorded /\ NothingVanishes

LEMMA HeadStays ==
  ASSUME UNCHANGED <<entries, lead>>
  PROVE  Head' = Head
  BY DEF Head, Newest, Oldest

LEMMA SamplerPlace ==
  ASSUME TypeInv, PlaceInv, Sampler
  PROVE  PlaceInv'
<1>. USE DEF PlaceInv, TmpIsNew, AllWasStored, EvictedIsGone, AckedIsRecorded,
             NothingVanishes, uploader, ghosts
<1>1. CASE Sample
  BY <1>1, HeadStays DEF Sample
<1>2. CASE Rename
  <2>1. Newest(tmp) \in tmp
    BY <1>2, NewestIn DEF Rename, TypeInv, TypeOK, Writing
  <2>2. Head' = Head
    BY <1>2, HeadStays DEF Rename
  <2>. QED
    BY <1>2, <2>1, <2>2 DEF Rename
<1>3. CASE Evict
  <2>1. PICK f \in queue : queue' = queue \ {f} /\ evicted' = evicted \cup {f}
    BY <1>3 DEF Evict
  <2>2. Head' = Head
    BY <1>3, HeadStays DEF Evict
  <2>3. UNCHANGED <<tmp, wire, recorded, stored, uploaderPc>>
    BY <1>3 DEF Evict
  <2>. QED
    BY <2>1, <2>2, <2>3
<1>4. CASE List \/ Pass \/ Persist \/ PersistFails \/ Pruned
  BY <1>4, HeadStays DEF List, Pass, Persist, PersistFails, Pruned
<1>. QED
  BY <1>1, <1>2, <1>3, <1>4 DEF Sampler

LEMMA UploaderPlace ==
  ASSUME PlaceInv, Uploader
  PROVE  PlaceInv'
<1>. USE DEF PlaceInv, TmpIsNew, AllWasStored, EvictedIsGone, AckedIsRecorded,
             NothingVanishes, ghosts
<1>1. CASE ReadDir
  BY <1>1 DEF ReadDir
<1>2. CASE Skip
  BY <1>2 DEF Skip, Advance
<1>3. CASE Send
  BY <1>3 DEF Send
<1>4. CASE Fail
  BY <1>4 DEF Fail, StopBatch
<1>5. CASE Remove
  BY <1>5 DEF Remove, Advance
<1>. QED
  BY <1>1, <1>2, <1>3, <1>4, <1>5 DEF Uploader

LEMMA OthersPlace ==
  ASSUME PlaceInv, Tick \/ Restart \/ Reply \/ Network \/ UNCHANGED vars
  PROVE  PlaceInv'
<1>. USE DEF PlaceInv, TmpIsNew, AllWasStored, EvictedIsGone, AckedIsRecorded,
             NothingVanishes, uploader, ghosts
<1>1. CASE Tick \/ UNCHANGED vars
  BY <1>1, HeadStays DEF Tick, vars
<1>2. CASE Restart
  BY <1>2 DEF Restart
<1>3. CASE Reply
  <2>1. PICK f \in wire : /\ Head = f
                         /\ recorded' = recorded \cup {f}
                         /\ wire' = wire \ {f}
    BY <1>3 DEF Reply, Answer, AwaitsAnswer
  <2>2. Head' = Head
    BY <1>3, HeadStays DEF Reply, Answer
  <2>3. UNCHANGED <<queue, tmp, stored, evicted>>
    BY <1>3 DEF Reply, Answer
  <2>. QED
    BY <2>1, <2>2, <2>3
<1>4. CASE Network
  <2>1. Head' = Head
    BY <1>4, HeadStays DEF Network, Lose, RecordUnheard
  <2>2. UNCHANGED <<queue, tmp, stored, evicted, uploaderPc>>
    BY <1>4 DEF Network, Lose, RecordUnheard
  <2>3. /\ recorded \subseteq recorded'
        /\ wire' \cup recorded' \subseteq wire \cup recorded
    BY <1>4 DEF Network, Lose, RecordUnheard
  <2>. QED
    BY <2>1, <2>2, <2>3
<1>. QED
  BY <1>1, <1>2, <1>3, <1>4

LEMMA PlaceInvariant == Spec => []PlaceInv
<1>1. Init => PlaceInv
  BY DEF Init, PlaceInv, TmpIsNew, AllWasStored, EvictedIsGone, AckedIsRecorded,
         NothingVanishes
<1>2. TypeInv /\ PlaceInv /\ [Next]_vars => PlaceInv'
  BY SamplerPlace, UploaderPlace, OthersPlace DEF Next
<1>. QED
  BY <1>1, <1>2, TypeInvariant, PTL DEF Spec

\* However sampling, pruning, uploading and kills interleave, a queued sample is
\* in the queue until the hub has recorded it or pruneQueue has evicted it.
THEOREM QueueKeepsSamples == Spec => []NothingVanishes
<1>1. PlaceInv => NothingVanishes
  BY DEF PlaceInv
<1>. QED
  BY <1>1, PlaceInvariant, PTL

-----------------------------------------------------------------------------
(* The count of evicted samples. *)

\* The file lags behind by the failed writes and kills so far, and by the
\* eviction whose count is about to be written.
PersistedIsClose ==
    /\ persisted <= dropped
    /\ Cardinality(evicted) <= persisted + faults + (IF samplerPc = "persist" THEN 1 ELSE 0)

CountInv == DroppedIsClose /\ PersistedIsClose

LEMMA CountStep ==
  ASSUME TypeInv, PlaceInv, CountInv, [Next]_vars
  PROVE  CountInv'
<1>. USE DEF CountInv, DroppedIsClose, PersistedIsClose, sampler, uploader, ghosts
<1>1. /\ dropped \in Nat /\ persisted \in Nat /\ faults \in Nat
      /\ evicted \in SUBSET Time
  BY Bounds DEF TypeInv, TypeOK
<1>2. Cardinality(evicted) \in Nat
  BY <1>1, CountOf
<1>3. CASE Evict
  <2>1. PICK f \in queue : evicted' = evicted \cup {f}
    BY <1>3 DEF Evict
  <2>2. f \notin evicted
    BY <2>1 DEF PlaceInv, EvictedIsGone
  <2>3. Cardinality(evicted') = Cardinality(evicted) + 1
    BY <1>1, <2>1, <2>2, CountGrows
  <2>. QED
    BY <1>1, <1>2, <1>3, <2>3 DEF Evict
<1>4. CASE Persist
  BY <1>1, <1>2, <1>4 DEF Persist
<1>5. CASE PersistFails
  BY <1>1, <1>2, <1>5 DEF PersistFails
<1>6. CASE Restart
  BY <1>1, <1>2, <1>6 DEF Restart
<1>7. CASE Sample \/ Rename \/ List \/ Pass \/ Pruned
  BY <1>1, <1>2, <1>7 DEF Sample, Rename, List, Pass, Pruned
<1>8. CASE Tick \/ Uploader \/ Reply \/ Network \/ UNCHANGED vars
  <2>1. UNCHANGED <<evicted, dropped, persisted, faults, samplerPc>>
    BY <1>8 DEF Tick, Uploader, ReadDir, Skip, Send, Fail, Remove, Reply, Answer,
                Network, Lose, RecordUnheard, vars
  <2>. QED
    BY <2>1
<1>. QED
  BY <1>3, <1>4, <1>5, <1>6, <1>7, <1>8 DEF Next, Sampler

\* The count the snapshots carry is never too high, and too low by at most the
\* kills and failed writes: none of them makes it lose more than one eviction.
THEOREM GapCountIsClose == Spec => []DroppedIsClose
<1>1. Init => CountInv
  BY FS_EmptySet DEF Init, CountInv, DroppedIsClose, PersistedIsClose
<1>2. CountInv => DroppedIsClose
  BY DEF CountInv
<1>. QED
  BY <1>1, <1>2, CountStep, TypeInvariant, PlaceInvariant, PTL DEF Spec

-----------------------------------------------------------------------------
(* The bound on the queue. *)

\* While pruneQueue walks its listing, its running size covers the queue, and once
\* it has left a file in the queue the size is within the capacity.
SizeCoversQueue ==
    samplerPc \in {"prune", "persist"} =>
        /\ Cardinality(queue) <= size
        /\ size <= Capacity \/ queue \subseteq files

WritingIsBounded == samplerPc = "write" => Cardinality(queue) <= Capacity + faults

BoundInv == QueueBounded /\ SizeCoversQueue /\ WritingIsBounded

LEMMA BoundStep ==
  ASSUME TypeInv, PlaceInv, BoundInv, [Next]_vars
  PROVE  BoundInv'
<1>. USE DEF BoundInv, QueueBounded, SizeCoversQueue, WritingIsBounded,
             sampler, uploader, ghosts
<1>1. /\ size \in Int /\ faults \in Nat /\ Capacity \in Nat
      /\ queue \in SUBSET Time /\ tmp \in SUBSET Time
  BY Bounds DEF TypeInv, TypeOK
<1>2. Cardinality(queue) \in Nat
  BY <1>1, CountOf
<1>3. CASE Rename
  <2>1. Newest(tmp) \in tmp
    BY <1>3, NewestIn DEF Rename, TypeInv, TypeOK, Writing
  <2>2. Newest(tmp) \notin queue
    BY <2>1 DEF PlaceInv, TmpIsNew, AllWasStored
  <2>3. Cardinality(queue') = Cardinality(queue) + 1
    BY <1>1, <1>3, <2>2, CountGrows DEF Rename
  <2>. QED
    BY <1>1, <1>2, <1>3, <2>3 DEF Rename
<1>4. CASE List
  <2>1. Listing \in SUBSET Time /\ queue \in SUBSET Listing
    BY <1>1 DEF Listing
  <2>2. Cardinality(queue) <= Cardinality(Listing)
    BY <2>1, CountOfPart
  <2>. QED
    BY <1>1, <1>2, <1>4, <2>2 DEF List
<1>5. CASE Pass
  BY <1>1, <1>2, <1>5 DEF Pass, TooMany
<1>6. CASE Evict
  <2>1. PICK f \in queue : queue' = queue \ {f} /\ files' = files \ {f}
    BY <1>6 DEF Evict
  <2>2. Cardinality(queue') = Cardinality(queue) - 1
    BY <1>1, <2>1, CountShrinks
  <2>. QED
    BY <1>1, <1>2, <1>6, <2>1, <2>2 DEF Evict
<1>7. CASE Pruned
  <2>1. Cardinality(queue) <= Capacity
    BY <1>1, <1>2, <1>7, FS_EmptySet DEF Pruned
  <2>. QED
    BY <1>1, <1>2, <1>7, <2>1 DEF Pruned
<1>8. CASE Sample \/ Persist \/ PersistFails \/ Restart
  BY <1>1, <1>2, <1>8 DEF Sample, Persist, PersistFails, Restart
<1>9. CASE Uploader
  <2>1. UNCHANGED <<size, files, faults, samplerPc>>
    BY <1>9 DEF Uploader, ReadDir, Skip, Send, Fail, Remove
  <2>2. queue' \in SUBSET queue
    BY <1>9 DEF Uploader, ReadDir, Skip, Send, Fail, Remove
  <2>3. Cardinality(queue') <= Cardinality(queue) /\ Cardinality(queue') \in Nat
    BY <1>1, <2>2, CountOfPart, CountOf
  <2>. QED
    BY <1>1, <1>2, <2>1, <2>2, <2>3
<1>10. CASE Tick \/ Reply \/ Network \/ UNCHANGED vars
  <2>1. UNCHANGED <<queue, size, files, faults, samplerPc>>
    BY <1>10 DEF Tick, Reply, Answer, Network, Lose, RecordUnheard, vars
  <2>. QED
    BY <2>1
<1>. QED
  BY <1>3, <1>4, <1>5, <1>6, <1>7, <1>8, <1>9, <1>10 DEF Next, Sampler

\* Whatever the uploader removes meanwhile, a full round of pruning leaves the
\* queue within its capacity; only a kill inside a round adds a sample to it.
THEOREM QueueStaysBounded == Spec => []QueueBounded
<1>1. Init => BoundInv
  BY Bounds, FS_EmptySet DEF Init, BoundInv, QueueBounded, SizeCoversQueue, WritingIsBounded
<1>2. BoundInv => QueueBounded
  BY DEF BoundInv
<1>. QED
  BY <1>1, <1>2, BoundStep, TypeInvariant, PlaceInvariant, PTL DEF Spec

-----------------------------------------------------------------------------
(* Refinement. *)

LEMMA DeliveryStep ==
  ASSUME TypeInv, PlaceInv, [Next]_vars
  PROVE  [D!Next]_(D!vars)
<1>. DEFINE Lost == stored \ (Held \cup recorded)
<1>. SUFFICES \/ UNCHANGED <<Held, recorded, Lost>>
              \/ \E s \in Time : D!Queue(s) \/ D!Record(s) \/ D!GiveUp(s)
  BY DEF D!Next, D!vars
<1>. USE DEF PlaceInv, TmpIsNew, AllWasStored, AckedIsRecorded, NothingVanishes,
             D!Queue, D!Record, D!GiveUp, Held, sampler, uploader, ghosts
<1>1. CASE Rename
  <2>1. Newest(tmp) \in tmp /\ Newest(tmp) \in Time
    BY <1>1, NewestIn DEF Rename, TypeInv, TypeOK, Writing
  <2>2. PICK s \in Time :
          /\ s \notin stored
          /\ queue' = queue \cup {s} /\ stored' = stored \cup {s}
          /\ UNCHANGED <<wire, recorded>>
    BY <1>1, <2>1 DEF Rename
  <2>3. D!Queue(s)
    BY <2>2
  <2>. QED
    BY <2>3
<1>2. CASE Evict
  <2>1. PICK f \in queue : queue' = queue \ {f}
    BY <1>2 DEF Evict
  <2>2. UNCHANGED <<wire, recorded, stored>> /\ f \in Time
    BY <1>2 DEF Evict, TypeInv, TypeOK
  <2>3. CASE f \in wire \cup recorded
    BY <2>1, <2>2, <2>3
  <2>4. CASE f \notin wire \cup recorded
    <3>1. D!GiveUp(f)
      BY <2>1, <2>2, <2>4
    <3>. QED
      BY <2>2, <3>1
  <2>. QED
    BY <2>3, <2>4
<1>3. CASE Sample \/ List \/ Pass \/ Persist \/ PersistFails \/ Pruned \/ Tick \/ Restart
  BY <1>3 DEF Sample, List, Pass, Persist, PersistFails, Pruned, Tick, Restart
<1>4. CASE ReadDir \/ Skip \/ Fail
  BY <1>4 DEF ReadDir, Skip, Fail
<1>5. CASE Send
  BY <1>5 DEF Send
<1>6. CASE Remove
  BY <1>6 DEF Remove
<1>7. ASSUME NEW f \in wire, wire' = wire \ {f}, recorded' = recorded \cup {f},
             UNCHANGED <<queue, stored>>
      PROVE  UNCHANGED <<Held, recorded, Lost>> \/ D!Record(f)
  BY <1>7
<1>8. CASE Reply
  <2>1. PICK f \in wire : wire' = wire \ {f} /\ recorded' = recorded \cup {f}
    BY <1>8 DEF Reply, Answer
  <2>2. UNCHANGED <<queue, stored>> /\ f \in Time
    BY <1>8 DEF Reply, Answer, TypeInv, TypeOK
  <2>. QED
    BY <1>7, <2>1, <2>2
<1>9. ASSUME NEW f \in Time, RecordUnheard(f)
      PROVE  UNCHANGED <<Held, recorded, Lost>> \/ D!Record(f)
  BY <1>7, <1>9 DEF RecordUnheard
<1>10. ASSUME NEW f \in Time, Lose(f)
       PROVE  UNCHANGED <<Held, recorded, Lost>> \/ D!GiveUp(f)
  <2>1. /\ f \in wire /\ wire' = wire \ {f}
        /\ UNCHANGED <<queue, recorded, stored>>
    BY <1>10 DEF Lose
  <2>2. CASE f \in queue \cup recorded
    BY <2>1, <2>2
  <2>3. CASE f \notin queue \cup recorded
    BY <2>1, <2>3
  <2>. QED
    BY <2>2, <2>3
<1>11. CASE UNCHANGED vars
  BY <1>11 DEF vars
<1>. QED
  BY <1>1, <1>2, <1>3, <1>4, <1>5, <1>6, <1>8, <1>9, <1>10, <1>11
     DEF Next, Sampler, Uploader, Network

\* Sampling loop, uploader, hub, network and restarts together implement Delivery:
\* a sample is recorded at most once, for good, and never after it is given up.
THEOREM QueueDelivers == Spec => IsDelivery
<1>1. Init => D!Init
  BY DEF Init, D!Init, Held
<1>. QED
  BY <1>1, DeliveryStep, TypeInvariant, PlaceInvariant, PTL
     DEF Spec, IsDelivery, D!Spec
=============================================================================
