--------------------------- MODULE SpinLockProofs ---------------------------
(***************************************************************************)
(* Proofs about SpinLock for every finite set of threads, every spin limit, *)
(* every counter width and every number of sections.                        *)
(***************************************************************************)
EXTENDS SpinLock, FiniteSetTheorems, TLAPS

(* SpinLock, type correctness: every step of AcquireSpinlock, of the       *)
(* constructor and of the destructor keeps the lock byte, the spin count    *)
(* and the histogram in their ranges.                                       *)
LEMMA LockTypeStep ==
  ASSUME LockTypeOK, [LockNext]_lockVars
  PROVE  LockTypeOK'
<1> USE LimitAssumption, HistAssumption, SectionAssumption DEF LockTypeOK, LockPC
<1>1. ASSUME NEW t \in Threads, Construct(t)
      PROVE  LockTypeOK'
  BY <1>1 DEF Construct
<1>2. ASSUME NEW t \in Threads, SpinBusy(t)
      PROVE  LockTypeOK'
  <2>1. Counted(safety_count[t]) \in 0 .. SafetyLimit + 1
    BY DEF Counted
  <2> QED
    BY <1>2, <2>1 DEF SpinBusy
<1>3. ASSUME NEW t \in Threads, SpinFree(t)
      PROVE  LockTypeOK'
  BY <1>3 DEF SpinFree
<1>4. ASSUME NEW t \in Threads, Grab(t)
      PROVE  LockTypeOK'
  BY <1>4 DEF Grab
<1>5. ASSUME NEW t \in Threads, TestAndSetWon(t)
      PROVE  LockTypeOK'
  BY <1>5 DEF TestAndSetWon
<1>6. ASSUME NEW t \in Threads, TestAndSetLost(t)
      PROVE  LockTypeOK'
  BY <1>6 DEF TestAndSetLost
<1>7. ASSUME NEW t \in Threads, HistLoad(t)
      PROVE  LockTypeOK'
  BY <1>7 DEF HistLoad
<1>8. ASSUME NEW t \in Threads, HistStore(t)
      PROVE  LockTypeOK'
  <2>1. (loaded[t] + 1) % HistMod \in 0 .. HistMod - 1
    OBVIOUS
  <2> QED
    BY <1>8, <2>1 DEF HistStore
<1>9. ASSUME NEW t \in Threads, Destruct(t)
      PROVE  LockTypeOK'
  BY <1>9 DEF Destruct
<1>10. CASE UNCHANGED lockVars
  BY <1>10 DEF lockVars
<1> QED
  BY <1>1, <1>2, <1>3, <1>4, <1>5, <1>6, <1>7, <1>8, <1>9, <1>10
     DEF LockNext, AcquireStep, WaitStep, SectionsDone

(* SpinLock, type correctness, of every state: the variables of             *)
(* AcquireSpinlock and LockAndHist never leave their types.                 *)
THEOREM LockTypeCorrect == LockSpec => []LockTypeOK
<1>1. LockInit => LockTypeOK
  BY LimitAssumption, HistAssumption, SectionAssumption
     DEF LockInit, LockTypeOK, LockPC
<1> QED
  BY <1>1, LockTypeStep, PTL DEF LockSpec
-----------------------------------------------------------------------------
(* Counting the threads past the lock *)

(* The threads past the lock are finitely many.                             *)
LEMMA HoldersFinite ==
  IsFiniteSet(Holders) /\ Cardinality(Holders) \in Nat
<1>1. IsFiniteSet(Holders)
  BY ThreadsAssumption, FS_Subset DEF Holders
<1> QED
  BY <1>1, FS_CardinalityType

(* A step of AcquireSpinlock or of the histogram update that neither wins   *)
(* nor releases the lock leaves the set of threads past it alone.           *)
LEMMA HoldersKept ==
  ASSUME LockTypeOK, NEW t \in Threads, NEW to \in LockPC,
         lpc' = [lpc EXCEPT ![t] = to],
         t \in Holders <=> to \in {"hist_load", "hist_store", "in"}
  PROVE  Holders' = Holders
BY DEF Holders, LockTypeOK

(* Every step of the lock keeps the bound on the number of threads past it: *)
(* only the won test-and-set adds one, and it uses up the clear lock byte;  *)
(* only the forced store clears the byte without a thread leaving, and it   *)
(* is counted.                                                              *)
LEMMA HolderBoundStep ==
  ASSUME LockTypeOK, HolderBound, [LockNext]_lockVars
  PROVE  HolderBound'
<1>1. LockTypeOK'
  BY LockTypeStep
<1>2. IsFiniteSet(Holders) /\ Cardinality(Holders) \in Nat
  BY HoldersFinite
<1>3. lock \in {0, 1} /\ grabs \in Nat /\ lpc \in [Threads -> LockPC]
  BY DEF LockTypeOK
<1>4. ASSUME Holders' = Holders, lock' = lock, grabs' = grabs
      PROVE  HolderBound'
  BY <1>4 DEF HolderBound
<1>5. ASSUME NEW t \in Threads, Construct(t)
      PROVE  HolderBound'
  <2>1. Holders' = Holders
    BY <1>5, HoldersKept DEF Construct, Holders, LockPC
  <2> QED
    BY <1>4, <1>5, <2>1 DEF Construct
<1>6. ASSUME NEW t \in Threads, SpinBusy(t)
      PROVE  HolderBound'
  <2>1. Holders' = Holders
    BY <1>3, <1>6 DEF SpinBusy, Holders
  <2> QED
    BY <1>4, <1>6, <2>1 DEF SpinBusy
<1>7. ASSUME NEW t \in Threads, SpinFree(t)
      PROVE  HolderBound'
  <2>1. Holders' = Holders
    BY <1>7, HoldersKept DEF SpinFree, Holders, LockPC
  <2> QED
    BY <1>4, <1>7, <2>1 DEF SpinFree
<1>8. ASSUME NEW t \in Threads, Grab(t)
      PROVE  HolderBound'
  <2>1. Holders' = Holders
    BY <1>8, HoldersKept DEF Grab, Holders, LockPC
  <2> QED
    BY <1>2, <1>3, <1>8, <2>1 DEF Grab, HolderBound
<1>9. ASSUME NEW t \in Threads, TestAndSetWon(t)
      PROVE  HolderBound'
  <2>1. t \notin Holders /\ Holders' = Holders \cup {t}
    BY <1>3, <1>9 DEF TestAndSetWon, Holders
  <2>2. Cardinality(Holders') = Cardinality(Holders) + 1
    BY <1>2, <2>1, FS_AddElement
  <2> QED
    BY <1>2, <1>3, <1>9, <2>2 DEF TestAndSetWon, HolderBound
<1>10. ASSUME NEW t \in Threads, TestAndSetLost(t)
       PROVE  HolderBound'
  <2>1. Holders' = Holders
    BY <1>10, HoldersKept DEF TestAndSetLost, Holders, LockPC
  <2> QED
    BY <1>4, <1>10, <2>1 DEF TestAndSetLost
<1>11. ASSUME NEW t \in Threads, HistLoad(t)
       PROVE  HolderBound'
  <2>1. Holders' = Holders
    BY <1>11, HoldersKept DEF HistLoad, Holders, LockPC
  <2> QED
    BY <1>4, <1>11, <2>1 DEF HistLoad
<1>12. ASSUME NEW t \in Threads, HistStore(t)
       PROVE  HolderBound'
  <2>1. Holders' = Holders
    BY <1>12, HoldersKept DEF HistStore, Holders, LockPC
  <2> QED
    BY <1>4, <1>12, <2>1 DEF HistStore
<1>13. ASSUME NEW t \in Threads, Destruct(t)
       PROVE  HolderBound'
  <2>1. t \in Holders /\ Holders' = Holders \ {t}
    BY <1>3, <1>13 DEF Destruct, Holders
  <2>2. Cardinality(Holders') = Cardinality(Holders) - 1
    BY <1>2, <2>1, FS_RemoveElement
  <2> QED
    BY <1>2, <1>3, <1>13, <2>2 DEF Destruct, HolderBound
<1>14. CASE UNCHANGED lockVars
  BY <1>4, <1>14 DEF lockVars, Holders
<1> QED
  BY <1>5, <1>6, <1>7, <1>8, <1>9, <1>10, <1>11, <1>12, <1>13, <1>14
     DEF LockNext, AcquireStep, WaitStep, SectionsDone

(* SpinLock, the safety valve's price: however the threads interleave, the  *)
(* threads past the lock, plus one if the byte is clear, are at most one    *)
(* more than the forced stores of AcquireSpinlock so far.                   *)
THEOREM HolderBoundCorrect == LockSpec => []HolderBound
<1>1. LockInit => HolderBound
  <2> SUFFICES ASSUME LockInit PROVE HolderBound
    OBVIOUS
  <2>1. Holders = {}
    BY DEF LockInit, Holders
  <2> QED
    BY <2>1, FS_EmptySet DEF LockInit, HolderBound
<1> QED
  BY <1>1, HolderBoundStep, LockTypeCorrect, PTL DEF LockSpec

(* SpinLock, what the header promises and what it takes: as long as the     *)
(* safety valve has not fired, a block that declares a SpinLock is run by   *)
(* one thread at a time.                                                    *)
THEOREM MutualExclusionUntilGrab ==
  LockSpec => [](grabs = 0 => MutualExclusion)
<1>1. LockTypeOK /\ HolderBound => (grabs = 0 => MutualExclusion)
  <2> SUFFICES ASSUME LockTypeOK, HolderBound, grabs = 0,
                      NEW t \in Holders, NEW u \in Holders
               PROVE  t = u
    BY DEF MutualExclusion
  <2>1. IsFiniteSet(Holders) /\ Cardinality(Holders) \in Nat
    BY HoldersFinite
  <2>2. Cardinality(Holders) <= 1
    BY <2>1 DEF HolderBound, LockTypeOK
  <2>3. Cardinality(Holders \ {t}) = Cardinality(Holders) - 1
    BY <2>1, FS_RemoveElement
  <2>4. IsFiniteSet(Holders \ {t}) /\ Cardinality(Holders \ {t}) \in Nat
    BY <2>1, FS_RemoveElement, FS_CardinalityType
  <2>5. Holders \ {t} = {}
    BY <2>1, <2>2, <2>3, <2>4, FS_EmptySet
  <2> QED
    BY <2>5
<1> QED
  BY <1>1, LockTypeCorrect, HolderBoundCorrect, PTL
-----------------------------------------------------------------------------
(* The histogram *)

(* A number and its quotient and remainder: the remainder is determined.    *)
LEMMA ModUnique ==
  ASSUME NEW m \in Nat \ {0}, NEW q \in Int, NEW r \in 0 .. m - 1
  PROVE  (m * q + r) % m = r
OBVIOUS

(* Incrementing a wrapped counter is wrapping the incremented count.        *)
LEMMA ModStep ==
  ASSUME NEW a \in Int, NEW m \in Nat \ {0}
  PROVE  ((a % m) + 1) % m = (a + 1) % m
<1> DEFINE q == a \div m
           r == a % m
<1>1. q \in Int /\ r \in 0 .. m - 1 /\ a = m * q + r
  OBVIOUS
<1> HIDE DEF q, r
<1>2. CASE r + 1 < m
  <2>1. (m * q + (r + 1)) % m = r + 1
    BY <1>1, <1>2, ModUnique
  <2>2. (m * 0 + (r + 1)) % m = r + 1
    BY <1>1, <1>2, ModUnique
  <2> QED
    BY <2>1, <2>2, <1>1 DEF r
<1>3. CASE r + 1 = m
  <2>1. (m * (q + 1) + 0) % m = 0
    BY <1>1, <1>3, ModUnique
  <2>2. (m * 1 + 0) % m = 0
    BY <1>1, <1>3, ModUnique
  <2>3. a + 1 = m * (q + 1) + 0
    BY <1>1, <1>3
  <2>4. (a + 1) % m = 0
    BY <2>1, <2>3
  <2>5. r + 1 = m * 1 + 0
    BY <1>1, <1>3
  <2>6. (r + 1) % m = 0
    BY <2>2, <2>5
  <2> QED
    BY <2>4, <2>6 DEF r
<1> QED
  BY <1>1, <1>2, <1>3

(* Until the first forced store a thread about to store the bumped counter  *)
(* holds its current value: nobody else stored in between.                  *)
LoadedFresh ==
  grabs = 0 => \A t \in Threads : lpc[t] = "hist_store" => loaded[t] = hist0

HistInv == LoadedFresh /\ HistExact

(* The threads still bumping the histogram are finitely many.               *)
LEMMA BumpingFinite ==
  IsFiniteSet(Bumping) /\ Cardinality(Bumping) \in Nat
<1>1. IsFiniteSet(Bumping)
  BY ThreadsAssumption, FS_Subset DEF Bumping
<1> QED
  BY <1>1, FS_CardinalityType

(* A step that keeps the counters and the set of bumping threads, and takes *)
(* no thread into the middle of the update, keeps the histogram's relation. *)
LEMMA HistKept ==
  ASSUME HistInv, hist0' = hist0, loaded' = loaded,
         acquired' = acquired, grabs' = grabs, Bumping' = Bumping,
         \A t \in Threads : lpc'[t] = "hist_store" => lpc[t] = "hist_store"
  PROVE  HistInv'
BY DEF HistInv, LoadedFresh, HistExact

(* Every step keeps the histogram's relation to the number of acquisitions. *)
LEMMA HistStep ==
  ASSUME LockTypeOK, HistInv, grabs = 0 => MutualExclusion,
         [LockNext]_lockVars
  PROVE  HistInv'
<1>1. IsFiniteSet(Bumping) /\ Cardinality(Bumping) \in Nat
  BY BumpingFinite
<1>2. /\ lock \in {0, 1} /\ grabs \in Nat /\ acquired \in Nat
      /\ lpc \in [Threads -> LockPC] /\ hist0 \in 0 .. HistMod - 1
      /\ loaded \in [Threads -> 0 .. HistMod - 1]
  BY DEF LockTypeOK
<1>3. ASSUME NEW t \in Threads,
             Construct(t) \/ SpinBusy(t) \/ SpinFree(t) \/ TestAndSetLost(t)
                \/ Destruct(t)
      PROVE  HistInv'
  <2>1. Bumping' = Bumping
    BY <1>2, <1>3
       DEF Construct, SpinBusy, SpinFree, TestAndSetLost, Destruct, Bumping
  <2>2. /\ hist0' = hist0 /\ loaded' = loaded
        /\ acquired' = acquired /\ grabs' = grabs
        /\ \A u \in Threads : lpc'[u] = "hist_store" => lpc[u] = "hist_store"
    BY <1>2, <1>3
       DEF Construct, SpinBusy, SpinFree, TestAndSetLost, Destruct
  <2> QED
    BY <2>1, <2>2, HistKept
<1>4. ASSUME NEW t \in Threads, Grab(t)
      PROVE  HistInv'
  BY <1>2, <1>4 DEF Grab, HistInv, LoadedFresh, HistExact
<1>5. ASSUME NEW t \in Threads, TestAndSetWon(t)
      PROVE  HistInv'
  <2>1. t \notin Bumping /\ Bumping' = Bumping \cup {t}
    BY <1>2, <1>5 DEF TestAndSetWon, Bumping
  <2>2. Cardinality(Bumping') = Cardinality(Bumping) + 1
    BY <1>1, <2>1, FS_AddElement
  <2>3. acquired' - Cardinality(Bumping') = acquired - Cardinality(Bumping)
    BY <1>1, <1>2, <1>5, <2>2 DEF TestAndSetWon
  <2>4. HistExact'
    BY <1>5, <2>3 DEF TestAndSetWon, HistInv, HistExact
  <2>5. LoadedFresh'
    BY <1>2, <1>5 DEF TestAndSetWon, HistInv, LoadedFresh
  <2> QED
    BY <2>4, <2>5 DEF HistInv
<1>6. ASSUME NEW t \in Threads, HistLoad(t)
      PROVE  HistInv'
  <2>1. Bumping' = Bumping
    BY <1>2, <1>6 DEF HistLoad, Bumping
  <2>2. HistExact'
    BY <1>6, <2>1 DEF HistLoad, HistInv, HistExact
  <2>3. LoadedFresh'
    BY <1>2, <1>6 DEF HistLoad, HistInv, LoadedFresh
  <2> QED
    BY <2>2, <2>3 DEF HistInv
<1>7. ASSUME NEW t \in Threads, HistStore(t)
      PROVE  HistInv'
  <2> SUFFICES ASSUME grabs = 0
               PROVE  HistInv'
    BY <1>7 DEF HistStore, HistInv, LoadedFresh, HistExact
  <2>1. t \in Bumping /\ Bumping' = Bumping \ {t}
    BY <1>2, <1>7 DEF HistStore, Bumping
  <2>2. Cardinality(Bumping') = Cardinality(Bumping) - 1
    BY <1>1, <2>1, FS_RemoveElement
  <2>3. \A u \in Threads : lpc'[u] # "hist_store"
    BY <1>2, <1>7 DEF HistStore, MutualExclusion, Holders
  <2>4. hist0' = (hist0 + 1) % HistMod
    BY <1>7 DEF HistStore, HistInv, LoadedFresh
  <2>5. hist0 = (acquired - Cardinality(Bumping)) % HistMod
    BY DEF HistInv, HistExact
  <2>6. hist0' = (acquired - Cardinality(Bumping) + 1) % HistMod
    BY <1>1, <1>2, <2>4, <2>5, ModStep, HistAssumption
  <2>7. acquired' - Cardinality(Bumping') = acquired - Cardinality(Bumping) + 1
    BY <1>1, <1>2, <1>7, <2>2 DEF HistStore
  <2>8. HistExact'
    BY <2>6, <2>7 DEF HistExact
  <2>9. LoadedFresh'
    BY <2>3 DEF LoadedFresh
  <2> QED
    BY <2>8, <2>9 DEF HistInv
<1>8. CASE UNCHANGED lockVars
  <2>1. Bumping' = Bumping
    BY <1>8 DEF lockVars, Bumping
  <2> QED
    BY <1>8, <2>1, HistKept DEF lockVars
<1> QED
  BY <1>3, <1>4, <1>5, <1>6, <1>7, <1>8
     DEF LockNext, AcquireStep, WaitStep, SectionsDone

(* SpinLock, the histogram: the plain `++hist[0]' of the constructor loses  *)
(* no count before the safety valve first fires; the bucket is the number   *)
(* of acquisitions less those still being counted, modulo its width.        *)
THEOREM HistExactCorrect == LockSpec => []HistExact
<1>1. LockInit => HistInv
  <2> SUFFICES ASSUME LockInit PROVE HistInv
    OBVIOUS
  <2>1. Bumping = {}
    BY DEF LockInit, Bumping
  <2>2. Cardinality(Bumping) = 0
    BY <2>1, FS_EmptySet
  <2>3. 0 = (0 - 0) % HistMod
    BY HistAssumption
  <2> QED
    BY <2>2, <2>3 DEF LockInit, HistInv, LoadedFresh, HistExact
<1>2. LockTypeOK /\ (grabs = 0 => MutualExclusion) /\ HistInv
        /\ [LockNext]_lockVars => HistInv'
  BY HistStep
<1>3. HistInv => HistExact
  BY DEF HistInv
<1> QED
  BY <1>1, <1>2, <1>3, LockTypeCorrect, MutualExclusionUntilGrab, PTL
     DEF LockSpec
=============================================================================
