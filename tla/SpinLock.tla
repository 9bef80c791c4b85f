------------------------------ MODULE SpinLock ------------------------------
(***************************************************************************)
(* The spinlock of ch6-network/spinlock.{h,cc}: a one-byte test-and-set     *)
(* lock with a scoped holder object (class SpinLock), a histogram counter   *)
(* bumped inside the lock, and a safety valve that clears the lock by force *)
(* once a waiter has spun too often.                                        *)
(*                                                                          *)
(* lpc[t] is where thread t stands in the life of one SpinLock object:      *)
(*   out         no SpinLock object alive                                   *)
(*   spin        about to evaluate `while ( *lock != 0)'                    *)
(*   grab        safety_count exceeded, about to store 0 into *lock         *)
(*   tas         saw *lock = 0, about to execute __atomic_test_and_set      *)
(*   hist_load   lock obtained, about to load hist[FloorLg(usec)]           *)
(*   hist_store  about to store the incremented value back                  *)
(*   in          inside the protected block                                 *)
(*                                                                          *)
(* AcquireSpinlock returns 0 whatever it measured, so FloorLg(0) = 0 is the *)
(* only bucket that is ever touched; hist0 is that bucket.                  *)
(***************************************************************************)
EXTENDS Integers, FiniteSets

CONSTANTS
  Threads,      \* the threads that share one LockAndHist
  SafetyLimit,  \* spins tolerated before the lock is cleared by force (10^8)
  HistMod,      \* hist buckets are unsigned: they count modulo this (2^32)
  MaxSections   \* bound: SpinLock objects constructed in a behaviour

ASSUME ThreadsAssumption == IsFiniteSet(Threads)
ASSUME LimitAssumption   == SafetyLimit \in Nat
ASSUME HistAssumption    == HistMod \in Nat \ {0}
ASSUME SectionAssumption == MaxSections \in Nat

VARIABLES
  lock,          \* LockAndHist::lock, 0 or 1
  lpc,           \* program counter of each thread inside SpinLock
  safety_count,  \* local of AcquireSpinlock, saturating at SafetyLimit + 1
  hist0,         \* LockAndHist::hist[0]
  loaded,        \* the value of hist[0] a thread has loaded
  sections,      \* SpinLock objects constructed so far
  acquired,      \* history: successful test-and-sets so far
  grabs          \* history: forced stores of 0 so far

lockVars == <<lock, lpc, safety_count, hist0, loaded, sections, acquired, grabs>>

LockPC == {"out", "spin", "grab", "tas", "hist_load", "hist_store", "in"}

LockInit ==
  /\ lock = 0
  /\ lpc = [t \in Threads |-> "out"]
  /\ safety_count = [t \in Threads |-> 0]
  /\ hist0 = 0
  /\ loaded = [t \in Threads |-> 0]
  /\ sections = 0
  /\ acquired = 0
  /\ grabs = 0

-----------------------------------------------------------------------------
(* AcquireSpinlock, called from the constructor *)

\* SpinLock::SpinLock up to the first test of the lock byte.
Construct(t) ==
  /\ lpc[t] = "out"
  /\ sections < MaxSections
  /\ sections' = sections + 1
  /\ lpc' = [lpc EXCEPT ![t] = "spin"]
  /\ safety_count' = [safety_count EXCEPT ![t] = 0]
  /\ UNCHANGED <<lock, hist0, loaded, acquired, grabs>>

\* One more turn of the count; only whether it exceeds the limit is ever used.
Counted(n) == IF n > SafetyLimit THEN n ELSE n + 1

\* Mutant of SpinBusy: the count is never compared with the limit.
SpinBusyForEver(t) ==
  /\ lpc[t] = "spin"
  /\ lock # 0
  /\ safety_count' = [safety_count EXCEPT ![t] = Counted(@)]
  /\ UNCHANGED <<lock, lpc, hist0, loaded, sections, acquired, grabs>>

\* `while ( *lock != 0)' with the lock taken: count, and past the limit go on to
\* the forced store. The count is never reset, so later turns grab at once.
SpinBusy(t) ==
  /\ lpc[t] = "spin"
  /\ lock # 0
  /\ safety_count' = [safety_count EXCEPT ![t] = Counted(@)]
  /\ lpc' = [lpc EXCEPT ![t] = IF Counted(safety_count[t]) > SafetyLimit
                               THEN "grab" ELSE "spin"]
  /\ UNCHANGED <<lock, hist0, loaded, sections, acquired, grabs>>

\* `while ( *lock != 0)' with the lock free: fall through to the test-and-set.
SpinFree(t) ==
  /\ lpc[t] = "spin"
  /\ lock = 0
  /\ lpc' = [lpc EXCEPT ![t] = "tas"]
  /\ UNCHANGED <<lock, safety_count, hist0, loaded, sections, acquired, grabs>>

\* `*lock = 0': a plain store, later than the read that led to it; whoever
\* holds the lock by then is not consulted.
Grab(t) ==
  /\ lpc[t] = "grab"
  /\ lock' = 0
  /\ grabs' = grabs + 1
  /\ lpc' = [lpc EXCEPT ![t] = "spin"]
  /\ UNCHANGED <<safety_count, hist0, loaded, sections, acquired>>

\* Mutant of TestAndSetWon: a plain store of 1, relying on the test before it.
TestAndSetWonBlind(t) ==
  /\ lpc[t] = "tas"
  /\ lock' = 1
  /\ acquired' = acquired + 1
  /\ lpc' = [lpc EXCEPT ![t] = "hist_load"]
  /\ UNCHANGED <<safety_count, hist0, loaded, sections, grabs>>

\* __atomic_test_and_set that found the byte clear: the lock is ours.
TestAndSetWon(t) ==
  /\ lpc[t] = "tas"
  /\ lock = 0
  /\ lock' = 1
  /\ acquired' = acquired + 1
  /\ lpc' = [lpc EXCEPT ![t] = "hist_load"]
  /\ UNCHANGED <<safety_count, hist0, loaded, sections, grabs>>

\* Mutant of TestAndSetLost: the result of the test-and-set is not looked at.
TestAndSetLostUnnoticed(t) ==
  /\ lpc[t] = "tas"
  /\ lock # 0
  /\ acquired' = acquired + 1
  /\ lpc' = [lpc EXCEPT ![t] = "hist_load"]
  /\ UNCHANGED <<lock, safety_count, hist0, loaded, sections, grabs>>

\* __atomic_test_and_set that found the byte set: back to spinning.
TestAndSetLost(t) ==
  /\ lpc[t] = "tas"
  /\ lock # 0
  /\ lpc' = [lpc EXCEPT ![t] = "spin"]
  /\ UNCHANGED <<lock, safety_count, hist0, loaded, sections, acquired, grabs>>

-----------------------------------------------------------------------------
(* The rest of the constructor, and the destructor *)

\* `++lockandhist_->hist[...]' is a plain read-modify-write: the load ...
HistLoad(t) ==
  /\ lpc[t] = "hist_load"
  /\ loaded' = [loaded EXCEPT ![t] = hist0]
  /\ lpc' = [lpc EXCEPT ![t] = "hist_store"]
  /\ UNCHANGED <<lock, safety_count, hist0, sections, acquired, grabs>>

\* Mutant of HistStore: the bucket is wider than 32 bits.
HistStoreWide(t) ==
  /\ lpc[t] = "hist_store"
  /\ hist0' = loaded[t] + 1
  /\ lpc' = [lpc EXCEPT ![t] = "in"]
  /\ UNCHANGED <<lock, safety_count, loaded, sections, acquired, grabs>>

\* ... and the store.
HistStore(t) ==
  /\ lpc[t] = "hist_store"
  /\ hist0' = (loaded[t] + 1) % HistMod
  /\ lpc' = [lpc EXCEPT ![t] = "in"]
  /\ UNCHANGED <<lock, safety_count, loaded, sections, acquired, grabs>>

\* SpinLock::~SpinLock at block exit: __atomic_clear, whoever set the byte.
Destruct(t) ==
  /\ lpc[t] = "in"
  /\ lock' = 0
  /\ lpc' = [lpc EXCEPT ![t] = "out"]
  /\ UNCHANGED <<safety_count, hist0, loaded, sections, acquired, grabs>>

\* The steps of AcquireSpinlock: a thread that does not have the lock yet.
WaitStep(t) ==
  \/ SpinBusy(t) \/ SpinFree(t) \/ Grab(t)
  \/ TestAndSetWon(t) \/ TestAndSetLost(t)

\* The steps of the constructor.
AcquireStep(t) == WaitStep(t) \/ HistLoad(t) \/ HistStore(t)

\* The bound is reached and every block has been left.
SectionsDone ==
  /\ sections = MaxSections
  /\ \A t \in Threads : lpc[t] = "out"
  /\ UNCHANGED lockVars

LockNext ==
  \/ \E t \in Threads : Construct(t) \/ AcquireStep(t) \/ Destruct(t)
  \/ SectionsDone

LockSpec == LockInit /\ [][LockNext]_lockVars

\* The scheduler keeps running the waiters, but nothing makes a holder go on:
\* it may be preempted with the lock for as long as the scheduler likes.
StallingLockSpec ==
  LockSpec /\ \A t \in Threads : WF_lockVars(WaitStep(t))

-----------------------------------------------------------------------------
(* Properties *)

LockTypeOK ==
  /\ lock \in {0, 1}
  /\ lpc \in [Threads -> LockPC]
  /\ safety_count \in [Threads -> 0 .. SafetyLimit + 1]
  /\ hist0 \in 0 .. HistMod - 1
  /\ loaded \in [Threads -> 0 .. HistMod - 1]
  /\ sections \in 0 .. MaxSections
  /\ acquired \in Nat
  /\ grabs \in Nat

\* Threads between a won test-and-set and the release of the lock.
Holders == {t \in Threads : lpc[t] \in {"hist_load", "hist_store", "in"}}

\* Threads that won the lock and have not yet stored the bumped histogram.
Bumping == {t \in Threads : lpc[t] \in {"hist_load", "hist_store"}}

\* spinlock.h: "declaring one of these in a block makes the block run *only*
\* when holding the lock": two threads are never past the lock together.
MutualExclusion == \A t, u \in Holders : t = u

\* Every forced store of the safety valve lets at most one more thread past the
\* lock: holders, plus one if the byte is clear, never exceed one plus the
\* number of forced stores. With no forced store this is mutual exclusion and
\* "a held lock reads as set".
HolderBound ==
  Cardinality(Holders) + (1 - lock) <= 1 + grabs

\* Until the first forced store the unsynchronised `++hist[0]' loses nothing:
\* the bucket is the number of acquisitions less those still being counted,
\* modulo the width of the counter.
HistExact ==
  grabs = 0 => hist0 = (acquired - Cardinality(Bumping)) % HistMod

\* A holder that never leaves its block does not stop the others: whenever a
\* thread is spinning, some thread goes on to win the lock. (Which one is not
\* promised; the lock is unfair.)
SpinnersProgress ==
  \A t \in Threads : \A n \in 0 .. MaxSections :
    (lpc[t] = "spin" /\ acquired = n) ~> (acquired > n)
=============================================================================
