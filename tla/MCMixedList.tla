----------------------------- MODULE MCMixedList -----------------------------
(* The calls of MixedList for TLC, at their real sizes where that is in reach. *)
EXTENDS MixedList

CONSTANT null

Call(kind, size, stride, extrabit, loads, n) ==
  [kind |-> kind, size |-> size, stride |-> stride, extrabit |-> extrabit,
   loads |-> loads, passes |-> n]

\* A timing loop makes N_LOADS loads, once, on a list of 20480 elements or more;
\* here of 512 or 300.
Timing(kind, n, extrabit) ==
  Call(kind, n * 4 * KiB, 4 * KiB, extrabit, {256}, 1)

\* MeasureCacheLevelSizes reads up to 4/5 of a list with a stride of 128 bytes,
\* once dirty and three times clean; here of 1280 elements instead of 655360.
Sizes == Call("mixed", 1280 * 8, 8, TRUE, {32, 1024}, 4)

\* The calls of MeasureL1CacheLevelAssoc and MeasureL2CacheLevelAssoc, those of
\* main(): a clean pass and two dirty ones for 102400.
Assoc(stride, loads) == Call("mixed", MaxCacheSize, stride, TRUE, loads, 3)

MeasureCalls ==
  {Timing("plain", 300, FALSE), Timing("linear", 300, FALSE),
   Timing("mixed", 512, FALSE), Timing("mixed", 512, TRUE), Sizes,
   Assoc(L1Stride, Guesses \cup {L2Fetches(1)}), Assoc(L2Stride(2), {L2Fetches(2)}),
   Assoc(L2Stride(4), {L2Fetches(4)}),
   Assoc(L2Stride(8), {L2Fetches(n) : n \in {8, 16, 32, 64}})}

\* The call of MeasureL2CacheLevelAssoc for a guess of 4 ways: 640 elements.
OutsideCalls == {Assoc(L2Stride(4), {L2Fetches(4)})}
=============================================================================
