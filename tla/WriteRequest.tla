----------------------------- MODULE WriteRequest -----------------------------
(***************************************************************************)
(* The body of a write, as ch6-network/my_rpc.cc lays it out and parses it: *)
(* a length of the key in one byte, padding, a length of the value, then    *)
(* the key and the value.                                                   *)
(*                                                                          *)
(* A body is a sequence of units: numbers and characters. The header of a   *)
(* WriteRequest is HdrLen of them, the first holding the length of the key  *)
(* and the last that of the value; padding lies between.                    *)
(***************************************************************************)
EXTENDS Integers, Sequences

CONSTANTS
  KeyMod,    \* 2^8: key_len_ is a uint8_t
  ValueMod,  \* 2^32: value_len_ is a uint32_t
  MaxValue,  \* 5 * 256 * 1024, the longest value Make accepts
  HdrLen,    \* sizeof(WriteRequest)
  NULL       \* the null pointer

ASSUME KeyModAssumption   == KeyMod \in Nat \ {0}
ASSUME MaxValueAssumption == MaxValue \in Nat /\ ValueMod \in Nat /\ MaxValue < ValueMod
ASSUME HdrLenAssumption   == HdrLen \in Nat \ {0, 1}

Num(n) == [num |-> n]
Chr(c) == [chr |-> c]
Padding == [pad |-> 0]

Units == [num : Nat] \cup [chr : STRING] \cup {Padding}

\* Mutant of KeyLenOf: a longer key is cut at the greatest length.
KeyLenOfCut(key) == IF Len(key) >= KeyMod THEN KeyMod - 1 ELSE Len(key)

\* The lengths as they reach Make, the one a uint8_t, the other a uint32_t.
KeyLenOf(key) == Len(key) % KeyMod
ValueLenOf(value) == Len(value) % ValueMod

\* The header of a request: the two lengths, with padding between them.
RequestHeader(key_len, value_len) ==
  [n \in 1 .. HdrLen |-> IF n = 1 THEN Num(key_len)
                         ELSE IF n = HdrLen THEN Num(value_len)
                         ELSE Padding]

\* Mutant of Make: the value is put in front of the key.
MakeValueFirst(key, value) ==
  IF ValueLenOf(value) > MaxValue THEN NULL
  ELSE RequestHeader(KeyLenOf(key), ValueLenOf(value))
         \o SubSeq(value, 1, ValueLenOf(value)) \o SubSeq(key, 1, KeyLenOf(key))

\* Mutant of Make: a value of the greatest length is refused.
MakeTooStrict(key, value) ==
  IF ValueLenOf(value) >= MaxValue THEN NULL
  ELSE RequestHeader(KeyLenOf(key), ValueLenOf(value))
         \o SubSeq(key, 1, KeyLenOf(key)) \o SubSeq(value, 1, ValueLenOf(value))

\* WriteRequest::Make: the header, then as much of the key and of the value as
\* their lengths say.
Make(key, value) ==
  IF ValueLenOf(value) > MaxValue THEN NULL
  ELSE RequestHeader(KeyLenOf(key), ValueLenOf(value))
         \o SubSeq(key, 1, KeyLenOf(key)) \o SubSeq(value, 1, ValueLenOf(value))

\* What key_len() and value_len() may read: what is there, or, in a body too short
\* to hold them, whatever the heap has behind it.
KeyLens(body) == IF Len(body) >= 1 THEN {body[1].num} ELSE 0 .. KeyMod - 1
ValueLens(body) == IF Len(body) >= HdrLen THEN {body[HdrLen].num} ELSE 0 .. ValueMod - 1

\* Mutant of FromBody: there may be more in the body than key and value.
FromBodyAtLeast(body, key_len, value_len) == HdrLen + key_len + value_len <= Len(body)

\* WriteRequest::FromBody, these two lengths having been read, accepts the body.
FromBody(body, key_len, value_len) == HdrLen + key_len + value_len = Len(body)

\* key() and value(), with key_len() and value_len() bytes behind them.
KeyIn(body, key_len) == SubSeq(body, HdrLen + 1, HdrLen + key_len)
ValueIn(body, key_len, value_len) ==
  SubSeq(body, HdrLen + key_len + 1, HdrLen + key_len + value_len)
=============================================================================
