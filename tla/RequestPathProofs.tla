------------------------- MODULE RequestPathProofs -------------------------
(***************************************************************************)
(* Proofs about RequestPath, for every length of mark, header and body, any *)
(* number of short writes, and any command lines; and first, that what      *)
(* WriteRequest::Make writes WriteRequest::FromBody reads, for every size of *)
(* the header of a body, width of the lengths and limit on values.          *)
(***************************************************************************)
EXTENDS RequestPath, SequenceTheorems, TLAPS

-----------------------------------------------------------------------------
(* The body of a write request *)

(* A length reduced by the width it is passed in is a length within the string. *)
LEMMA ReducedLength ==
  ASSUME NEW len \in Nat, NEW mod \in Nat \ {0}
  PROVE  /\ len % mod \in 0 .. len
         /\ len % mod < mod
         /\ len < mod => len % mod = len
  OBVIOUS

(* The lengths that Make writes are within key and value. *)
LEMMA LengthsInside ==
  ASSUME NEW key \in Seq(Units), NEW value \in Seq(Units)
  PROVE  /\ KeyLenOf(key) \in 0 .. Len(key)
         /\ ValueLenOf(value) \in 0 .. Len(value)
  <1>1. Len(key) \in Nat /\ Len(value) \in Nat
    BY LenProperties
  <1>2. ValueMod \in Nat \ {0}
    BY MaxValueAssumption
  <1> QED
    BY <1>1, <1>2, ReducedLength, KeyModAssumption DEF KeyLenOf, ValueLenOf

(* The header is a sequence with the two lengths at its ends. *)
LEMMA HeaderProperties ==
  ASSUME NEW key_len \in Nat, NEW value_len \in Nat
  PROVE  /\ RequestHeader(key_len, value_len) \in Seq(Units)
         /\ Len(RequestHeader(key_len, value_len)) = HdrLen
         /\ RequestHeader(key_len, value_len)[1] = Num(key_len)
         /\ RequestHeader(key_len, value_len)[HdrLen] = Num(value_len)
  <1> DEFINE header == RequestHeader(key_len, value_len)
  <1>1. HdrLen \in Nat /\ HdrLen > 1
    BY HdrLenAssumption
  <1>2. Num(key_len) \in Units /\ Num(value_len) \in Units /\ Padding \in Units
    BY DEF Units, Num, Padding
  <1>3. header \in [1 .. HdrLen -> Units]
    BY <1>2 DEF RequestHeader
  <1>4. header \in Seq(Units) /\ Len(header) = HdrLen
    BY <1>1, <1>3
  <1>5. header[1] = Num(key_len) /\ header[HdrLen] = Num(value_len)
    BY <1>1 DEF RequestHeader
  <1> QED
    BY <1>4, <1>5

(* A stretch of a sequence is equal to another if their elements are. *)
LEMMA Stretch ==
  ASSUME NEW S, NEW s \in Seq(S), NEW t \in Seq(S), NEW m \in Nat,
         m + Len(t) <= Len(s),
         \A n \in 1 .. Len(t) : s[m + n] = t[n]
  PROVE  SubSeq(s, m + 1, m + Len(t)) = t
  <1>1. Len(s) \in Nat /\ Len(t) \in Nat
    BY LenProperties
  <1>2. PICK l \in Nat : l = Len(t)
    BY <1>1
  <1>3. \A n \in m + 1 .. m + l : s[n] \in S
    BY <1>1, <1>2, ElementOfSeq
  <1>4. m + 1 \in Int /\ m + l \in Int
    BY <1>2
  <1> DEFINE u == SubSeq(s, m + 1, m + l)
  <1>5. /\ u \in Seq(S)
        /\ Len(u) = IF m + 1 <= m + l THEN (m + l) - (m + 1) + 1 ELSE 0
        /\ \A n \in 1 .. (m + l) - (m + 1) + 1 : u[n] = s[(m + 1) + n - 1]
    BY <1>3, <1>4, SubSeqProperties
  <1> HIDE DEF u
  <1>6. Len(u) = Len(t)
    BY <1>2, <1>5
  <1>7. ASSUME NEW n \in 1 .. Len(u) PROVE u[n] = t[n]
    <2>1. n \in 1 .. (m + l) - (m + 1) + 1 /\ (m + 1) + n - 1 = m + n
      BY <1>2, <1>6
    <2>2. u[n] = s[m + n]
      BY <1>5, <2>1
    <2> QED
      BY <1>6, <2>2
  <1>8. u = t
    BY <1>5, <1>6, <1>7, SeqEqual
  <1> QED
    BY <1>2, <1>8 DEF u

(* Three sequences put behind each other can be taken apart again. *)
LEMMA ThreeParts ==
  ASSUME NEW S, NEW h \in Seq(S), NEW k \in Seq(S), NEW v \in Seq(S),
         NEW s, s = h \o k \o v
  PROVE  /\ s \in Seq(S) /\ Len(s) = Len(h) + Len(k) + Len(v)
         /\ \A n \in 1 .. Len(h) : s[n] = h[n]
         /\ SubSeq(s, Len(h) + 1, Len(h) + Len(k)) = k
         /\ SubSeq(s, Len(h) + Len(k) + 1, Len(h) + Len(k) + Len(v)) = v
  <1> DEFINE hk == h \o k
  <1>1. Len(h) \in Nat /\ Len(k) \in Nat /\ Len(v) \in Nat
    BY LenProperties
  <1>2. /\ hk \in Seq(S) /\ Len(hk) = Len(h) + Len(k)
        /\ \A n \in 1 .. Len(h) + Len(k) : hk[n] = IF n <= Len(h) THEN h[n] ELSE k[n - Len(h)]
    BY ConcatProperties
  <1>3. /\ s \in Seq(S) /\ Len(s) = Len(hk) + Len(v)
        /\ \A n \in 1 .. Len(hk) + Len(v) :
             s[n] = IF n <= Len(hk) THEN hk[n] ELSE v[n - Len(hk)]
    BY <1>2, ConcatProperties
  <1> HIDE DEF hk
  <1>4. \A n \in 1 .. Len(h) : s[n] = h[n]
    BY <1>1, <1>2, <1>3
  <1>5. SubSeq(s, Len(h) + 1, Len(h) + Len(k)) = k
    <2>1. \A n \in 1 .. Len(k) : s[Len(h) + n] = k[n]
      BY <1>1, <1>2, <1>3
    <2>2. Len(h) + Len(k) <= Len(s)
      BY <1>1, <1>2, <1>3
    <2> QED
      BY <1>1, <1>3, <2>1, <2>2, Stretch
  <1>6. SubSeq(s, Len(h) + Len(k) + 1, Len(h) + Len(k) + Len(v)) = v
    <2>1. Len(hk) \in Nat /\ Len(hk) + Len(v) <= Len(s)
      BY <1>1, <1>2, <1>3
    <2>2. \A n \in 1 .. Len(v) : s[Len(hk) + n] = v[n]
      BY <1>1, <1>3, <2>1
    <2>3. SubSeq(s, Len(hk) + 1, Len(hk) + Len(v)) = v
      BY <1>3, <2>1, <2>2, Stretch
    <2> QED
      BY <1>2, <2>3
  <1> QED
    BY <1>1, <1>2, <1>3, <1>4, <1>5, <1>6

(* A request is accepted with the lengths it was made with, and yields what of the *)
(* key and of the value these lengths cover.                                       *)
LEMMA MakeParses ==
  ASSUME NEW key \in Seq(Units), NEW value \in Seq(Units),
         ValueLenOf(value) <= MaxValue,
         NEW body, body = Make(key, value)
  PROVE  /\ KeyLens(body) = {KeyLenOf(key)}
         /\ ValueLens(body) = {ValueLenOf(value)}
         /\ FromBody(body, KeyLenOf(key), ValueLenOf(value))
         /\ KeyIn(body, KeyLenOf(key)) = SubSeq(key, 1, KeyLenOf(key))
         /\ ValueIn(body, KeyLenOf(key), ValueLenOf(value))
              = SubSeq(value, 1, ValueLenOf(value))
  <1> DEFINE kl == KeyLenOf(key)
             vl == ValueLenOf(value)
             h == RequestHeader(kl, vl)
             k == SubSeq(key, 1, kl)
             v == SubSeq(value, 1, vl)
  <1>1. kl \in 0 .. Len(key) /\ vl \in 0 .. Len(value)
    BY LengthsInside
  <1>2. Len(key) \in Nat /\ Len(value) \in Nat
    BY LenProperties
  <1>3. kl \in Nat /\ vl \in Nat
    BY <1>1, <1>2
  <1>4. body = h \o k \o v
    <2>1. ~(ValueLenOf(value) > MaxValue)
      BY <1>3, MaxValueAssumption
    <2> QED
      BY <2>1 DEF Make
  <1> HIDE DEF kl, vl
  <1>5. h \in Seq(Units) /\ Len(h) = HdrLen /\ h[1] = Num(kl) /\ h[HdrLen] = Num(vl)
    BY <1>3, HeaderProperties
  <1>6. k \in Seq(Units) /\ Len(k) = kl
    <2>1. \A n \in 1 .. kl : key[n] \in Units
      BY <1>1, <1>2, ElementOfSeq
    <2>2. Len(k) = IF 1 <= kl THEN kl - 1 + 1 ELSE 0
      BY <1>3, <2>1, SubSeqProperties
    <2>3. k \in Seq(Units)
      BY <1>3, <2>1, SubSeqProperties
    <2> QED
      BY <1>3, <2>2, <2>3
  <1>7. v \in Seq(Units) /\ Len(v) = vl
    <2>1. \A n \in 1 .. vl : value[n] \in Units
      BY <1>1, <1>2, ElementOfSeq
    <2>2. Len(v) = IF 1 <= vl THEN vl - 1 + 1 ELSE 0
      BY <1>3, <2>1, SubSeqProperties
    <2>3. v \in Seq(Units)
      BY <1>3, <2>1, SubSeqProperties
    <2> QED
      BY <1>3, <2>2, <2>3
  <1> HIDE DEF h, k, v
  <1>8. /\ body \in Seq(Units) /\ Len(body) = HdrLen + kl + vl
        /\ \A n \in 1 .. HdrLen : body[n] = h[n]
        /\ SubSeq(body, HdrLen + 1, HdrLen + kl) = k
        /\ SubSeq(body, HdrLen + kl + 1, HdrLen + kl + vl) = v
    <2>1. h \in Seq(Units) /\ k \in Seq(Units) /\ v \in Seq(Units)
      BY <1>5, <1>6, <1>7
    <2>2. /\ body \in Seq(Units) /\ Len(body) = Len(h) + Len(k) + Len(v)
          /\ \A n \in 1 .. Len(h) : body[n] = h[n]
          /\ SubSeq(body, Len(h) + 1, Len(h) + Len(k)) = k
          /\ SubSeq(body, Len(h) + Len(k) + 1, Len(h) + Len(k) + Len(v)) = v
      BY <1>4, <2>1, ThreeParts
    <2> QED
      BY <1>5, <1>6, <1>7, <2>2
  <1>9. HdrLen \in Nat /\ HdrLen > 1
    BY HdrLenAssumption
  <1>10. KeyLens(body) = {kl} /\ ValueLens(body) = {vl}
    <2>1. Len(body) >= 1 /\ Len(body) >= HdrLen
      BY <1>3, <1>8, <1>9
    <2>2. body[1] = Num(kl) /\ body[HdrLen] = Num(vl)
      BY <1>5, <1>8, <1>9
    <2>3. Num(kl).num = kl /\ Num(vl).num = vl
      BY DEF Num
    <2> QED
      BY <2>1, <2>2, <2>3 DEF KeyLens, ValueLens
  <1>11. FromBody(body, kl, vl) /\ KeyIn(body, kl) = k /\ ValueIn(body, kl, vl) = v
    BY <1>8 DEF FromBody, KeyIn, ValueIn
  <1> QED
    BY <1>10, <1>11 DEF kl, vl, k, v

(* A write arrives as it was given on the command line: if the key fits the byte  *)
(* its length is passed in and the value is not too long, FromBody accepts what   *)
(* Make has made, and key() and value() are the two strings.                      *)
THEOREM RoundTrip ==
  ASSUME NEW key \in Seq(Units), NEW value \in Seq(Units),
         Len(key) < KeyMod, Len(value) <= MaxValue,
         NEW body, body = Make(key, value),
         NEW key_len \in KeyLens(body), NEW value_len \in ValueLens(body)
  PROVE  /\ FromBody(body, key_len, value_len)
         /\ KeyIn(body, key_len) = key
         /\ ValueIn(body, key_len, value_len) = value
  <1>1. Len(key) \in Nat /\ Len(value) \in Nat
    BY LenProperties
  <1>2. KeyLenOf(key) = Len(key)
    BY <1>1, ReducedLength, KeyModAssumption DEF KeyLenOf
  <1>3. ValueLenOf(value) = Len(value)
    <2>1. ValueMod \in Nat \ {0} /\ Len(value) < ValueMod
      BY <1>1, MaxValueAssumption
    <2> QED
      BY <1>1, <2>1, ReducedLength DEF ValueLenOf
  <1>4. /\ KeyLens(body) = {Len(key)} /\ ValueLens(body) = {Len(value)}
        /\ FromBody(body, Len(key), Len(value))
        /\ KeyIn(body, Len(key)) = SubSeq(key, 1, Len(key))
        /\ ValueIn(body, Len(key), Len(value)) = SubSeq(value, 1, Len(value))
    BY <1>2, <1>3, MakeParses
  <1>5. key_len = Len(key) /\ value_len = Len(value)
    BY <1>4
  <1>6. SubSeq(key, 1, Len(key)) = key /\ SubSeq(value, 1, Len(value)) = value
    BY SubSeqFull
  <1> QED
    BY <1>4, <1>5, <1>6

(* Whatever a body holds, and whatever is read for lengths it is too short to hold: *)
(* if FromBody accepts it, it holds them, and key and value are all the rest of it. *)
THEOREM OnlyWhatIsThere ==
  ASSUME NEW body \in Seq(Units), NEW key_len \in Nat, NEW value_len \in Nat,
         FromBody(body, key_len, value_len)
  PROVE  /\ Len(body) >= HdrLen
         /\ body = SubSeq(body, 1, HdrLen) \o KeyIn(body, key_len)
                     \o ValueIn(body, key_len, value_len)
  <1>1. HdrLen \in Nat /\ Len(body) = HdrLen + key_len + value_len
    BY HdrLenAssumption DEF FromBody
  <1> DEFINE a == HdrLen + key_len
  <1>2. a \in Nat /\ HdrLen <= a /\ a <= Len(body) /\ Len(body) = a + value_len
    BY <1>1
  <1>3. SubSeq(body, 1, HdrLen) \o KeyIn(body, key_len) = SubSeq(body, 1, a)
    <2>1. 1 \in 1 .. Len(body) + 1 /\ HdrLen \in 1 - 1 .. Len(body) /\ a \in HdrLen .. Len(body)
      BY <1>1, <1>2
    <2>2. SubSeq(body, 1, HdrLen) \o SubSeq(body, HdrLen + 1, a) = SubSeq(body, 1, a)
      BY <2>1, ConcatAdjacentSubSeq
    <2> QED
      BY <2>2 DEF KeyIn
  <1>4. SubSeq(body, 1, a) \o ValueIn(body, key_len, value_len) = SubSeq(body, 1, Len(body))
    <2>1. /\ 1 \in 1 .. Len(body) + 1 /\ a \in 1 - 1 .. Len(body)
          /\ Len(body) \in a .. Len(body)
      BY <1>1, <1>2
    <2>2. SubSeq(body, 1, a) \o SubSeq(body, a + 1, Len(body)) = SubSeq(body, 1, Len(body))
      BY <2>1, ConcatAdjacentSubSeq
    <2> QED
      BY <1>2, <2>2 DEF ValueIn
  <1>5. SubSeq(body, 1, Len(body)) = body
    BY SubSeqFull
  <1>6. Len(body) >= HdrLen
    BY <1>1
  <1> HIDE DEF a
  <1> QED
    BY <1>3, <1>4, <1>5, <1>6

-----------------------------------------------------------------------------
(* Messages *)

\* The logarithms of the lengths of messages.
Logs == {LengthLog(data) : data \in Seq(Units)}

Headers ==
  [id : Nat, method : Commands, type : {"Request", "Response"},
   status : {"Ok", "BadArg", "NotFound"}, req_len_log : Logs, res_len_log : {None} \cup Logs]

\* The messages: the lengths in the body of a write are numbers.
Messages ==
  {msg \in [header : Headers, data : Seq(Units)] :
     msg.header.method = "write" => HoldsLengths(msg.data)}

HeadLen == MarkLen + HeaderLen
Length(msg) == HeadLen + Len(msg.data)

\* The part of s behind the first i units, up to the j-th.
Piece(s, i, j) == SubSeq(s, i + 1, j)

-----------------------------------------------------------------------------
(* The two streams of a connection *)

\* How much of a message the earlier readn() calls of end e have read.
Base(e) == CASE stage[e] = "mark"   -> 0
             [] stage[e] = "header" -> MarkLen
             [] stage[e] = "body"   -> HeadLen
             [] OTHER               -> 0

\* Nothing is on its way to e.
Quiet(e) == wire[e] = <<>> /\ buf[e] = <<>>

\* What e knows of the message msg.
Known(e, msg) ==
  /\ stage[e] = "header" => taken[e].data_len = Len(msg.data)
  /\ stage[e] = "body" => taken[e].data_len = Len(msg.data) /\ taken[e].header = msg.header

\* The first l units of the message msg have been sent to e; e has read a of them.
Split(e, msg, a, l) ==
  /\ l \in 0 .. Length(msg) /\ a \in Base(e) .. l
  /\ buf[e] = Piece(WholeOf(msg), Base(e), a)
  /\ wire[e] = Piece(WholeOf(msg), a, l)
  /\ IF Reading(e) THEN a <= Base(e) + Wanted(e) ELSE a = 0

\* So far, l units of the message the other end is sending have been sent to e.
Coming(e, l) ==
  LET msg == sent[Peer(e)]
  IN  /\ msg \in Messages
      /\ Known(e, msg)
      /\ \E a \in 0 .. Length(msg) : Split(e, msg, a, l)

\* End e is still to write a body of no units.
Late(e) == stage[e] = "send_body" /\ sent[e] \in Messages /\ sent[e].data = <<>>

\* End e awaits a message, or will.
Awaits(e) == Reading(e) \/ Late(e)

\* As many units of msg as end e has written: it stands between its two writes or
\* behind them.
Wrote(e, msg, l) ==
  /\ stage[e] = "send_body" => l = HeadLen
  /\ stage[e] # "send_body" /\ shorts = 0 => l = Length(msg)

\* The answer of the server is what the handlers promise: a read is answered out of
\* the store; a write is acknowledged if its key is there.
Fits ==
  LET request == sent["client"]
      answer  == sent["server"]
  IN  /\ request.header.method = "read" =>
           IF request.data \in DOMAIN store
           THEN answer.header.status = "Ok" /\ answer.data = store[request.data]
           ELSE answer.header.status # "Ok"
      /\ request.header.method = "write" /\ answer.header.status = "Ok" =>
           \E key_len \in KeyLens(request.data) : KeyIn(request.data, key_len) \in DOMAIN store

\* It belongs to the request of the client.
Matches ==
  /\ sent["client"] \in Messages /\ sent["server"] \in Messages
  /\ sent["server"].header.id = sent["client"].header.id
  /\ sent["server"].header.req_len_log = sent["client"].header.req_len_log
  /\ Fits

\* The phases of a connection.
Idle ==
  /\ stage["client"] = "ready" /\ Quiet("client")
  /\ stage["server"] = "mark" \/ Late("server")
  /\ Quiet("server")

Asking ==
  /\ stage["client"] \in {"send_body", "mark"} /\ Quiet("client")
  /\ Awaits("server") /\ sent["client"] \in Messages
  /\ \E l \in 0 .. Length(sent["client"]) :
       Coming("server", l) /\ Wrote("client", sent["client"], l)

Asked ==
  /\ stage["client"] = "mark" \/ Late("client")
  /\ stage["server"] = "ready" /\ Quiet("client") /\ Quiet("server")
  /\ sent["client"] \in Messages /\ taken["server"] = sent["client"]

\* What the client has of the answer.
Hears(l) == Awaits("client") /\ Coming("client", l)

Answering ==
  /\ stage["server"] \in {"send_body", "mark"} /\ Quiet("server") /\ Matches
  /\ \E l \in 0 .. Length(sent["server"]) : Hears(l) /\ Wrote("server", sent["server"], l)

\* The client is gone: the server will find nothing more than it has.
ClientGone ==
  /\ stage["client"] \in {"off", "failed"}
  /\ \/ stage["server"] \in {"off", "failed"}
     \/ Quiet("server") /\ (stage["server"] = "mark" \/ Late("server"))
     \/ /\ Reading("server") /\ wire["server"] = <<>> /\ Len(buf["server"]) < Wanted("server")
        /\ sent["client"] \in Messages
        /\ \E l \in 0 .. Length(sent["client"]) : Coming("server", l)

\* The server is gone: the client may still find an answer.
ServerGone ==
  /\ stage["server"] = "off"
  /\ \/ stage["client"] \in {"ready", "send_body", "mark"} /\ Quiet("client")
     \/ Matches /\ \E l \in 0 .. Length(sent["server"]) : Hears(l)

Phases == Idle \/ Asking \/ Asked \/ Answering \/ ClientGone \/ ServerGone

StreamTypes ==
  /\ stage \in [Ends -> {"off", "ready", "send_body", "mark", "header", "body", "failed"}]
  /\ shorts \in 0 .. MaxShorts
  /\ DOMAIN wire = Ends /\ wire = [e \in Ends |-> wire[e]]
  /\ buf = [e \in Ends |-> buf[e]] /\ taken = [e \in Ends |-> taken[e]]
  /\ sent \in [Ends -> {None} \cup Messages]
  /\ stage["client"] = "send_body" => sent["client"] \in Messages
  /\ stage["server"] = "send_body" => sent["server"] \in Messages

\* What the client has taken is the answer to what it has asked.
ClientTook ==
  stage["client"] = "ready" /\ taken["client"] # None =>
    Matches /\ taken["client"] = sent["server"]

StreamInv == StreamTypes /\ Phases /\ ClientTook

-----------------------------------------------------------------------------
(* The path of a request *)

ArgsTypes ==
  [n_conns : Nat, rpcs_per_conn : Nat, command : Commands \cup {"none"},
   key : {NoBase} \cup DOMAIN Chars, value : {NoBase} \cup DOMAIN Chars]

\* Behind the fixed arguments and the command, there are configurations only.
LineTypes ==
  /\ argv \in Seq(DOMAIN Chars)
  /\ parse \in {"fixed", "options", "configs", "parsed", "usage", "crashed"}
  /\ next_arg \in 0 .. argc
  /\ parse = "options" => next_arg >= 3
  /\ parse = "configs" => next_arg >= 4
  /\ args \in ArgsTypes
  /\ parse \in {"configs", "parsed"} => args.command \in Commands

\* The keystore maps strings to strings.
StoreTypes(s) == \A key \in DOMAIN s : key \in Seq(Units) /\ s[key] \in Seq(Units)

PathTypes ==
  /\ work \in Works /\ turn \in 1 .. Len(work)
  /\ proc \in {"start", "parse", "connect", "talk"} \cup Over
  /\ conns \in Nat /\ rpcs \in Nat /\ next_id \in Nat
  /\ proc \in {"connect", "talk"} => parse = "parsed"
  /\ StoreTypes(store)

PathInv == LineTypes /\ PathTypes /\ CrashesOnlySo /\ StreamInv

-----------------------------------------------------------------------------
(* Pieces of a sequence *)

(* What a piece is.                                                         *)
LEMMA PieceProperties ==
  ASSUME NEW S, NEW s \in Seq(S), NEW i \in Nat, NEW j \in i .. Len(s)
  PROVE  /\ Piece(s, i, j) \in Seq(S) /\ Len(Piece(s, i, j)) = j - i
         /\ \A x \in 1 .. j - i : Piece(s, i, j)[x] = s[i + x]
  <1>1. Len(s) \in Nat /\ j \in Nat /\ i <= j /\ j <= Len(s)
    BY LenProperties
  <1>2. \A x \in i + 1 .. j : s[x] \in S
    BY <1>1, ElementOfSeq
  <1>3. /\ SubSeq(s, i + 1, j) \in Seq(S)
        /\ Len(SubSeq(s, i + 1, j)) = IF i + 1 <= j THEN j - (i + 1) + 1 ELSE 0
        /\ \A x \in 1 .. j - (i + 1) + 1 : SubSeq(s, i + 1, j)[x] = s[i + 1 + x - 1]
    BY <1>1, <1>2, SubSeqProperties
  <1>4. \A x \in 1 .. j - i : SubSeq(s, i + 1, j)[x] = s[i + x]
    <2> SUFFICES ASSUME NEW x \in 1 .. j - i PROVE SubSeq(s, i + 1, j)[x] = s[i + x]
      OBVIOUS
    <2>1. x \in 1 .. j - (i + 1) + 1 /\ i + 1 + x - 1 = i + x
      BY <1>1
    <2> QED
      BY <1>3, <2>1
  <1> QED
    BY <1>1, <1>3, <1>4 DEF Piece

(* A piece from the front.                                                  *)
LEMMA FrontProperties ==
  ASSUME NEW S, NEW s \in Seq(S), NEW j \in 0 .. Len(s)
  PROVE  /\ Piece(s, 0, j) \in Seq(S) /\ Len(Piece(s, 0, j)) = j
         /\ \A x \in 1 .. j : Piece(s, 0, j)[x] = s[x]
  <1>1. j - 0 = j /\ \A x \in 1 .. j : 0 + x = x
    BY LenProperties
  <1>2. /\ Piece(s, 0, j) \in Seq(S) /\ Len(Piece(s, 0, j)) = j - 0
        /\ \A x \in 1 .. j - 0 : Piece(s, 0, j)[x] = s[0 + x]
    BY PieceProperties
  <1> QED
    BY <1>1, <1>2

(* Nothing is a piece of no units.                                          *)
LEMMA EmptyPiece ==
  ASSUME NEW S, NEW s \in Seq(S), NEW i \in Nat, NEW j \in i .. Len(s)
  PROVE  /\ Piece(s, i, i) = <<>>
         /\ Piece(s, i, j) = <<>> => j = i
  <1>1. Piece(s, i, i) = <<>>
    BY SubSeqEmpty DEF Piece
  <1>2. Len(Piece(s, i, j)) = j - i
    BY PieceProperties
  <1>3. j \in Nat
    BY LenProperties
  <1> QED
    BY <1>1, <1>2, <1>3, EmptySeq

(* Pieces that meet make one.                                               *)
LEMMA JoinPieces ==
  ASSUME NEW S, NEW s \in Seq(S), NEW i \in Nat, NEW j \in i .. Len(s),
         NEW k \in j .. Len(s)
  PROVE  Piece(s, i, j) \o Piece(s, j, k) = Piece(s, i, k)
  <1>1. Len(s) \in Nat /\ j \in Nat /\ k \in Nat /\ i <= j /\ j <= k /\ k <= Len(s)
    BY LenProperties
  <1>2. i + 1 \in 1 .. Len(s) + 1 /\ j \in (i + 1) - 1 .. Len(s) /\ k \in j .. Len(s)
    BY <1>1
  <1> QED
    BY <1>2, ConcatAdjacentSubSeq DEF Piece

(* The first n units of a piece, and the others.                            *)
LEMMA CutPiece ==
  ASSUME NEW S, NEW s \in Seq(S), NEW i \in Nat, NEW k \in i .. Len(s),
         NEW n \in 0 .. k - i
  PROVE  /\ SubSeq(Piece(s, i, k), 1, n) = Piece(s, i, i + n)
         /\ SubSeq(Piece(s, i, k), n + 1, Len(Piece(s, i, k))) = Piece(s, i + n, k)
  <1> DEFINE p == Piece(s, i, k)
  <1>1. Len(s) \in Nat /\ k \in Nat /\ i <= k /\ k <= Len(s) /\ n \in Nat /\ n <= k - i
    BY LenProperties
  <1>2. p \in Seq(S) /\ Len(p) = k - i /\ \A x \in 1 .. k - i : p[x] = s[i + x]
    BY PieceProperties
  <1> HIDE DEF p
  <1>3. i + n \in Nat /\ i + n \in i .. Len(s) /\ k \in i + n .. Len(s)
    BY <1>1
  <1>4. /\ Piece(s, i, i + n) \in Seq(S) /\ Len(Piece(s, i, i + n)) = n
        /\ \A x \in 1 .. n : Piece(s, i, i + n)[x] = s[i + x]
    <2>1. (i + n) - i = n
      BY <1>1
    <2> QED
      BY <1>3, <2>1, PieceProperties
  <1>5. /\ Piece(s, i + n, k) \in Seq(S) /\ Len(Piece(s, i + n, k)) = k - (i + n)
        /\ \A x \in 1 .. k - (i + n) : Piece(s, i + n, k)[x] = s[i + n + x]
    BY <1>3, PieceProperties
  <1>6. 0 \in Nat /\ n \in 0 .. Len(p) /\ Len(p) \in n .. Len(p) /\ n - 0 = n
    BY <1>1, <1>2
  <1>7. /\ Piece(p, 0, n) \in Seq(S) /\ Len(Piece(p, 0, n)) = n
        /\ \A x \in 1 .. n : Piece(p, 0, n)[x] = p[x]
    BY <1>2, <1>6, FrontProperties
  <1>8. /\ Piece(p, n, Len(p)) \in Seq(S) /\ Len(Piece(p, n, Len(p))) = Len(p) - n
        /\ \A x \in 1 .. Len(p) - n : Piece(p, n, Len(p))[x] = p[n + x]
    BY <1>1, <1>2, <1>6, PieceProperties
  <1>9. Piece(p, 0, n) = Piece(s, i, i + n)
    <2>1. \A x \in 1 .. n : Piece(p, 0, n)[x] = Piece(s, i, i + n)[x]
      <3> SUFFICES ASSUME NEW x \in 1 .. n
                   PROVE  Piece(p, 0, n)[x] = Piece(s, i, i + n)[x]
        OBVIOUS
      <3>1. x \in 1 .. k - i
        BY <1>1
      <3> QED
        BY <1>2, <1>4, <1>7, <3>1
    <2> QED
      BY <1>4, <1>7, <2>1, SeqEqual
  <1>10. Piece(p, n, Len(p)) = Piece(s, i + n, k)
    <2>1. Len(p) - n = k - (i + n)
      BY <1>1, <1>2
    <2>2. \A x \in 1 .. k - (i + n) : Piece(p, n, Len(p))[x] = Piece(s, i + n, k)[x]
      <3> SUFFICES ASSUME NEW x \in 1 .. k - (i + n)
                   PROVE  Piece(p, n, Len(p))[x] = Piece(s, i + n, k)[x]
        OBVIOUS
      <3>1. n + x \in 1 .. k - i /\ i + (n + x) = i + n + x /\ x \in 1 .. Len(p) - n
        BY <1>1, <2>1
      <3> QED
        BY <1>2, <1>5, <1>8, <3>1
    <2> QED
      BY <1>5, <1>8, <2>1, <2>2, SeqEqual
  <1>11. SubSeq(p, 1, n) = Piece(p, 0, n)
    BY DEF Piece
  <1>12. SubSeq(p, n + 1, Len(p)) = Piece(p, n, Len(p))
    BY DEF Piece
  <1> QED
    BY <1>9, <1>10, <1>11, <1>12 DEF p

(* A piece of a sequence that something follows, and of what follows it.    *)
LEMMA FrontOfConcat ==
  ASSUME NEW S, NEW s \in Seq(S), NEW t \in Seq(S), NEW k \in 0 .. Len(s)
  PROVE  Piece(s \o t, 0, k) = SubSeq(s, 1, k)
  <1> DEFINE u == s \o t
  <1>1. Len(s) \in Nat /\ Len(t) \in Nat
    BY LenProperties
  <1>2. /\ u \in Seq(S) /\ Len(u) = Len(s) + Len(t)
        /\ \A x \in 1 .. Len(s) + Len(t) :
             u[x] = IF x <= Len(s) THEN s[x] ELSE t[x - Len(s)]
    BY ConcatProperties
  <1> HIDE DEF u
  <1>3. k \in 0 .. Len(u) /\ k \in 0 .. Len(s)
    BY <1>1, <1>2
  <1>4. /\ Piece(u, 0, k) \in Seq(S) /\ Len(Piece(u, 0, k)) = k
        /\ \A x \in 1 .. k : Piece(u, 0, k)[x] = u[x]
    BY <1>2, <1>3, FrontProperties
  <1>5. /\ Piece(s, 0, k) \in Seq(S) /\ Len(Piece(s, 0, k)) = k
        /\ \A x \in 1 .. k : Piece(s, 0, k)[x] = s[x]
    BY <1>3, FrontProperties
  <1>6. \A x \in 1 .. k : Piece(u, 0, k)[x] = Piece(s, 0, k)[x]
    <2> SUFFICES ASSUME NEW x \in 1 .. k PROVE Piece(u, 0, k)[x] = Piece(s, 0, k)[x]
      OBVIOUS
    <2>1. x \in 1 .. Len(s) + Len(t) /\ x <= Len(s)
      BY <1>1, <1>3
    <2> QED
      BY <1>2, <1>4, <1>5, <2>1
  <1>7. Piece(u, 0, k) = Piece(s, 0, k)
    BY <1>4, <1>5, <1>6, SeqEqual
  <1>8. Piece(s, 0, k) = SubSeq(s, 1, k)
    BY DEF Piece
  <1> QED
    BY <1>7, <1>8 DEF u

(* The same of what follows.                                                *)
LEMMA BackOfConcat ==
  ASSUME NEW S, NEW s \in Seq(S), NEW t \in Seq(S), NEW k \in 0 .. Len(t),
         NEW i \in Len(s) .. Len(s), NEW j \in Nat, j - i = k
  PROVE  Piece(s \o t, i, j) = SubSeq(t, 1, k)
  <1> DEFINE u == s \o t
  <1>1. Len(s) \in Nat /\ Len(t) \in Nat
    BY LenProperties
  <1>2. /\ u \in Seq(S) /\ Len(u) = Len(s) + Len(t)
        /\ \A x \in 1 .. Len(s) + Len(t) :
             u[x] = IF x <= Len(s) THEN s[x] ELSE t[x - Len(s)]
    BY ConcatProperties
  <1> HIDE DEF u
  <1>3. k \in 0 .. Len(t) /\ i = Len(s) /\ i \in Nat /\ j \in i .. Len(u) /\ j - i = k
    BY <1>1, <1>2
  <1>4. /\ Piece(u, i, j) \in Seq(S) /\ Len(Piece(u, i, j)) = j - i
        /\ \A x \in 1 .. j - i : Piece(u, i, j)[x] = u[i + x]
    BY <1>2, <1>3, PieceProperties
  <1>5. /\ Piece(t, 0, k) \in Seq(S) /\ Len(Piece(t, 0, k)) = k
        /\ \A x \in 1 .. k : Piece(t, 0, k)[x] = t[x]
    BY <1>3, FrontProperties
  <1>6. \A x \in 1 .. j - i : Piece(u, i, j)[x] = Piece(t, 0, k)[x]
    <2> SUFFICES ASSUME NEW x \in 1 .. j - i
                 PROVE  Piece(u, i, j)[x] = Piece(t, 0, k)[x]
      OBVIOUS
    <2>1. /\ i + x \in 1 .. Len(s) + Len(t) /\ ~(i + x <= Len(s)) /\ (i + x) - Len(s) = x
          /\ x \in 1 .. k
      BY <1>1, <1>3
    <2> QED
      BY <1>2, <1>4, <1>5, <2>1
  <1>7. Piece(u, i, j) = Piece(t, 0, k)
    BY <1>3, <1>4, <1>5, <1>6, SeqEqual
  <1>8. Piece(t, 0, k) = SubSeq(t, 1, k)
    BY DEF Piece
  <1> QED
    BY <1>7, <1>8 DEF u

-----------------------------------------------------------------------------
(* Messages *)

(* The lengths of mark and header.                                          *)
LEMMA HeadLengths ==
  MarkLen \in Nat /\ MarkLen > 0 /\ HeaderLen \in Nat /\ HeaderLen > 0
    /\ HeadLen \in Nat /\ HeadLen > MarkLen /\ HeadLen - MarkLen = HeaderLen
  BY MarkLenAssumption, HeaderLenAssumption DEF HeadLen

\* The units of a message.
UnitsOf(msg) == Units \cup {HeadOf(msg)[n] : n \in 1 .. HeadLen}

(* A message is its head and its data.                                      *)
LEMMA WholeProperties ==
  ASSUME NEW msg \in Messages
  PROVE  /\ msg.data \in Seq(Units) /\ Len(msg.data) \in Nat
         /\ Length(msg) \in Nat /\ Length(msg) = HeadLen + Len(msg.data)
         /\ HeadOf(msg) \in Seq(UnitsOf(msg)) /\ Len(HeadOf(msg)) = HeadLen
         /\ WholeOf(msg) \in Seq(UnitsOf(msg)) /\ Len(WholeOf(msg)) = Length(msg)
         /\ \A k \in 0 .. HeadLen : Piece(WholeOf(msg), 0, k) = SubSeq(HeadOf(msg), 1, k)
         /\ \A k \in 0 .. Len(msg.data) :
              Piece(WholeOf(msg), HeadLen, HeadLen + k) = SubSeq(msg.data, 1, k)
  <1>1. msg.data \in Seq(Units) /\ msg.data \in Seq(UnitsOf(msg)) /\ Len(msg.data) \in Nat
    <2>1. msg.data \in Seq(Units)
      BY DEF Messages
    <2>2. Units \subseteq UnitsOf(msg)
      BY DEF UnitsOf
    <2> QED
      BY <2>1, <2>2, SeqMonotonic, LenProperties
  <1>2. Length(msg) \in Nat /\ Length(msg) = HeadLen + Len(msg.data)
    BY <1>1, HeadLengths DEF Length
  <1>3. HeadOf(msg) \in Seq(UnitsOf(msg)) /\ Len(HeadOf(msg)) = HeadLen
    <2> DEFINE unit(n) == IF n <= MarkLen THEN [mark |-> n, data_len |-> Len(msg.data)]
                          ELSE [part |-> n - MarkLen, header |-> msg.header]
    <2>1. HeadOf(msg) = [n \in 1 .. HeadLen |-> unit(n)]
      BY DEF HeadOf, HeadLen
    <2> HIDE DEF unit
    <2>2. DOMAIN HeadOf(msg) = 1 .. HeadLen
      BY <2>1
    <2>3. \A n \in 1 .. HeadLen : HeadOf(msg)[n] \in UnitsOf(msg)
      BY DEF UnitsOf
    <2>4. HeadOf(msg) \in [1 .. HeadLen -> UnitsOf(msg)]
      BY <2>1, <2>3
    <2> QED
      BY <2>4, HeadLengths
  <1>4. WholeOf(msg) = HeadOf(msg) \o msg.data
    BY DEF WholeOf
  <1>5. WholeOf(msg) \in Seq(UnitsOf(msg)) /\ Len(WholeOf(msg)) = HeadLen + Len(msg.data)
    BY <1>1, <1>3, <1>4, ConcatProperties
  <1>6. ASSUME NEW k \in 0 .. HeadLen
        PROVE  Piece(WholeOf(msg), 0, k) = SubSeq(HeadOf(msg), 1, k)
    <2>1. k \in 0 .. Len(HeadOf(msg))
      BY <1>3
    <2> QED
      BY <1>1, <1>3, <1>4, <2>1, FrontOfConcat
  <1>7. ASSUME NEW k \in 0 .. Len(msg.data)
        PROVE  Piece(WholeOf(msg), HeadLen, HeadLen + k) = SubSeq(msg.data, 1, k)
    <2>1. msg.data \in Seq(UnitsOf(msg)) /\ HeadOf(msg) \in Seq(UnitsOf(msg))
      BY <1>1, <1>3
    <2>2. ASSUME NEW h \in Seq(UnitsOf(msg)), NEW d \in Seq(UnitsOf(msg)),
                 NEW n \in 0 .. Len(d),
                 NEW i \in Len(h) .. Len(h), NEW j \in Nat, j - i = n
          PROVE  Piece(h \o d, i, j) = SubSeq(d, 1, n)
      BY <2>2, BackOfConcat
    <2>3. ASSUME NEW i \in Nat, NEW j \in Nat, i = HeadLen, j = HeadLen + k
          PROVE  Piece(WholeOf(msg), i, j) = SubSeq(msg.data, 1, k)
      <3>1. i \in Len(HeadOf(msg)) .. Len(HeadOf(msg)) /\ j - i = k
        BY <1>1, <1>3, <2>3, HeadLengths
      <3>2. k \in 0 .. Len(msg.data)
        OBVIOUS
      <3>3. Piece(HeadOf(msg) \o msg.data, i, j) = SubSeq(msg.data, 1, k)
        BY <2>1, <2>2, <3>1, <3>2, Zenon
      <3> QED
        BY <1>4, <3>3
    <2>4. HeadLen \in Nat /\ HeadLen + k \in Nat
      BY <1>1, HeadLengths
    <2> QED
      BY <2>3, <2>4
  <1> QED
    BY <1>1, <1>2, <1>3, <1>5, <1>6, <1>7

(* What the parts of a message say.                                         *)
LEMMA PartsProperties ==
  ASSUME NEW msg \in Messages
  PROVE  /\ Piece(WholeOf(msg), 0, MarkLen)[1].data_len = Len(msg.data)
         /\ Piece(WholeOf(msg), MarkLen, HeadLen)[1].header = msg.header
         /\ Piece(WholeOf(msg), HeadLen, Length(msg)) = msg.data
         /\ msg = [header |-> msg.header, data |-> msg.data]
  <1> DEFINE W == WholeOf(msg)
  <1>1. /\ W \in Seq(UnitsOf(msg)) /\ Len(W) = Length(msg)
        /\ \A k \in 0 .. HeadLen : Piece(W, 0, k) = SubSeq(HeadOf(msg), 1, k)
    BY WholeProperties
  <1>2. W = HeadOf(msg) \o msg.data
    BY DEF WholeOf
  <1>3. /\ msg.data \in Seq(Units) /\ Len(msg.data) \in Nat
        /\ Length(msg) \in Nat /\ Length(msg) = HeadLen + Len(msg.data)
        /\ HeadOf(msg) \in Seq(UnitsOf(msg)) /\ Len(HeadOf(msg)) = HeadLen
    BY WholeProperties
  <1>4. msg.data \in Seq(UnitsOf(msg))
    BY <1>3, SeqMonotonic DEF UnitsOf
  <1>5. \A i \in 1 .. HeadLen : W[i] = HeadOf(msg)[i]
    <2>1. \A i \in 1 .. Len(HeadOf(msg)) + Len(msg.data) :
            (HeadOf(msg) \o msg.data)[i] =
               IF i <= Len(HeadOf(msg)) THEN HeadOf(msg)[i]
               ELSE msg.data[i - Len(HeadOf(msg))]
      BY <1>3, <1>4, ConcatProperties
    <2> SUFFICES ASSUME NEW i \in 1 .. HeadLen PROVE W[i] = HeadOf(msg)[i]
      OBVIOUS
    <2>2. i \in 1 .. Len(HeadOf(msg)) + Len(msg.data) /\ i <= Len(HeadOf(msg))
      BY <1>3, HeadLengths
    <2> QED
      BY <1>2, <2>1, <2>2
  <1>6. HeadOf(msg)[1].data_len = Len(msg.data)
    <2>1. 1 \in 1 .. MarkLen + HeaderLen /\ 1 <= MarkLen
      BY HeadLengths
    <2>2. HeadOf(msg)[1] = [mark |-> 1, data_len |-> Len(msg.data)]
      BY <2>1 DEF HeadOf
    <2> QED
      BY <2>2
  <1>7. HeadOf(msg)[MarkLen + 1].header = msg.header
    <2>1. MarkLen + 1 \in 1 .. MarkLen + HeaderLen /\ ~(MarkLen + 1 <= MarkLen)
      BY HeadLengths
    <2> DEFINE n == MarkLen + 1
    <2>2. HeadOf(msg)[n] = [part |-> n - MarkLen, header |-> msg.header]
      <3> HIDE DEF n
      <3> QED
        BY <2>1 DEF HeadOf, n
    <2> QED
      BY <2>2
  <1> HIDE DEF W
  <1>13. Len(W) \in Nat /\ Len(W) >= HeadLen
    <2> DEFINE d == Len(msg.data)
    <2>1. d \in Nat /\ Len(W) = HeadLen + d /\ HeadLen \in Nat
      BY <1>1, <1>3, HeadLengths
    <2> HIDE DEF d
    <2> QED
      BY <2>1
  <1>8. Piece(W, 0, MarkLen)[1] = W[1]
    <2>1. MarkLen \in 0 .. Len(W) /\ 1 \in 1 .. MarkLen
      BY <1>13, HeadLengths
    <2> QED
      BY <1>1, <2>1, FrontProperties
  <1>9. Piece(W, MarkLen, HeadLen)[1] = W[MarkLen + 1]
    <2>1. MarkLen \in Nat /\ HeadLen \in MarkLen .. Len(W) /\ 1 \in 1 .. HeadLen - MarkLen
      BY <1>13, HeadLengths
    <2> QED
      BY <1>1, <2>1, PieceProperties
  <1>10. 1 \in 1 .. HeadLen /\ MarkLen + 1 \in 1 .. HeadLen
    BY HeadLengths
  <1>11. Piece(W, HeadLen, Length(msg)) = msg.data
    <2>1. Len(msg.data) \in 0 .. Len(msg.data)
      BY <1>3
    <2>2. Piece(WholeOf(msg), HeadLen, HeadLen + Len(msg.data))
            = SubSeq(msg.data, 1, Len(msg.data))
      BY <2>1, WholeProperties
    <2>3. SubSeq(msg.data, 1, Len(msg.data)) = msg.data
      BY <1>3, SubSeqFull
    <2> QED
      BY <1>3, <2>2, <2>3 DEF W
  <1>12. msg = [header |-> msg.header, data |-> msg.data]
    BY DEF Messages
  <1> QED
    BY <1>5, <1>6, <1>7, <1>8, <1>9, <1>10, <1>11, <1>12 DEF W

-----------------------------------------------------------------------------
(* What end e receives of a message *)

(* There are two ends.                                                      *)
LEMMA EndsFacts ==
  /\ "client" \in Ends /\ "server" \in Ends
  /\ Peer("client") = "server" /\ Peer("server") = "client"
  /\ \A e \in Ends : Peer(e) \in Ends /\ Peer(e) # e
  BY DEF Ends, Peer

(* How far end e is, in numbers.                                            *)
LEMMA ComingFacts ==
  ASSUME NEW e \in Ends, NEW l, NEW msg, msg = sent[Peer(e)], Coming(e, l), Reading(e)
  PROVE  /\ msg \in Messages /\ Known(e, msg)
         /\ Base(e) \in Nat /\ Wanted(e) \in Nat /\ Base(e) + Wanted(e) <= Length(msg)
         /\ l \in 0 .. Length(msg)
         /\ \E a \in 0 .. Length(msg) :
              /\ a \in Base(e) .. l /\ a <= Base(e) + Wanted(e)
              /\ buf[e] = Piece(WholeOf(msg), Base(e), a)
              /\ wire[e] = Piece(WholeOf(msg), a, l)
              /\ Len(buf[e]) = a - Base(e) /\ Len(wire[e]) = l - a
  <1> DEFINE W == WholeOf(msg)
  <1>1. /\ msg \in Messages /\ Known(e, msg)
        /\ \E a \in 0 .. Length(msg) : Split(e, msg, a, l)
    BY DEF Coming
  <1>2. PICK a \in 0 .. Length(msg) : Split(e, msg, a, l)
    BY <1>1
  <1>3. /\ Length(msg) \in Nat /\ Length(msg) = HeadLen + Len(msg.data)
        /\ Len(msg.data) \in Nat /\ W \in Seq(UnitsOf(msg)) /\ Len(W) = Length(msg)
    BY <1>1, WholeProperties
  <1>4. /\ l \in 0 .. Length(msg) /\ a \in Base(e) .. l /\ a <= Base(e) + Wanted(e)
        /\ buf[e] = Piece(W, Base(e), a) /\ wire[e] = Piece(W, a, l)
    BY <1>2 DEF Split
  <1>5. Base(e) \in Nat /\ Wanted(e) \in Nat /\ Base(e) + Wanted(e) <= Length(msg)
    <2>1. CASE stage[e] = "mark"
      BY <1>3, <2>1, HeadLengths DEF Base, Wanted
    <2>2. CASE stage[e] = "header"
      BY <1>3, <2>2, HeadLengths DEF Base, Wanted
    <2>3. CASE stage[e] = "body"
      <3>1. Base(e) = HeadLen /\ Wanted(e) = Len(msg.data)
        BY <1>1, <2>3 DEF Base, Wanted, Known
      <3> QED
        BY <1>3, <3>1, HeadLengths
    <2> QED
      BY <2>1, <2>2, <2>3 DEF Reading
  <1> HIDE DEF W
  <1>6. a \in Nat /\ l \in Nat /\ a \in Base(e) .. Len(W) /\ l \in a .. Len(W)
    BY <1>3, <1>4, <1>5
  <1>7. Len(buf[e]) = a - Base(e)
    <2>1. Len(Piece(W, Base(e), a)) = a - Base(e)
      BY <1>3, <1>5, <1>6, PieceProperties
    <2> QED
      BY <1>4, <2>1
  <1>8. Len(wire[e]) = l - a
    <2>1. Len(Piece(W, a, l)) = l - a
      BY <1>3, <1>6, PieceProperties
    <2> QED
      BY <1>4, <2>1
  <1> QED
    BY <1>1, <1>4, <1>5, <1>7, <1>8 DEF W

(* A read() takes the next units of the message.                            *)
LEMMA ReadKeeps ==
  ASSUME NEW e \in Ends, NEW l, StreamTypes, Coming(e, l), Read(e)
  PROVE  Coming(e, l)'
  <1> DEFINE msg == sent[Peer(e)]
             W == WholeOf(msg)
             b == Base(e)
  <1>1. /\ Reading(e) /\ stage' = stage /\ sent' = sent /\ taken' = taken
        /\ DOMAIN wire = Ends /\ DOMAIN buf = Ends
    BY DEF Read, StreamTypes
  <1>2. PICK n \in 1 .. Wanted(e) - Len(buf[e]) :
          /\ n <= Len(wire[e])
          /\ buf'[e] = buf[e] \o SubSeq(wire[e], 1, n)
          /\ wire'[e] = SubSeq(wire[e], n + 1, Len(wire[e]))
    BY <1>1 DEF Read
  <1>3. /\ msg \in Messages /\ Known(e, msg)
        /\ b \in Nat /\ Wanted(e) \in Nat /\ b + Wanted(e) <= Length(msg)
        /\ l \in 0 .. Length(msg)
    BY <1>1, ComingFacts
  <1>4. PICK a \in 0 .. Length(msg) :
          /\ a \in b .. l /\ a <= b + Wanted(e)
          /\ buf[e] = Piece(W, b, a) /\ wire[e] = Piece(W, a, l)
          /\ Len(buf[e]) = a - b /\ Len(wire[e]) = l - a
    BY <1>1, ComingFacts
  <1>5. Length(msg) \in Nat /\ W \in Seq(UnitsOf(msg)) /\ Len(W) = Length(msg)
    BY <1>3, WholeProperties
  <1>6. Base(e)' = b /\ Wanted(e)' = Wanted(e) /\ Reading(e)' /\ (Known(e, msg))'
        /\ msg' = msg
    BY <1>1, <1>3 DEF Base, Wanted, Reading, Known
  <1> HIDE DEF msg, W, b
  <1>7. /\ a + n \in 0 .. Length(msg) /\ a + n \in b .. l /\ a + n <= b + Wanted(e)
        /\ a \in Nat /\ a \in b .. Len(W) /\ l \in a .. Len(W) /\ a + n \in a .. Len(W)
        /\ n \in 0 .. l - a
    BY <1>2, <1>3, <1>4, <1>5
  <1>8. /\ SubSeq(wire[e], 1, n) = Piece(W, a, a + n)
        /\ SubSeq(wire[e], n + 1, Len(wire[e])) = Piece(W, a + n, l)
    <2>1. a \in Nat /\ l \in a .. Len(W) /\ n \in 0 .. l - a
      BY <1>7
    <2>2. /\ SubSeq(Piece(W, a, l), 1, n) = Piece(W, a, a + n)
          /\ SubSeq(Piece(W, a, l), n + 1, Len(Piece(W, a, l))) = Piece(W, a + n, l)
      BY <1>5, <2>1, CutPiece
    <2> QED
      BY <1>4, <2>2
  <1>9. Piece(W, b, a) \o Piece(W, a, a + n) = Piece(W, b, a + n)
    BY <1>3, <1>5, <1>7, JoinPieces
  <1>10. buf'[e] = Piece(W, b, a + n) /\ wire'[e] = Piece(W, a + n, l)
    BY <1>2, <1>4, <1>8, <1>9
  <1>11. Split(e, msg, a + n, l)'
    BY <1>3, <1>6, <1>7, <1>10 DEF Split, W
  <1> QED
    BY <1>3, <1>6, <1>7, <1>11 DEF Coming, msg

(* With the mark, the length of the data is known.                          *)
LEMMA MarkKeeps ==
  ASSUME NEW e \in Ends, NEW l, StreamTypes, Coming(e, l), GotMark(e)
  PROVE  Coming(e, l)' /\ stage'[e] = "header"
  <1> DEFINE msg == sent[Peer(e)]
             W == WholeOf(msg)
  <1>1. /\ stage[e] = "mark" /\ Reading(e) /\ sent' = sent /\ wire' = wire
        /\ Len(buf[e]) = Wanted(e) /\ Base(e) = 0 /\ Wanted(e) = MarkLen
        /\ buf'[e] = <<>> /\ stage'[e] = "header"
        /\ taken'[e] = [data_len |-> buf[e][1].data_len]
    BY DEF GotMark, Complete, StreamTypes, Reading, Base, Wanted
  <1>2. msg \in Messages /\ l \in 0 .. Length(msg)
    BY <1>1, ComingFacts
  <1>3. PICK a \in 0 .. Length(msg) :
          /\ a \in 0 .. l /\ buf[e] = Piece(W, 0, a) /\ wire[e] = Piece(W, a, l)
          /\ Len(buf[e]) = a - 0
    BY <1>1, ComingFacts
  <1>4. a = MarkLen
    BY <1>1, <1>3, HeadLengths
  <1>5. /\ Length(msg) \in Nat /\ Length(msg) = HeadLen + Len(msg.data)
        /\ Len(msg.data) \in Nat /\ W \in Seq(UnitsOf(msg)) /\ Len(W) = Length(msg)
    BY <1>2, WholeProperties
  <1>6. Piece(W, MarkLen, MarkLen) = <<>>
    <2>1. MarkLen \in Nat /\ MarkLen \in MarkLen .. Len(W)
      BY <1>5, HeadLengths
    <2> QED
      BY <1>5, <2>1, EmptyPiece
  <1>7. taken'[e].data_len = Len(msg.data)
    BY <1>1, <1>2, <1>3, <1>4, PartsProperties
  <1>8. Base(e)' = MarkLen /\ Wanted(e)' = HeaderLen /\ Reading(e)' /\ Known(e, msg)'
        /\ msg' = msg
    BY <1>1, <1>7 DEF Base, Wanted, Reading, Known
  <1> HIDE DEF msg, W
  <1>9. MarkLen \in MarkLen .. l /\ MarkLen <= MarkLen + HeaderLen
        /\ MarkLen \in 0 .. Length(msg)
    BY <1>3, <1>4, HeadLengths
  <1>10. Split(e, msg, MarkLen, l)'
    BY <1>1, <1>2, <1>3, <1>4, <1>6, <1>8, <1>9 DEF Split, W
  <1> QED
    BY <1>1, <1>2, <1>8, <1>9, <1>10 DEF Coming, msg

(* Then the header.                                                         *)
LEMMA HeaderKeeps ==
  ASSUME NEW e \in Ends, NEW l, StreamTypes, Coming(e, l), GotHeader(e)
  PROVE  Coming(e, l)' /\ stage'[e] = "body"
  <1> DEFINE msg == sent[Peer(e)]
             W == WholeOf(msg)
  <1>1. /\ stage[e] = "header" /\ Reading(e) /\ sent' = sent /\ wire' = wire
        /\ Len(buf[e]) = Wanted(e) /\ Base(e) = MarkLen /\ Wanted(e) = HeaderLen
        /\ buf'[e] = <<>> /\ stage'[e] = "body"
        /\ taken'[e] = [data_len |-> taken[e].data_len, header |-> buf[e][1].header]
    BY DEF GotHeader, Complete, StreamTypes, Reading, Base, Wanted
  <1>2. msg \in Messages /\ l \in 0 .. Length(msg) /\ taken[e].data_len = Len(msg.data)
    BY <1>1, ComingFacts DEF Known
  <1>3. PICK a \in 0 .. Length(msg) :
          /\ a \in MarkLen .. l /\ buf[e] = Piece(W, MarkLen, a) /\ wire[e] = Piece(W, a, l)
          /\ Len(buf[e]) = a - MarkLen
    BY <1>1, ComingFacts
  <1>4. a = HeadLen
    BY <1>1, <1>3, HeadLengths
  <1>5. /\ Length(msg) \in Nat /\ Length(msg) = HeadLen + Len(msg.data)
        /\ Len(msg.data) \in Nat /\ W \in Seq(UnitsOf(msg)) /\ Len(W) = Length(msg)
    BY <1>2, WholeProperties
  <1>6. Piece(W, HeadLen, HeadLen) = <<>>
    <2>1. HeadLen \in Nat /\ HeadLen \in HeadLen .. Len(W)
      BY <1>5, HeadLengths
    <2> QED
      BY <1>5, <2>1, EmptyPiece
  <1>7. taken'[e].data_len = Len(msg.data) /\ taken'[e].header = msg.header
    BY <1>1, <1>2, <1>3, <1>4, PartsProperties
  <1>8. Base(e)' = HeadLen /\ Wanted(e)' = Len(msg.data) /\ Reading(e)' /\ Known(e, msg)'
        /\ msg' = msg
    BY <1>1, <1>7 DEF Base, Wanted, Reading, Known
  <1> HIDE DEF msg, W
  <1>9. HeadLen \in HeadLen .. l /\ HeadLen <= HeadLen + Len(msg.data)
        /\ HeadLen \in 0 .. Length(msg)
    BY <1>2, <1>3, <1>4, <1>5, HeadLengths
  <1>10. Split(e, msg, HeadLen, l)'
    BY <1>1, <1>2, <1>3, <1>4, <1>6, <1>8, <1>9 DEF Split, W
  <1> QED
    BY <1>1, <1>2, <1>8, <1>9, <1>10 DEF Coming, msg

(* With the body, e has the message, and there is nothing more.             *)
LEMMA BodyEnds ==
  ASSUME NEW e \in Ends, NEW l, StreamTypes, Coming(e, l), GotBody(e)
  PROVE  /\ l = Length(sent[Peer(e)]) /\ Quiet(e)' /\ stage'[e] = "ready"
         /\ taken'[e] = sent[Peer(e)]
  <1> DEFINE msg == sent[Peer(e)]
             W == WholeOf(msg)
  <1>1. /\ stage[e] = "body" /\ Reading(e) /\ sent' = sent /\ wire' = wire
        /\ Len(buf[e]) = Wanted(e) /\ Base(e) = HeadLen /\ Wanted(e) = taken[e].data_len
        /\ buf'[e] = <<>> /\ stage'[e] = "ready"
        /\ taken'[e] = [header |-> taken[e].header, data |-> buf[e]]
    BY DEF GotBody, Complete, StreamTypes, Reading, Base, Wanted
  <1>2. msg \in Messages /\ l \in 0 .. Length(msg) /\ taken[e].data_len = Len(msg.data)
        /\ taken[e].header = msg.header
    BY <1>1, ComingFacts DEF Known
  <1>3. PICK a \in 0 .. Length(msg) :
          /\ a \in HeadLen .. l /\ buf[e] = Piece(W, HeadLen, a) /\ wire[e] = Piece(W, a, l)
          /\ Len(buf[e]) = a - HeadLen
    BY <1>1, ComingFacts
  <1>5. /\ Length(msg) \in Nat /\ Length(msg) = HeadLen + Len(msg.data)
        /\ Len(msg.data) \in Nat /\ W \in Seq(UnitsOf(msg)) /\ Len(W) = Length(msg)
    BY <1>2, WholeProperties
  <1>4. a = Length(msg) /\ l = Length(msg)
    BY <1>1, <1>2, <1>3, <1>5, HeadLengths
  <1>6. Piece(W, Length(msg), Length(msg)) = <<>>
    <2>1. Length(msg) \in Length(msg) .. Len(W)
      BY <1>5
    <2> QED
      BY <1>5, <2>1, EmptyPiece
  <1>7. buf[e] = msg.data /\ msg = [header |-> msg.header, data |-> msg.data]
    BY <1>2, <1>3, <1>4, PartsProperties
  <1> QED
    BY <1>1, <1>2, <1>3, <1>4, <1>6, <1>7 DEF Quiet

-----------------------------------------------------------------------------
(* What end e sends of a message *)

(* What is on its way to e does not change by what the other end does, but  *)
(* for what it sends,                                                       *)
LEMMA ComingKept ==
  ASSUME NEW e \in Ends, NEW l, Coming(e, l),
         stage'[e] = stage[e], buf'[e] = buf[e], wire'[e] = wire[e], taken'[e] = taken[e],
         sent'[Peer(e)] = sent[Peer(e)]
  PROVE  Coming(e, l)'
  <1> DEFINE msg == sent[Peer(e)]
  <1>1. PICK a \in 0 .. Length(msg) : Split(e, msg, a, l)
    BY DEF Coming
  <1>2. /\ msg' = msg /\ Base(e)' = Base(e) /\ (Reading(e)' <=> Reading(e))
        /\ Known(e, msg)' /\ msg \in Messages
        /\ Reading(e) => Wanted(e)' = Wanted(e)
    BY DEF Base, Reading, Wanted, Known, Coming
  <1> HIDE DEF msg
  <1>3. Split(e, msg, a, l)'
    BY <1>1, <1>2 DEF Split
  <1> QED
    BY <1>2, <1>3 DEF Coming, msg

(* nor when e makes its write of no units.                                  *)
LEMMA ComingKeptLate ==
  ASSUME NEW e \in Ends, NEW l, Coming(e, l),
         stage[e] = "send_body", stage'[e] = "mark", buf'[e] = buf[e], wire'[e] = wire[e],
         taken'[e] = taken[e], sent'[Peer(e)] = sent[Peer(e)]
  PROVE  Coming(e, l)'
  <1> DEFINE msg == sent[Peer(e)]
  <1>1. PICK a \in 0 .. Length(msg) : Split(e, msg, a, l)
    BY DEF Coming
  <1>2. /\ msg' = msg /\ Base(e)' = 0 /\ Base(e) = 0 /\ Reading(e)' /\ ~Reading(e)
        /\ Known(e, msg)' /\ msg \in Messages /\ Wanted(e)' = MarkLen
    BY DEF Base, Reading, Wanted, Known, Coming
  <1> HIDE DEF msg
  <1>3. a = 0 /\ l \in 0 .. Length(msg) /\ a \in 0 .. l
        /\ buf[e] = Piece(WholeOf(msg), 0, a) /\ wire[e] = Piece(WholeOf(msg), a, l)
    BY <1>1, <1>2 DEF Split
  <1>4. a <= 0 + MarkLen
    BY <1>3, HeadLengths
  <1>5. Split(e, msg, a, l)'
    BY <1>2, <1>3, <1>4 DEF Split
  <1> QED
    BY <1>2, <1>5 DEF Coming, msg

(* A head comes in whole or in part; in part, it counts as a short write.   *)
LEMMA HeadComes ==
  ASSUME NEW e \in Ends, NEW msg \in Messages, NEW p, p = Peer(e), StreamTypes,
         SendHead(e, msg), Quiet(p), stage[p] \in {"mark", "send_body"}
  PROVE  \E l \in 0 .. Length(msg) : Coming(p, l)' /\ Wrote(e, msg, l)'
  <1> DEFINE W == WholeOf(msg)
  <1>1. p \in Ends /\ p # e /\ Peer(p) = e
    BY EndsFacts DEF Peer, Ends
  <1>2. PICK k \in 0 .. HeadLen :
          /\ Stores(e, HeadOf(msg), k)
          /\ stage' = [stage EXCEPT ![e] = IF k = HeadLen THEN "send_body" ELSE "mark"]
    BY DEF SendHead, HeadLen
  <1>3. /\ Length(msg) \in Nat /\ Length(msg) = HeadLen + Len(msg.data) /\ Len(msg.data) \in Nat
        /\ W \in Seq(UnitsOf(msg)) /\ Len(W) = Length(msg) /\ Len(HeadOf(msg)) = HeadLen
        /\ Piece(W, 0, k) = SubSeq(HeadOf(msg), 1, k)
    BY WholeProperties
  <1>4. /\ sent'[e] = msg /\ buf' = buf /\ taken' = taken /\ stage'[p] = stage[p]
        /\ stage'[e] = IF k = HeadLen THEN "send_body" ELSE "mark"
    BY <1>1, <1>2 DEF SendHead, StreamTypes
  <1>5. wire'[p] = wire[p] \o SubSeq(HeadOf(msg), 1, k)
    BY <1>1, <1>2 DEF Stores, StreamTypes
  <1>6. k # HeadLen => shorts' # 0
    BY <1>2, <1>3 DEF Stores, StreamTypes
  <1> HIDE DEF W
  <1>7. /\ k \in Nat /\ k \in 0 .. Len(W) /\ 0 \in Nat /\ 0 \in 0 .. Len(W)
        /\ k \in 0 .. Length(msg) /\ 0 \in 0 .. k /\ 0 \in 0 .. Length(msg)
    BY <1>3, HeadLengths
  <1>8. Piece(W, 0, k) \in Seq(UnitsOf(msg)) /\ Piece(W, 0, 0) = <<>>
    BY <1>3, <1>7, PieceProperties, EmptyPiece
  <1>9. wire'[p] = Piece(W, 0, k)
    BY <1>3, <1>5, <1>8, ConcatEmptySeq DEF Quiet
  <1>10. Base(p)' = 0 /\ Known(p, msg)' /\ (Reading(p)' => Wanted(p)' = MarkLen)
    BY <1>4 DEF Base, Known, Reading, Wanted
  <1>11. 0 <= 0 + MarkLen
    BY HeadLengths
  <1>12. Split(p, msg, 0, k)'
    BY <1>4, <1>7, <1>8, <1>9, <1>10, <1>11 DEF Split, Quiet, W
  <1>13. Coming(p, k)'
    BY <1>1, <1>4, <1>7, <1>10, <1>12 DEF Coming
  <1>14. Wrote(e, msg, k)'
    BY <1>4, <1>6 DEF Wrote
  <1> QED
    BY <1>7, <1>13, <1>14

(* A body after its head, whole or in part.                                 *)
LEMMA BodyComes ==
  ASSUME NEW e \in Ends, NEW p, p = Peer(e), StreamTypes, NEW msg, msg = sent[e],
         SendBody(e), Coming(p, HeadLen)
  PROVE  \E l \in 0 .. Length(msg) : Coming(p, l)' /\ Wrote(e, msg, l)'
  <1> DEFINE W == WholeOf(msg)
             H == HeadLen
  <1>1. p \in Ends /\ p # e /\ Peer(p) = e
    BY EndsFacts DEF Peer, Ends
  <1>2. PICK k \in 0 .. Len(msg.data) : Stores(e, msg.data, k)
    BY DEF SendBody
  <1>3. msg \in Messages /\ Known(p, msg)
    BY <1>1 DEF Coming
  <1>4. PICK a \in 0 .. Length(msg) : Split(p, msg, a, H)
    BY <1>1 DEF Coming
  <1>5. /\ Length(msg) \in Nat /\ Length(msg) = H + Len(msg.data) /\ Len(msg.data) \in Nat
        /\ W \in Seq(UnitsOf(msg)) /\ Len(W) = Length(msg) /\ H \in Nat
        /\ Piece(W, H, H + k) = SubSeq(msg.data, 1, k)
    BY <1>3, WholeProperties, HeadLengths
  <1>6. /\ sent' = sent /\ buf' = buf /\ taken' = taken /\ stage'[p] = stage[p]
        /\ stage'[e] = "mark"
    BY <1>1, <1>2 DEF SendBody, StreamTypes
  <1>7. wire'[p] = wire[p] \o SubSeq(msg.data, 1, k)
    BY <1>1, <1>2 DEF Stores, StreamTypes
  <1>8. k # Len(msg.data) => shorts' # 0
    BY <1>2 DEF Stores, StreamTypes
  <1>9. /\ a \in Base(p) .. H /\ buf[p] = Piece(W, Base(p), a) /\ wire[p] = Piece(W, a, H)
        /\ IF Reading(p) THEN a <= Base(p) + Wanted(p) ELSE a = 0
    BY <1>4 DEF Split
  <1>10. Base(p)' = Base(p) /\ (Reading(p)' <=> Reading(p)) /\ Known(p, msg)'
         /\ (Reading(p) => Wanted(p)' = Wanted(p)) /\ Base(p) \in Nat
    BY <1>3, <1>6, HeadLengths DEF Base, Reading, Wanted, Known
  <1> HIDE DEF W, H
  <1>11. /\ a \in Nat /\ H \in a .. Len(W) /\ H + k \in H .. Len(W)
         /\ H + k \in 0 .. Length(msg) /\ a \in Base(p) .. H + k
    BY <1>5, <1>9, <1>10
  <1>12. Piece(W, a, H) \o Piece(W, H, H + k) = Piece(W, a, H + k)
    BY <1>5, <1>11, JoinPieces
  <1>13. wire'[p] = Piece(W, a, H + k)
    BY <1>5, <1>7, <1>9, <1>12
  <1>14. Split(p, msg, a, H + k)'
    BY <1>6, <1>9, <1>10, <1>11, <1>13 DEF Split, W
  <1>15. Coming(p, H + k)'
    BY <1>1, <1>3, <1>6, <1>10, <1>14 DEF Coming
  <1>16. Wrote(e, msg, H + k)'
    BY <1>5, <1>6, <1>8 DEF Wrote
  <1> QED
    BY <1>11, <1>15, <1>16

(* A body of no units changes nothing but where its writer is.              *)
LEMMA LateWrites ==
  ASSUME NEW e \in Ends, NEW p, p = Peer(e), StreamTypes, Late(e), SendBody(e)
  PROVE  /\ stage' = [stage EXCEPT ![e] = "mark"] /\ buf' = buf /\ taken' = taken
         /\ sent' = sent /\ wire'[e] = wire[e]
         /\ Quiet(p) => Quiet(p)'
  <1>1. p \in Ends /\ p # e
    BY EndsFacts
  <1>2. PICK k \in 0 .. Len(sent[e].data) : Stores(e, sent[e].data, k)
    BY DEF SendBody
  <1>3. sent[e].data = <<>> /\ k = 0
    BY <1>2 DEF Late
  <1>4. /\ wire'[p] = wire[p] \o SubSeq(<<>>, 1, 0) /\ wire'[e] = wire[e]
    BY <1>1, <1>2, <1>3 DEF Stores, StreamTypes
  <1>5. SubSeq(<<>>, 1, 0) = <<>> /\ <<>> \o <<>> = <<>>
    BY SubSeqEmpty, EmptySeq, ConcatEmptySeq
  <1> QED
    BY <1>4, <1>5 DEF SendBody, Quiet

-----------------------------------------------------------------------------
(* The steps of the two ends, phase by phase *)

(* Types are kept by sending,                                               *)
LEMMA SendTypes ==
  ASSUME StreamTypes, NEW e \in Ends,
         \/ SendBody(e)
         \/ \E msg \in Messages : SendHead(e, msg)
  PROVE  StreamTypes'
  <1>1. PICK units, k : Stores(e, units, k)
    BY DEF SendBody, SendHead
  <1>2. shorts' \in 0 .. MaxShorts /\ DOMAIN wire' = Ends /\ wire' = [x \in Ends |-> wire'[x]]
    <2>1. shorts' \in 0 .. MaxShorts
      <3>1. /\ k = Len(units) \/ shorts < MaxShorts
            /\ shorts' = IF k = Len(units) THEN shorts ELSE shorts + 1
        BY <1>1 DEF Stores
      <3>2. shorts \in 0 .. MaxShorts
        BY DEF StreamTypes
      <3> QED
        BY <3>1, <3>2, ShortsAssumption
    <2>2. DOMAIN wire' = Ends /\ wire' = [x \in Ends |-> wire'[x]]
      BY <1>1 DEF Stores, StreamTypes
    <2> QED
      BY <2>1, <2>2
  <1>3. sent' \in [Ends -> {None} \cup Messages] /\ buf' = buf /\ taken' = taken
    BY DEF SendBody, SendHead, StreamTypes
  <1>4. /\ stage' \in [Ends -> {"off", "ready", "send_body", "mark", "header", "body", "failed"}]
        /\ \A x \in Ends : stage'[x] = "send_body" => sent'[x] \in Messages
    <2>1. CASE SendBody(e)
      BY <2>1 DEF SendBody, StreamTypes, Ends
    <2>2. ASSUME NEW msg \in Messages, SendHead(e, msg)
          PROVE  <1>4!1 /\ <1>4!2
      BY <2>2 DEF SendHead, StreamTypes, Ends
    <2> QED
      BY <2>1, <2>2
  <1> QED
    BY <1>2, <1>3, <1>4, EndsFacts DEF StreamTypes

(* by receiving,                                                            *)
LEMMA ReceiveTypes ==
  ASSUME StreamTypes, NEW e \in Ends, Receive(e)
  PROVE  StreamTypes'
  <1>1. DOMAIN wire' = Ends /\ wire' = [x \in Ends |-> wire'[x]] /\ buf' = [x \in Ends |-> buf'[x]]
        /\ taken' = [x \in Ends |-> taken'[x]] /\ sent' = sent /\ shorts' = shorts
    BY DEF Receive, Read, GotMark, GotHeader, GotBody, RecvFails, Complete, StreamTypes
  <1>2. /\ stage' \in [Ends -> {"off", "ready", "send_body", "mark", "header", "body", "failed"}]
        /\ \A x \in Ends : stage'[x] = "send_body" => stage[x] = "send_body"
    BY DEF Receive, Read, GotMark, GotHeader, GotBody, RecvFails, Complete, StreamTypes
  <1> QED
    BY <1>1, <1>2, EndsFacts DEF StreamTypes

(* by making a connection                                                   *)
LEMMA OpenTypes ==
  ASSUME StreamTypes, Opened
  PROVE  StreamTypes'
  BY DEF StreamTypes, Opened, Ends

(* and by closing it.                                                       *)
LEMMA CloseTypes ==
  ASSUME StreamTypes, NEW e \in Ends, Closed(e)
  PROVE  StreamTypes'
  BY DEF StreamTypes, Closed, Ends

(* Of what changes by a step of one end: the other end's side.              *)
LEMMA SendFrame ==
  ASSUME StreamTypes, NEW e \in Ends, NEW p, p = Peer(e),
         \/ SendBody(e)
         \/ \E msg \in Messages : SendHead(e, msg)
  PROVE  /\ stage'[p] = stage[p] /\ buf' = buf /\ taken' = taken /\ sent'[p] = sent[p]
         /\ wire'[e] = wire[e] /\ stage'[e] \in {"send_body", "mark"}
         /\ SendBody(e) => sent' = sent /\ stage'[e] = "mark"
  <1>1. p \in Ends /\ p # e
    BY EndsFacts
  <1>2. PICK units, k : Stores(e, units, k)
    BY DEF SendBody, SendHead
  <1>3. wire'[e] = wire[e]
    BY <1>1, <1>2 DEF Stores, StreamTypes
  <1> QED
    BY <1>1, <1>3 DEF SendBody, SendHead, StreamTypes

(* What end e receives changes nothing at its peer.                         *)
LEMMA ReceiveFrame ==
  ASSUME StreamTypes, NEW e \in Ends, NEW p, p = Peer(e), Receive(e)
  PROVE  /\ stage'[p] = stage[p] /\ buf'[p] = buf[p] /\ taken'[p] = taken[p] /\ sent' = sent
         /\ wire'[p] = wire[p] /\ shorts' = shorts /\ Reading(e)
  <1>1. p \in Ends /\ p # e
    BY EndsFacts
  <1>2. Reading(e)
    BY DEF Receive, Read, GotMark, GotHeader, GotBody, RecvFails, Complete, Reading
  <1> QED
    BY <1>1, <1>2
       DEF Receive, Read, GotMark, GotHeader, GotBody, RecvFails, Complete, StreamTypes

(* A reader to which nothing is on its way goes on only when its peer has   *)
(* closed the connection.                                                   *)
LEMMA QuietWaits ==
  ASSUME StreamTypes, NEW e \in Ends, stage[e] = "mark" \/ ~Reading(e), Quiet(e), Receive(e)
  PROVE  stage[Peer(e)] = "off" /\ RecvFails(e) /\ stage'[e] = "failed"
  <1>1. stage[e] = "mark" /\ Wanted(e) = MarkLen /\ buf[e] = <<>> /\ wire[e] = <<>>
    BY ReceiveFrame DEF Wanted, Quiet
  <1>2. Len(buf[e]) = 0 /\ Len(wire[e]) = 0
    BY <1>1, EmptySeq
  <1>3. ~Read(e)
    BY <1>2 DEF Read
  <1>4. ~GotMark(e) /\ ~GotHeader(e) /\ ~GotBody(e)
    BY <1>1, <1>2, HeadLengths DEF GotMark, GotHeader, GotBody, Complete
  <1>5. RecvFails(e)
    BY <1>3, <1>4 DEF Receive
  <1> QED
    BY <1>5 DEF RecvFails, StreamTypes

(* While its peer keeps the connection, a reader gets further in the message *)
(* or has it.                                                               *)
LEMMA ComingReceived ==
  ASSUME StreamTypes, NEW e \in Ends, NEW l, Coming(e, l), Receive(e), ~RecvFails(e)
  PROVE  \/ Coming(e, l)' /\ Reading(e)'
         \/ /\ l = Length(sent[Peer(e)]) /\ Quiet(e)' /\ stage'[e] = "ready"
            /\ taken'[e] = sent[Peer(e)]
  <1>1. CASE Read(e)
    BY <1>1, ReadKeeps DEF Read, Reading
  <1>2. CASE GotMark(e)
    BY <1>2, MarkKeeps DEF Reading
  <1>3. CASE GotHeader(e)
    BY <1>3, HeaderKeeps DEF Reading
  <1>4. CASE GotBody(e)
    BY <1>4, BodyEnds
  <1> QED
    BY <1>1, <1>2, <1>3, <1>4 DEF Receive

-----------------------------------------------------------------------------
(* The phases are kept *)

(* The client sends a request.                                              *)
LEMMA RequestKeeps ==
  ASSUME StreamInv, NEW msg \in Messages, SendHead("client", msg)
  PROVE  StreamInv'
  <1> USE EndsFacts
  <1>1. StreamTypes /\ StreamTypes'
    BY SendTypes DEF StreamInv
  <1>2. /\ stage'["server"] = stage["server"] /\ buf' = buf /\ taken' = taken
        /\ sent'["server"] = sent["server"] /\ wire'["client"] = wire["client"]
        /\ stage'["client"] \in {"send_body", "mark"} /\ stage["client"] = "ready"
        /\ sent'["client"] = msg
    BY <1>1, SendFrame DEF SendHead, StreamTypes
  <1>3. CASE Idle
    <2>1. stage["server"] \in {"mark", "send_body"}
      BY <1>3 DEF Idle, Late
    <2>2. \E l \in 0 .. Length(msg) : Coming("server", l)' /\ Wrote("client", msg, l)'
      BY <1>1, <1>3, <2>1, HeadComes DEF Idle
    <2>3. Awaits("server")'
      BY <1>2, <1>3 DEF Idle, Awaits, Reading, Late
    <2>4. Quiet("client")'
      BY <1>2, <1>3 DEF Idle, Quiet
    <2>5. Asking'
      BY <1>2, <2>2, <2>3, <2>4 DEF Asking
    <2> QED
      BY <1>1, <1>2, <2>5 DEF StreamInv, Phases, ClientTook
  <1>4. CASE ServerGone
    <2>1. Quiet("client")
      BY <1>2, <1>4 DEF ServerGone, Hears, Awaits, Reading, Late
    <2>2. ServerGone'
      BY <1>2, <1>4, <2>1 DEF ServerGone, Quiet
    <2> QED
      BY <1>1, <1>2, <2>2 DEF StreamInv, Phases, ClientTook
  <1> QED
    BY <1>2, <1>3, <1>4
       DEF StreamInv, Phases, Asking, Asked, Late, Answering, Hears, Awaits, Reading, ClientGone

(* The server sends a response.                                             *)
LEMMA ResponseKeeps ==
  ASSUME StreamInv, NEW msg \in Messages, SendHead("server", msg),
         msg.header.id = taken["server"].header.id,
         msg.header.req_len_log = taken["server"].header.req_len_log,
         Fits'
  PROVE  StreamInv' /\ Answering'
  <1> USE EndsFacts
  <1>1. StreamTypes /\ StreamTypes'
    BY SendTypes DEF StreamInv
  <1>2. /\ stage'["client"] = stage["client"] /\ buf' = buf /\ taken' = taken
        /\ sent'["client"] = sent["client"] /\ wire'["server"] = wire["server"]
        /\ stage'["server"] \in {"send_body", "mark"} /\ stage["server"] = "ready"
        /\ sent'["server"] = msg
    BY <1>1, SendFrame DEF SendHead, StreamTypes
  <1>3. Asked
    BY <1>2 DEF StreamInv, Phases, Idle, Asking, Late, Answering, Awaits, Reading,
                ClientGone, ServerGone
  <1>4. stage["client"] \in {"mark", "send_body"}
    BY <1>3 DEF Asked, Late
  <1>5. \E l \in 0 .. Length(msg) : Coming("client", l)' /\ Wrote("server", msg, l)'
    BY <1>1, <1>3, <1>4, HeadComes DEF Asked
  <1>6. Awaits("client")'
    BY <1>2, <1>3 DEF Asked, Awaits, Reading, Late
  <1>7. Matches' /\ Quiet("server")'
    BY <1>2, <1>3 DEF Asked, Matches, Quiet
  <1>8. Answering'
    BY <1>2, <1>5, <1>6, <1>7 DEF Answering, Hears
  <1> QED
    BY <1>1, <1>2, <1>4, <1>8 DEF StreamInv, Phases, ClientTook

(* The client sends the data of its request.                                *)
LEMMA ClientBodyKeeps ==
  ASSUME StreamInv, SendBody("client"), store' = store
  PROVE  StreamInv' /\ (Answering => Answering')
  <1> USE EndsFacts
  <1>1. StreamTypes /\ StreamTypes'
    BY SendTypes DEF StreamInv
  <1>2. /\ stage'["server"] = stage["server"] /\ buf' = buf /\ taken' = taken
        /\ sent' = sent /\ wire'["client"] = wire["client"]
        /\ stage'["client"] = "mark" /\ stage["client"] = "send_body"
    BY <1>1, SendFrame DEF SendBody
  <1>3. Late("client") /\ Quiet("server") => Quiet("server")'
    BY <1>1, LateWrites
  <1>4. ASSUME NEW l, Hears(l) PROVE Late("client") /\ Hears(l)'
    <2>1. Late("client") /\ Coming("client", l)
      BY <1>2, <1>4 DEF Hears, Awaits, Reading
    <2>2. Coming("client", l)'
      BY <1>2, <2>1, ComingKeptLate
    <2> QED
      BY <1>2, <2>1, <2>2 DEF Hears, Awaits, Reading
  <1>5. Matches => Matches'
    BY <1>2 DEF Matches, Fits
  <1>6. ASSUME Answering PROVE Answering'
    <2>1. PICK l \in 0 .. Length(sent["server"]) :
            Hears(l) /\ Wrote("server", sent["server"], l)
      BY <1>6 DEF Answering
    <2>2. Late("client") /\ Hears(l)'
      BY <1>4, <2>1
    <2>3. Wrote("server", sent["server"], l)'
      <3>1. Late("client") => shorts' = shorts
        BY DEF SendBody, Stores, Late
      <3> QED
        BY <1>2, <2>1, <2>2, <3>1 DEF Wrote
    <2>4. Quiet("server")'
      BY <1>3, <1>6, <2>2 DEF Answering
    <2> QED
      BY <1>2, <1>5, <1>6, <2>2, <2>3, <2>4 DEF Answering
  <1> SUFFICES StreamInv'
    BY <1>6
  <1>7. CASE Asking
    <2>1. PICK l \in 0 .. Length(sent["client"]) :
            Coming("server", l) /\ Wrote("client", sent["client"], l)
      BY <1>7 DEF Asking
    <2>2. Coming("server", HeadLen)
      BY <1>2, <2>1 DEF Wrote
    <2>3. \E m \in 0 .. Length(sent["client"]) :
            Coming("server", m)' /\ Wrote("client", sent["client"], m)'
      <3>1. ASSUME NEW msg, msg = sent["client"]
            PROVE  \E m \in 0 .. Length(msg) : Coming("server", m)' /\ Wrote("client", msg, m)'
        BY <1>1, <2>2, <3>1, BodyComes
      <3> QED
        BY <1>2, <3>1 DEF Wrote
    <2>4. Awaits("server")' /\ Quiet("client")'
      BY <1>2, <1>7 DEF Asking, Awaits, Reading, Late, Quiet
    <2>5. Asking'
      BY <1>2, <1>7, <2>3, <2>4 DEF Asking
    <2> QED
      BY <1>1, <1>2, <2>5 DEF StreamInv, Phases, ClientTook
  <1>8. CASE Asked
    <2>1. Late("client") /\ Quiet("server")
      BY <1>2, <1>8 DEF Asked
    <2>2. Asked'
      BY <1>2, <1>3, <1>8, <2>1 DEF Asked, Quiet
    <2> QED
      BY <1>1, <1>2, <2>2 DEF StreamInv, Phases, ClientTook
  <1>9. CASE ServerGone
    <2>1. ServerGone'
      BY <1>2, <1>4, <1>5, <1>9 DEF ServerGone, Quiet
    <2> QED
      BY <1>1, <1>2, <2>1 DEF StreamInv, Phases, ClientTook
  <1>10. CASE Answering
    BY <1>1, <1>2, <1>6, <1>10 DEF StreamInv, Phases, ClientTook
  <1> QED
    BY <1>2, <1>7, <1>8, <1>9, <1>10 DEF StreamInv, Phases, Idle, ClientGone

(* The server sends the data of its response.                               *)
LEMMA ServerBodyKeeps ==
  ASSUME StreamInv, SendBody("server"), store' = store
  PROVE  StreamInv' /\ (Answering => Answering')
  <1> USE EndsFacts
  <1>1. StreamTypes /\ StreamTypes'
    BY SendTypes DEF StreamInv
  <1>2. /\ stage'["client"] = stage["client"] /\ buf' = buf /\ taken' = taken
        /\ sent' = sent /\ wire'["server"] = wire["server"]
        /\ stage'["server"] = "mark" /\ stage["server"] = "send_body"
    BY <1>1, SendFrame DEF SendBody
  <1>3. Late("server") => /\ shorts' = shorts
                          /\ Quiet("client") => Quiet("client")'
    <2>1. Late("server") /\ Quiet("client") => Quiet("client")'
      BY <1>1, LateWrites
    <2>2. Late("server") => shorts' = shorts
      BY DEF SendBody, Stores, Late
    <2> QED
      BY <2>1, <2>2
  <1>4. ClientTook'
    BY <1>2 DEF StreamInv, ClientTook, Matches, Fits
  <1>5. ASSUME Answering PROVE Answering'
    <2>1. PICK l \in 0 .. Length(sent["server"]) :
            Hears(l) /\ Wrote("server", sent["server"], l)
      BY <1>5 DEF Answering
    <2>2. Coming("client", HeadLen)
      BY <1>2, <2>1 DEF Wrote, Hears
    <2>3. \E m \in 0 .. Length(sent["server"]) :
            Coming("client", m)' /\ Wrote("server", sent["server"], m)'
      <3>1. ASSUME NEW msg, msg = sent["server"]
            PROVE  \E m \in 0 .. Length(msg) : Coming("client", m)' /\ Wrote("server", msg, m)'
        BY <1>1, <2>2, <3>1, BodyComes
      <3> QED
        BY <1>2, <3>1 DEF Wrote
    <2>4. Awaits("client")'
      BY <1>2, <2>1 DEF Hears, Awaits, Reading, Late
    <2> QED
      BY <1>2, <1>5, <2>3, <2>4 DEF Answering, Hears, Matches, Fits, Quiet
  <1> SUFFICES StreamInv'
    BY <1>5
  <1>6. CASE Idle
    <2>1. Late("server")
      BY <1>2, <1>6 DEF Idle
    <2>2. Idle'
      BY <1>2, <1>3, <1>6, <2>1 DEF Idle, Quiet
    <2> QED
      BY <1>1, <1>4, <2>2 DEF StreamInv, Phases
  <1>7. CASE Asking
    <2>1. Late("server") /\ Quiet("client") /\ Quiet("client")'
      BY <1>2, <1>3, <1>7 DEF Asking, Awaits, Reading
    <2>2. PICK l \in 0 .. Length(sent["client"]) :
            Coming("server", l) /\ Wrote("client", sent["client"], l)
      BY <1>7 DEF Asking
    <2>3. Coming("server", l)'
      BY <1>2, <2>2, ComingKeptLate
    <2>4. Wrote("client", sent["client"], l)'
      BY <1>2, <1>3, <2>1, <2>2 DEF Wrote
    <2>5. Asking'
      BY <1>2, <1>7, <2>1, <2>3, <2>4 DEF Asking, Awaits, Reading
    <2> QED
      BY <1>1, <1>4, <2>5 DEF StreamInv, Phases
  <1>8. CASE ClientGone
    <2>1. Late("server") /\ Quiet("server")
      BY <1>2, <1>8 DEF ClientGone, Reading
    <2>2. ClientGone'
      BY <1>2, <1>8, <2>1 DEF ClientGone, Quiet
    <2> QED
      BY <1>1, <1>4, <2>2 DEF StreamInv, Phases
  <1>9. CASE Answering
    BY <1>1, <1>4, <1>5, <1>9 DEF StreamInv, Phases
  <1> QED
    BY <1>2, <1>6, <1>7, <1>8, <1>9 DEF StreamInv, Phases, Asked, ServerGone

(* A message as long as its head has no data.                               *)
LEMMA OnlyHead ==
  ASSUME NEW msg \in Messages, Length(msg) = HeadLen
  PROVE  msg.data = <<>>
  <1>1. /\ Len(msg.data) \in Nat /\ msg.data \in Seq(Units)
        /\ Length(msg) = HeadLen + Len(msg.data)
    BY WholeProperties DEF Messages
  <1> DEFINE d == Len(msg.data)
  <1>2. d = 0
    <2> SUFFICES ASSUME NEW h, h = HeadLen, NEW k, k = d  PROVE k = 0
      OBVIOUS
    <2>1. h \in Nat /\ k \in Nat /\ h = h + k
      BY <1>1, HeadLengths
    <2> QED
      BY <2>1
  <1> QED
    BY <1>1, <1>2, EmptySeq

(* The client receives.                                                     *)
LEMMA ClientReceives ==
  ASSUME StreamInv, Receive("client"), store' = store
  PROVE  /\ StreamInv'
         /\ stage'["client"] = "ready" => Matches' /\ taken'["client"] = sent'["server"]
         /\ Answering => Answering' \/ stage'["client"] = "ready"
  <1> USE EndsFacts
  <1>1. StreamTypes /\ StreamTypes'
    BY ReceiveTypes DEF StreamInv
  <1>2. /\ stage'["server"] = stage["server"] /\ buf'["server"] = buf["server"]
        /\ taken'["server"] = taken["server"] /\ sent' = sent
        /\ wire'["server"] = wire["server"] /\ shorts' = shorts /\ Reading("client")
    BY <1>1, ReceiveFrame
  <1>3. stage["client"] \notin {"off", "ready", "send_body", "failed"}
    BY <1>2 DEF Reading
  <1>4. ASSUME Quiet("client"), stage["client"] = "mark"
        PROVE  StreamInv' /\ stage'["client"] # "ready" /\ ~Answering
    <2>2. stage["server"] = "off" /\ stage'["client"] = "failed"
      BY <1>1, <1>4, QuietWaits
    <2>3. ClientGone'
      BY <1>2, <2>2 DEF ClientGone
    <2> QED
      BY <1>1, <2>2, <2>3 DEF StreamInv, Phases, ClientTook, Answering
  <1>5. ASSUME NEW l, Hears(l), Matches, ~RecvFails("client")
        PROVE  /\ \/ Hears(l)' /\ stage'["client"] # "ready"
                  \/ l = Length(sent["server"]) /\ Quiet("client")' /\ stage'["client"] = "ready"
                     /\ taken'["client"] = sent'["server"]
               /\ ClientTook' /\ Matches'
    <2>1. Coming("client", l)
      BY <1>5 DEF Hears
    <2>2. \/ Coming("client", l)' /\ Reading("client")'
          \/ /\ l = Length(sent["server"]) /\ Quiet("client")' /\ stage'["client"] = "ready"
             /\ taken'["client"] = sent["server"]
      BY <1>1, <1>5, <2>1, ComingReceived
    <2>3. Matches'
      BY <1>2, <1>5 DEF Matches, Fits
    <2> QED
      BY <1>2, <2>2, <2>3 DEF Hears, Awaits, Reading, ClientTook
  <1>6. CASE Answering
    <2>1. PICK l \in 0 .. Length(sent["server"]) :
            Hears(l) /\ Wrote("server", sent["server"], l)
      BY <1>6 DEF Answering
    <2>2. ~RecvFails("client") /\ Matches
      BY <1>6 DEF RecvFails, Answering
    <2>3. CASE Hears(l)' /\ stage'["client"] # "ready"
      <3>1. Answering'
        BY <1>2, <1>5, <1>6, <2>1, <2>2, <2>3 DEF Answering, Quiet, Wrote
      <3> QED
        BY <1>1, <1>5, <2>1, <2>2, <2>3, <3>1 DEF StreamInv, Phases
    <2>4. CASE /\ l = Length(sent["server"]) /\ Quiet("client")' /\ stage'["client"] = "ready"
               /\ taken'["client"] = sent'["server"]
      <3>1. stage["server"] = "mark" \/ Late("server")
        <4>1. CASE stage["server"] = "send_body"
          <5>1. sent["server"] \in Messages /\ l = HeadLen
            BY <2>1, <2>2, <4>1 DEF Matches, Wrote
          <5>2. sent["server"].data = <<>>
            BY <2>4, <5>1, OnlyHead
          <5> QED
            BY <4>1, <5>1, <5>2 DEF Late
        <4> QED
          BY <1>6, <4>1 DEF Answering
      <3>2. Idle'
        BY <1>2, <1>6, <2>4, <3>1 DEF Idle, Late, Quiet, Answering
      <3> QED
        BY <1>1, <1>5, <2>1, <2>2, <2>4, <3>2 DEF StreamInv, Phases
    <2> QED
      BY <1>5, <2>1, <2>2, <2>3, <2>4
  <1>7. CASE ServerGone /\ Matches /\ \E l \in 0 .. Length(sent["server"]) : Hears(l)
    <2>1. PICK l \in 0 .. Length(sent["server"]) : Hears(l)
      BY <1>7
    <2>2. CASE RecvFails("client")
      <3>1. stage'["client"] = "failed" /\ stage["server"] = "off"
        BY <1>1, <1>7, <2>2 DEF RecvFails, ServerGone, StreamTypes
      <3> QED
        BY <1>1, <1>2, <3>1 DEF StreamInv, Phases, ClientTook, ClientGone, Answering
    <2>3. CASE ~RecvFails("client")
      <3>1. ServerGone'
        BY <1>2, <1>5, <1>7, <2>1, <2>3 DEF ServerGone
      <3> QED
        BY <1>1, <1>5, <1>7, <2>1, <2>3, <3>1
           DEF StreamInv, Phases, ServerGone, Answering
    <2> QED
      BY <2>2, <2>3
  <1>8. ~Idle /\ ~ClientGone
    BY <1>3 DEF Idle, ClientGone
  <1>9. ServerGone => \/ Quiet("client") /\ stage["client"] = "mark"
                      \/ Matches /\ \E l \in 0 .. Length(sent["server"]) : Hears(l)
    BY <1>3 DEF ServerGone
  <1>10. CASE ServerGone
    BY <1>4, <1>7, <1>9, <1>10
  <1>11. Asking \/ Asked => Quiet("client") /\ stage["client"] = "mark"
    BY <1>3 DEF Asking, Asked, Late
  <1> QED
    BY <1>4, <1>6, <1>8, <1>10, <1>11 DEF StreamInv, Phases

(* The server receives.                                                     *)
LEMMA ServerReceives ==
  ASSUME StreamInv, Receive("server"), store' = store
  PROVE  StreamInv' /\ ~Answering
  <1> USE EndsFacts
  <1>1. StreamTypes /\ StreamTypes'
    BY ReceiveTypes DEF StreamInv
  <1>2. /\ stage'["client"] = stage["client"] /\ buf'["client"] = buf["client"]
        /\ taken'["client"] = taken["client"] /\ sent' = sent
        /\ wire'["client"] = wire["client"] /\ shorts' = shorts /\ Reading("server")
    BY <1>1, ReceiveFrame
  <1>3. stage["server"] \notin {"off", "ready", "send_body", "failed"}
    BY <1>2 DEF Reading
  <1>4. ClientTook'
    BY <1>2 DEF StreamInv, ClientTook, Matches, Fits
  <1>5. ASSUME stage["client"] # "off"
        PROVE  ~Idle /\ ~Answering /\ ~RecvFails("server")
    <2>1. ~RecvFails("server")
      BY <1>5 DEF RecvFails
    <2>2. Idle \/ Answering => stage["server"] = "mark" /\ Quiet("server")
      BY <1>3 DEF Idle, Answering, Late
    <2> QED
      BY <1>1, <1>5, <2>1, <2>2, QuietWaits
  <1>6. ~Answering
    BY <1>5 DEF Answering, Hears, Awaits, Reading, Late
  <1> SUFFICES StreamInv'
    BY <1>6
  <1>7. CASE Asking
    <2>1. PICK l \in 0 .. Length(sent["client"]) :
            Coming("server", l) /\ Wrote("client", sent["client"], l)
      BY <1>7 DEF Asking
    <2>2. stage["client"] # "off" /\ ~RecvFails("server")
      BY <1>5, <1>7 DEF Asking
    <2>3. CASE Coming("server", l)' /\ Reading("server")'
      <3>1. Asking'
        BY <1>2, <1>7, <2>1, <2>3 DEF Asking, Awaits, Wrote, Quiet
      <3> QED
        BY <1>1, <1>4, <3>1 DEF StreamInv, Phases
    <2>4. CASE /\ l = Length(sent["client"]) /\ Quiet("server")' /\ stage'["server"] = "ready"
               /\ taken'["server"] = sent["client"]
      <3>1. sent["client"] \in Messages
        BY <1>7 DEF Asking
      <3>2. stage["client"] = "mark" \/ Late("client")
        <4>1. CASE stage["client"] = "send_body"
          <5>1. l = HeadLen
            BY <2>1, <4>1 DEF Wrote
          <5>2. sent["client"].data = <<>>
            BY <2>4, <3>1, <5>1, OnlyHead
          <5> QED
            BY <3>1, <4>1, <5>2 DEF Late
        <4> QED
          BY <1>7, <4>1 DEF Asking
      <3>3. Asked'
        BY <1>2, <1>7, <2>4, <3>1, <3>2 DEF Asked, Asking, Late, Quiet
      <3> QED
        BY <1>1, <1>4, <3>3 DEF StreamInv, Phases
    <2> QED
      BY <1>1, <2>1, <2>2, <2>3, <2>4, ComingReceived
  <1>8. CASE ClientGone
    <2>1. RecvFails("server")
      <3>1. CASE stage["server"] = "mark" /\ Quiet("server")
        BY <1>1, <3>1, QuietWaits
      <3>2. CASE wire["server"] = <<>> /\ Len(buf["server"]) < Wanted("server")
                 /\ \E l \in 0 .. Length(sent["client"]) : Coming("server", l)
        <4>1. PICK l \in 0 .. Length(sent["client"]) : Coming("server", l)
          BY <3>2
        <4>2. Len(buf["server"]) # Wanted("server")
          <5>1. Wanted("server") \in Nat
            BY <1>2, <4>1, ComingFacts
          <5>2. \E a \in 0 .. Length(sent["client"]) :
                  a \in Base("server") .. l /\ Len(buf["server"]) = a - Base("server")
            BY <1>2, <4>1, ComingFacts
          <5>3. Base("server") \in Nat
            BY <1>2, <4>1, ComingFacts
          <5>4. Len(buf["server"]) \in Int
            BY <5>2, <5>3
          <5> QED
            BY <3>2, <5>1, <5>4
        <4>3. ~GotMark("server") /\ ~GotHeader("server") /\ ~GotBody("server")
          BY <4>2 DEF GotMark, GotHeader, GotBody, Complete
        <4>4. ~Read("server")
          <5>1. Len(wire["server"]) = 0
            BY <3>2, EmptySeq
          <5> QED
            BY <5>1 DEF Read
        <4> QED
          BY <4>3, <4>4 DEF Receive
      <3> QED
        BY <1>3, <1>8, <3>1, <3>2 DEF ClientGone, Late
    <2>2. stage'["server"] = "failed"
      BY <1>1, <2>1 DEF RecvFails, StreamTypes
    <2>3. ClientGone'
      BY <1>2, <1>8, <2>2 DEF ClientGone
    <2> QED
      BY <1>1, <1>4, <2>3 DEF StreamInv, Phases
  <1>9. ~Asked /\ ~ServerGone
    BY <1>3 DEF Asked, ServerGone
  <1>10. ~Idle
    BY <1>5 DEF Idle
  <1> QED
    BY <1>6, <1>7, <1>8, <1>9, <1>10 DEF StreamInv, Phases

(* A connection is made.                                                    *)
LEMMA OpenKeeps ==
  ASSUME StreamInv, Opened
  PROVE  StreamInv'
  <1>1. StreamTypes'
    BY OpenTypes DEF StreamInv
  <1>2. Idle' /\ ClientTook'
    BY DEF Opened, Idle, Quiet, ClientTook, Ends
  <1> QED
    BY <1>1, <1>2 DEF StreamInv, Phases

(* The client closes its end, between two requests or because it will get   *)
(* no answer.                                                               *)
LEMMA ClientCloses ==
  ASSUME StreamInv, Closed("client"),
         stage["client"] \in {"ready", "failed"} \/ BothWait
  PROVE  StreamInv'
  <1> USE EndsFacts
  <1>1. StreamTypes /\ StreamTypes'
    BY CloseTypes DEF StreamInv
  <1>2. /\ stage'["client"] = "off" /\ stage'["server"] = stage["server"]
        /\ buf' = buf /\ wire' = wire /\ taken' = taken /\ sent' = sent
    BY <1>1 DEF Closed, StreamTypes
  <1>3. ClientGone'
    <2>1. CASE Idle
      BY <1>2, <2>1 DEF Idle, ClientGone, Quiet, Late
    <2>2. CASE Asking
      <3>1. BothWait
        BY <2>2 DEF Asking
      <3>2. /\ Reading("server") /\ wire["server"] = <<>> /\ sent["client"] \in Messages
            /\ Len(buf["server"]) < Wanted("server")
        BY <2>2, <3>1 DEF BothWait, Asking
      <3>3. PICK l \in 0 .. Length(sent["client"]) : Coming("server", l)
        BY <2>2 DEF Asking
      <3>4. Coming("server", l)'
        BY <1>2, <3>3, ComingKept
      <3>5. Reading("server")' /\ Wanted("server")' = Wanted("server")
        BY <1>2, <3>2 DEF Reading, Wanted
      <3> QED
        BY <1>2, <3>2, <3>4, <3>5 DEF ClientGone
    <2>3. CASE Asked
      BY <2>3 DEF Asked, BothWait, Reading, Late
    <2>4. CASE Answering
      <3>1. BothWait
        BY <2>4 DEF Answering, Hears, Awaits, Reading, Late
      <3> QED
        BY <1>2, <2>4, <3>1 DEF Answering, BothWait, Reading, ClientGone, Quiet
    <2>5. CASE ClientGone
      <3>1. CASE stage["server"] \in {"off", "failed"}
        BY <1>2, <3>1 DEF ClientGone
      <3>3. CASE Quiet("server") /\ (stage["server"] = "mark" \/ Late("server"))
        BY <1>2, <3>3 DEF ClientGone, Quiet, Late
      <3>2. CASE /\ Reading("server") /\ wire["server"] = <<>>
                 /\ Len(buf["server"]) < Wanted("server")
                 /\ sent["client"] \in Messages
                 /\ \E l \in 0 .. Length(sent["client"]) : Coming("server", l)
        <4>1. PICK l \in 0 .. Length(sent["client"]) : Coming("server", l)
          BY <3>2
        <4>2. Coming("server", l)'
          BY <1>2, <4>1, ComingKept
        <4>3. Reading("server")' /\ Wanted("server")' = Wanted("server")
          BY <1>2, <3>2 DEF Reading, Wanted
        <4> QED
          BY <1>2, <3>2, <4>2, <4>3 DEF ClientGone
      <3> QED
        BY <2>5, <3>1, <3>2, <3>3 DEF ClientGone
    <2>6. CASE ServerGone
      BY <1>2, <2>6 DEF ServerGone, ClientGone
    <2> QED
      BY <2>1, <2>2, <2>3, <2>4, <2>5, <2>6 DEF StreamInv, Phases
  <1> QED
    BY <1>1, <1>2, <1>3 DEF StreamInv, Phases, ClientTook

(* The server closes its end, between two requests or because there is none. *)
LEMMA ServerClosesKeeps ==
  ASSUME StreamInv, Closed("server"), store' = store,
         stage["server"] \in {"failed", "mark"}
  PROVE  StreamInv'
  <1> USE EndsFacts
  <1>1. StreamTypes /\ StreamTypes'
    BY CloseTypes DEF StreamInv
  <1>2. /\ stage'["server"] = "off" /\ stage'["client"] = stage["client"]
        /\ buf' = buf /\ wire' = wire /\ taken' = taken /\ sent' = sent
    BY <1>1 DEF Closed, StreamTypes
  <1>3. ClientTook'
    BY <1>2 DEF StreamInv, ClientTook, Matches, Fits
  <1>4. CASE Idle
    BY <1>1, <1>2, <1>3, <1>4 DEF Idle, ServerGone, Quiet, StreamInv, Phases
  <1>5. CASE Asking
    BY <1>1, <1>2, <1>3, <1>5 DEF Asking, ServerGone, Quiet, StreamInv, Phases
  <1>6. CASE Answering
    <2>1. PICK l \in 0 .. Length(sent["server"]) : Hears(l)
      BY <1>6 DEF Answering
    <2>2. Coming("client", l)'
      BY <1>2, <2>1, ComingKept DEF Hears
    <2>3. Hears(l)' /\ Matches'
      BY <1>2, <1>6, <2>1, <2>2
         DEF Hears, Awaits, Reading, Late, Answering, Matches, Fits
    <2> QED
      BY <1>1, <1>2, <1>3, <2>3 DEF ServerGone, StreamInv, Phases
  <1>7. CASE ClientGone
    BY <1>1, <1>2, <1>3, <1>7 DEF ClientGone, StreamInv, Phases
  <1> QED
    BY <1>4, <1>5, <1>6, <1>7 DEF StreamInv, Phases, Asked, ServerGone

-----------------------------------------------------------------------------
(* Command lines and what is made of them *)

(* parse_args stays within its arguments.                                   *)
LEMMA ParseKeeps ==
  ASSUME LineTypes, ParseStep
  PROVE  LineTypes' /\ argv' = argv
  <1>1. argc \in Nat /\ argc = Len(argv)
    BY DEF LineTypes, argc
  <1>2. \A n \in 0 .. argc - 1 : Arg(n) \in DOMAIN Chars
    <2> SUFFICES ASSUME NEW n \in 0 .. argc - 1 PROVE argv[n + 1] \in DOMAIN Chars
      BY DEF Arg
    <2>1. n + 1 \in 1 .. Len(argv)
      BY <1>1
    <2> QED
      BY <2>1, ElementOfSeq DEF LineTypes
  <1>3. argv' = argv /\ argc' = argc
    BY DEF ParseStep, ParseFixed, ParseCount, ParseFlag, ParseCommand, ParseConfig,
           ParseEnd, ParseExits, argc
  <1>4. CASE ParseExits
    BY <1>3, <1>4 DEF ParseExits, LineTypes
  <1>5. CASE ParseFixed /\ ~ParseExits
    <2>1. argc >= 4 /\ parse' = "options" /\ next_arg' = 3 /\ args' = args
      BY <1>1, <1>5 DEF ParseFixed
    <2> QED
      BY <1>1, <1>3, <2>1 DEF LineTypes
  <1>6. CASE ParseCount /\ ~ParseExits
    <2>1. /\ parse = "options" /\ next_arg + 1 < argc /\ parse' = parse
          /\ next_arg' = next_arg + 2
          /\ args' = Counted(Arg(next_arg), Atoi(Arg(next_arg + 1)))
      BY <1>1, <1>6 DEF ParseCount, LineTypes
    <2>2. Atoi(Arg(next_arg + 1)) \in Nat
      BY NumberAssumption DEF Atoi
    <2>3. args' \in ArgsTypes
      BY <2>1, <2>2 DEF Counted, ArgsTypes, LineTypes
    <2> QED
      BY <1>1, <1>3, <2>1, <2>3 DEF LineTypes
  <1>7. CASE ParseFlag
    BY <1>1, <1>3, <1>7 DEF ParseFlag, LineTypes
  <1>8. CASE ParseCommand /\ ~ParseExits
    <2>1. /\ parse = "options" /\ next_arg < argc /\ Arg(next_arg) \in Commands
          /\ args' = [args EXCEPT !.command = Arg(next_arg)] /\ next_arg' = next_arg + 1
          /\ parse' = "configs"
      BY <1>1, <1>8 DEF ParseCommand, LineTypes
    <2>2. args' \in ArgsTypes /\ args'.command \in Commands
      BY <2>1 DEF ArgsTypes, LineTypes
    <2> QED
      BY <1>1, <1>3, <2>1, <2>2 DEF LineTypes
  <1>9. CASE ParseConfig /\ ~ParseExits
    <2> DEFINE plus == next_arg + 2 < argc /\ Arg(next_arg + 2) = "+"
               n    == next_arg + IF plus THEN 3 ELSE 2
               pad  == n < argc /\ Arg(n) \notin Dashed
    <2>1. /\ parse = "configs" /\ next_arg + 1 < argc /\ next_arg >= 4 /\ next_arg \in Nat
          /\ args' = Based(Arg(next_arg), Arg(next_arg + 1))
          /\ next_arg' = IF pad THEN n + 1 ELSE n
          /\ parse' \in {parse, "crashed"}
      BY <1>1, <1>9 DEF ParseConfig, LineTypes
    <2>2. n \in 6 .. argc /\ (pad => n + 1 \in 7 .. argc)
      BY <1>1, <2>1
    <2>3. Arg(next_arg + 1) \in DOMAIN Chars
      BY <1>1, <1>2, <2>1
    <2>4. args' \in ArgsTypes /\ args'.command = args.command
      BY <2>1, <2>3 DEF Based, ArgsTypes, LineTypes
    <2> HIDE DEF plus, n, pad
    <2>5. next_arg' \in 0 .. argc /\ next_arg' >= 4
      BY <1>1, <2>1, <2>2
    <2> QED
      BY <1>3, <2>1, <2>4, <2>5 DEF LineTypes
  <1>10. CASE ParseEnd /\ ~ParseExits
    BY <1>3, <1>10 DEF ParseEnd, LineTypes
  <1> QED
    BY <1>3, <1>4, <1>5, <1>6, <1>7, <1>8, <1>9, <1>10 DEF ParseStep

(* It crashes for a padded length with less than three arguments behind it. *)
LEMMA ParseCrashes ==
  ASSUME LineTypes, ParseStep, parse # "crashed", parse' = "crashed"
  PROVE  \E n \in 6 .. argc - 1 :
           /\ n + 3 >= argc /\ Arg(n) \notin Dashed
           /\ \/ Arg(n - 2) \in {"-key", "-value"}
              \/ Arg(n - 3) \in {"-key", "-value"} /\ Arg(n - 1) = "+"
  <1>1. ParseConfig /\ ~ParseExits
    BY DEF ParseStep, ParseFixed, ParseCount, ParseFlag, ParseCommand, ParseEnd,
           ParseExits, ParseConfig
  <1>2. argc \in Nat /\ next_arg \in Nat /\ next_arg >= 4
    BY <1>1 DEF LineTypes, argc, ParseConfig
  <1> DEFINE plus == next_arg + 2 < argc /\ Arg(next_arg + 2) = "+"
             n    == next_arg + IF plus THEN 3 ELSE 2
  <1>3. /\ Arg(next_arg) \in {"-key", "-value"}
        /\ n < argc /\ Arg(n) \notin Dashed /\ n + 3 >= argc
    BY <1>1, <1>2 DEF ParseConfig, StrtolMayCrash
  <1>4. n \in 6 .. argc - 1
    BY <1>2, <1>3
  <1>5. CASE plus
    <2>1. n - 3 = next_arg /\ n - 1 = next_arg + 2
      BY <1>2, <1>5
    <2> QED
      BY <1>3, <1>4, <1>5, <2>1
  <1>6. CASE ~plus
    <2>1. n - 2 = next_arg
      BY <1>2, <1>6
    <2> QED
      BY <1>3, <1>4, <2>1
  <1> QED
    BY <1>5, <1>6

(* A string is made of units.                                               *)
LEMMA StringTypes ==
  ASSUME NEW base \in {NoBase} \cup DOMAIN Chars
  PROVE  gen_str(base) \in Seq(Units)
  BY CharsAssumption DEF gen_str

(* What Make makes is a body with two numbers, unless the value is too long. *)
LEMMA MakeTypes ==
  ASSUME NEW key \in Seq(Units), NEW value \in Seq(Units),
         NEW body, body = Make(key, value)
  PROVE  \/ body \in Seq(Units) /\ HoldsLengths(body)
         \/ body = NULL /\ Len(value) > MaxValue
  <1>1. KeyLenOf(key) \in 0 .. Len(key) /\ ValueLenOf(value) \in 0 .. Len(value)
    BY LengthsInside
  <1>2. /\ KeyLenOf(key) \in Nat /\ ValueLenOf(value) \in Nat
        /\ ValueLenOf(value) <= Len(value) /\ MaxValue \in Nat /\ Len(value) \in Nat
    BY <1>1, MaxValueAssumption
  <1>3. CASE ValueLenOf(value) > MaxValue
    BY <1>2, <1>3 DEF Make
  <1>4. CASE ~(ValueLenOf(value) > MaxValue)
    <2> DEFINE h == RequestHeader(KeyLenOf(key), ValueLenOf(value))
               k == SubSeq(key, 1, KeyLenOf(key))
               v == SubSeq(value, 1, ValueLenOf(value))
    <2>1. body = h \o k \o v
      BY <1>4 DEF Make
    <2>2. /\ h \in Seq(Units) /\ Len(h) = HdrLen
          /\ h[1] = Num(KeyLenOf(key)) /\ h[HdrLen] = Num(ValueLenOf(value))
      BY <1>2, HeaderProperties
    <2>3. k \in Seq(Units) /\ v \in Seq(Units)
      <3>1. ASSUME NEW s \in Seq(Units), NEW n \in 0 .. Len(s)
            PROVE  SubSeq(s, 1, n) \in Seq(Units)
        <4>1. \A i \in 1 .. n : s[i] \in Units
          BY ElementOfSeq, LenProperties
        <4> QED
          BY <4>1, SubSeqProperties
      <3> QED
        BY <1>1, <3>1
    <2> HIDE DEF h, k, v
    <2>4. body \in Seq(Units) /\ \A n \in 1 .. Len(h) : body[n] = h[n]
      BY <2>1, <2>2, <2>3, ThreeParts
    <2>5. HdrLen \in Nat /\ 1 \in 1 .. HdrLen /\ HdrLen \in 1 .. HdrLen
      BY HdrLenAssumption
    <2>6. body[1] = Num(KeyLenOf(key)) /\ body[HdrLen] = Num(ValueLenOf(value))
      BY <2>2, <2>4, <2>5
    <2> QED
      BY <1>2, <2>4, <2>6 DEF HoldsLengths, Num
  <1> QED
    BY <1>3, <1>4

(* The body of a request.                                                   *)
LEMMA BodyTypes ==
  ASSUME LineTypes, PathTypes, args.command \in Commands,
         NEW body, body = BodyOf(args.command)
  PROVE  /\ body # NULL => /\ body \in Seq(Units)
                           /\ args.command = "write" => HoldsLengths(body)
         /\ body = NULL => args.command = "write" /\ Len(gen_str(args.value)) > MaxValue
  <1>1. gen_str(args.key) \in Seq(Units) /\ gen_str(args.value) \in Seq(Units)
    BY StringTypes DEF LineTypes, ArgsTypes
  <1>2. NULL \notin Seq(Units)
    BY NullAssumption
  <1>3. CASE work[turn].body # Made
    <2>1. body = work[turn].body
      BY <1>3 DEF BodyOf
    <2>2. /\ work \in Seq([argv : Seq(DOMAIN Chars), body : {Made} \cup Seq(Units)])
          /\ turn \in 1 .. Len(work)
      BY WorksAssumption DEF PathTypes
    <2>3. work[turn] \in [argv : Seq(DOMAIN Chars), body : {Made} \cup Seq(Units)]
          /\ turn \in DOMAIN work
      BY <2>2, ElementOfSeq, LenProperties
    <2>4. HoldsLengths(body)
      BY <1>3, <2>1, <2>3, WorksAssumption DEF PathTypes
    <2> QED
      BY <1>2, <1>3, <2>1, <2>3, <2>4
  <1>4. CASE work[turn].body = Made /\ args.command = "write"
    <2>1. body = Make(gen_str(args.key), gen_str(args.value))
      BY <1>4 DEF BodyOf
    <2> QED
      BY <1>1, <1>2, <1>4, <2>1, MakeTypes
  <1>5. CASE work[turn].body = Made /\ args.command # "write"
    <2>1. body \in {gen_str(args.key), gen_str(args.value), <<>>}
      BY <1>5 DEF BodyOf, Commands
    <2> QED
      BY <1>1, <1>2, <1>5, <2>1, EmptySeq
  <1> QED
    BY <1>3, <1>4, <1>5

(* A request is a message.                                                  *)
LEMMA RequestTypes ==
  ASSUME NEW id \in Nat, NEW method \in Commands, NEW data \in Seq(Units),
         method = "write" => HoldsLengths(data), NEW msg, msg = Request(id, method, data)
  PROVE  msg \in Messages
  BY DEF Request, Messages, Headers, Logs

(* The answer to a request is a message.                                    *)
LEMMA ResponseTypes ==
  ASSUME NEW request \in Messages, NEW status \in {"Ok", "BadArg", "NotFound"},
         NEW data \in Seq(Units), request.header.method = "write" => data = <<>>,
         NEW msg, msg = Response(request, status, data)
  PROVE  /\ msg \in Messages /\ msg.header.id = request.header.id
         /\ msg.header.req_len_log = request.header.req_len_log
  <1>1. ASSUME NEW h \in Headers, NEW log \in Logs,
               NEW g, g = [h EXCEPT !.type = "Response", !.status = status, !.res_len_log = log]
        PROVE  /\ g \in Headers /\ g.id = h.id /\ g.method = h.method
               /\ g.req_len_log = h.req_len_log
    BY <1>1 DEF Headers
  <1>2. PICK h \in Headers, log \in Logs : h = request.header /\ log = LengthLog(data)
    BY DEF Messages, Logs
  <1>3. PICK g : g = [h EXCEPT !.type = "Response", !.status = status, !.res_len_log = log]
    OBVIOUS
  <1>4. /\ g \in Headers /\ g.id = h.id /\ g.method = h.method
        /\ g.req_len_log = h.req_len_log
    BY <1>1, <1>3
  <1>5. msg = [header |-> g, data |-> data]
    BY <1>2, <1>3 DEF Response
  <1>6. HoldsLengths(<<>>)
    BY EmptySeq, HdrLenAssumption DEF HoldsLengths
  <1> QED
    BY <1>2, <1>4, <1>5, <1>6 DEF Messages

(* The lengths read in a body are numbers.                                  *)
LEMMA LensTypes ==
  ASSUME NEW body \in Seq(Units), HoldsLengths(body)
  PROVE  KeyLens(body) \subseteq Nat /\ ValueLens(body) \subseteq Nat
  <1>1. 0 .. KeyMod - 1 \subseteq Nat /\ 0 .. ValueMod - 1 \subseteq Nat
    BY KeyModAssumption, MaxValueAssumption
  <1> QED
    BY <1>1 DEF KeyLens, ValueLens, HoldsLengths

(* Key and value of a body that FromBody accepts lie in it.                 *)
LEMMA PartsInside ==
  ASSUME NEW body \in Seq(Units), NEW key_len \in Nat, NEW value_len \in Nat,
         FromBody(body, key_len, value_len)
  PROVE  KeyIn(body, key_len) \in Seq(Units) /\ ValueIn(body, key_len, value_len) \in Seq(Units)
  <1>1. HdrLen \in Nat /\ Len(body) = HdrLen + key_len + value_len
    BY HdrLenAssumption DEF FromBody
  <1>2. ASSUME NEW i \in Nat, NEW j \in Nat, j <= Len(body)
        PROVE  SubSeq(body, i + 1, j) \in Seq(Units)
    <2>1. \A x \in i + 1 .. j : body[x] \in Units
      <3> SUFFICES ASSUME NEW x \in i + 1 .. j PROVE body[x] \in Units
        OBVIOUS
      <3>1. x \in 1 .. Len(body)
        BY <1>2, LenProperties
      <3> QED
        BY <3>1, ElementOfSeq
    <2>2. i + 1 \in Int /\ j \in Int
      BY <1>2
    <2> QED
      BY <2>1, <2>2, SubSeqProperties
  <1>3. /\ HdrLen + key_len \in Nat /\ HdrLen + key_len <= Len(body)
        /\ HdrLen + key_len + value_len \in Nat /\ HdrLen + key_len + value_len <= Len(body)
    BY <1>1
  <1> DEFINE a == HdrLen + key_len
             b == HdrLen + key_len + value_len
  <1>4. KeyIn(body, key_len) = SubSeq(body, HdrLen + 1, a)
        /\ ValueIn(body, key_len, value_len) = SubSeq(body, a + 1, b)
    BY DEF KeyIn, ValueIn
  <1>5. a \in Nat /\ a <= Len(body) /\ b \in Nat /\ b <= Len(body)
    BY <1>3
  <1> HIDE DEF a, b
  <1> QED
    BY <1>1, <1>2, <1>4, <1>5

(* What a handler leaves and answers.                                       *)
LEMMA AnswersTypes ==
  ASSUME StoreTypes(store), NEW method \in Commands, NEW body \in Seq(Units),
         method = "write" => HoldsLengths(body),
         NEW a \in Answers(method, body)
  PROVE  /\ a.status \in {"Ok", "BadArg", "NotFound"} /\ a.data \in Seq(Units)
         /\ StoreTypes(a.store)
         /\ method = "write" => a.data = <<>>
  <1>1. <<>> \in Seq(Units)
    BY EmptySeq
  <1>2. CASE method = "ping"
    BY <1>2 DEF Answers
  <1>3. CASE method = "quit"
    <2>1. a = [store |-> store, status |-> "Ok", data |-> <<>>]
      BY <1>3 DEF Answers
    <2> QED
      BY <1>1, <2>1
  <1>4. CASE method = "read"
    <2>1. body \in DOMAIN store => store[body] \in Seq(Units)
      BY DEF StoreTypes
    <2>2. CASE body \in DOMAIN store
      <3>1. a = [store |-> store, status |-> "Ok", data |-> store[body]]
        BY <1>4, <2>2 DEF Answers
      <3> QED
        BY <1>4, <2>1, <2>2, <3>1
    <2>3. CASE body \notin DOMAIN store
      <3>1. a = [store |-> store, status |-> "NotFound", data |-> <<>>]
        BY <1>4, <2>3 DEF Answers
      <3> QED
        BY <1>1, <3>1
    <2> QED
      BY <2>2, <2>3
  <1>5. CASE method = "write"
    <2>1. PICK key_len \in KeyLens(body), value_len \in ValueLens(body) :
            a = LET key   == KeyIn(body, key_len)
                    value == ValueIn(body, key_len, value_len)
                IN  IF ~FromBody(body, key_len, value_len)
                    THEN [store |-> store, status |-> "BadArg", data |-> <<>>]
                    ELSE [store |-> IF key \in DOMAIN store THEN store
                                    ELSE [k \in DOMAIN store \cup {key} |->
                                            IF k = key THEN value ELSE store[k]],
                          status |-> "Ok", data |-> <<>>]
      BY <1>5 DEF Answers
    <2>2. key_len \in Nat /\ value_len \in Nat
      BY <1>5, LensTypes
    <2>3. CASE ~FromBody(body, key_len, value_len)
      BY <1>1, <2>1, <2>3
    <2>4. CASE FromBody(body, key_len, value_len)
      <3> DEFINE key == KeyIn(body, key_len)
                 value == ValueIn(body, key_len, value_len)
                 more == [k \in DOMAIN store \cup {key} |-> IF k = key THEN value ELSE store[k]]
      <3>1. key \in Seq(Units) /\ value \in Seq(Units)
        BY <2>2, <2>4, PartsInside
      <3>2. a = [store |-> IF key \in DOMAIN store THEN store ELSE more,
                 status |-> "Ok", data |-> <<>>]
        BY <2>1, <2>4
      <3> HIDE DEF key, value
      <3>3. StoreTypes(more)
        BY <3>1 DEF StoreTypes
      <3> QED
        BY <1>1, <3>2, <3>3
    <2> QED
      BY <2>3, <2>4
  <1> QED
    BY <1>2, <1>3, <1>4, <1>5 DEF Commands

(* What a handler does to the store, and what it answers for it.            *)
LEMMA AnswersKeep ==
  ASSUME NEW method \in Commands, NEW body, NEW a \in Answers(method, body),
         NEW s, s = a.store
  PROVE  /\ \A key \in DOMAIN store : key \in DOMAIN s /\ s[key] = store[key]
         /\ method = "read" =>
              IF body \in DOMAIN s THEN a.status = "Ok" /\ a.data = s[body] ELSE a.status # "Ok"
         /\ method = "write" /\ a.status = "Ok" =>
              \E key_len \in KeyLens(body) : KeyIn(body, key_len) \in DOMAIN s
         /\ \A key \in DOMAIN s \ DOMAIN store :
              /\ method = "write" /\ a.status = "Ok"
              /\ \E key_len \in KeyLens(body), value_len \in ValueLens(body) :
                   key = KeyIn(body, key_len) /\ s[key] = ValueIn(body, key_len, value_len)
  <1>1. CASE method = "ping" \/ method = "quit"
    <2>1. s = store
      BY <1>1 DEF Answers
    <2> QED
      BY <1>1, <2>1
  <1>2. CASE method = "read"
    <2>1. s = store
      BY <1>2 DEF Answers
    <2>2. IF body \in DOMAIN store THEN a.status = "Ok" /\ a.data = store[body]
          ELSE a.status # "Ok"
      BY <1>2 DEF Answers
    <2> QED
      BY <1>2, <2>1, <2>2
  <1>3. CASE method = "write"
    <2>1. PICK key_len \in KeyLens(body), value_len \in ValueLens(body) :
            a = LET key   == KeyIn(body, key_len)
                    value == ValueIn(body, key_len, value_len)
                IN  IF ~FromBody(body, key_len, value_len)
                    THEN [store |-> store, status |-> "BadArg", data |-> <<>>]
                    ELSE [store |-> IF key \in DOMAIN store THEN store
                                    ELSE [k \in DOMAIN store \cup {key} |->
                                            IF k = key THEN value ELSE store[k]],
                          status |-> "Ok", data |-> <<>>]
      BY <1>3 DEF Answers
    <2>2. CASE ~FromBody(body, key_len, value_len)
      <3>1. s = store /\ a.status = "BadArg"
        BY <2>1, <2>2
      <3> QED
        BY <1>3, <3>1
    <2>3. CASE FromBody(body, key_len, value_len)
      <3> DEFINE key == KeyIn(body, key_len)
                 value == ValueIn(body, key_len, value_len)
                 more == [k \in DOMAIN store \cup {key} |-> IF k = key THEN value ELSE store[k]]
      <3>1. /\ s = IF key \in DOMAIN store THEN store ELSE more
            /\ a.status = "Ok"
        BY <2>1, <2>3
      <3> HIDE DEF key, value
      <3>2. /\ DOMAIN more = DOMAIN store \cup {key}
            /\ \A k \in DOMAIN store : key \notin DOMAIN store => more[k] = store[k]
            /\ more[key] = value
        OBVIOUS
      <3> HIDE DEF more
      <3>3. /\ \A k \in DOMAIN store : k \in DOMAIN s /\ s[k] = store[k]
            /\ key \in DOMAIN s
            /\ \A k \in DOMAIN s \ DOMAIN store : k = key /\ s[k] = value
        BY <3>1, <3>2
      <3> QED
        BY <1>3, <3>1, <3>3 DEF key, value
    <2> QED
      BY <2>2, <2>3
  <1> QED
    BY <1>1, <1>2, <1>3 DEF Commands

(* Of steps that leave the stream alone.                                    *)
LEMMA StreamUnchanged ==
  ASSUME StreamInv, UNCHANGED streamVars, store' = store
  PROVE  StreamInv'
  <1> USE DEF streamVars
  <1>1. StreamTypes' /\ ClientTook'
    BY DEF StreamInv, StreamTypes, ClientTook, Matches, Fits
  <1>2. \A e \in Ends : \A l : Coming(e, l) => Coming(e, l)'
    BY ComingKept
  <1>3. \A l : Hears(l) => Hears(l)'
    BY <1>2, EndsFacts DEF Hears, Awaits, Reading, Late
  <1>4. Idle => Idle'
    BY DEF Idle, Quiet, Late
  <1>5. Asking => Asking'
    BY <1>2, EndsFacts DEF Asking, Quiet, Awaits, Reading, Late, Wrote
  <1>6. Asked => Asked'
    BY DEF Asked, Quiet, Late
  <1>7. Answering => Answering'
    BY <1>3 DEF Answering, Quiet, Matches, Fits, Wrote
  <1>8. ClientGone => ClientGone'
    BY <1>2, EndsFacts DEF ClientGone, Quiet, Late, Reading, Wanted
  <1>9. ServerGone => ServerGone'
    BY <1>3 DEF ServerGone, Quiet, Matches, Fits
  <1> QED
    BY <1>1, <1>4, <1>5, <1>6, <1>7, <1>8, <1>9 DEF StreamInv, Phases

-----------------------------------------------------------------------------
(* The invariant of the path *)

(* In the beginning nobody is connected.                                    *)
LEMMA InitInv == Init => PathInv
  <1> SUFFICES ASSUME Init PROVE PathInv
    OBVIOUS
  <1> USE DEF Init, LineInit, StreamInit
  <1>1. LineTypes
    <2>1. argc = 0
      BY EmptySeq DEF argc
    <2>2. argv \in Seq(DOMAIN Chars)
      BY EmptySeq
    <2> QED
      BY <2>1, <2>2 DEF LineTypes, DefaultArgs, ArgsTypes
  <1>2. PathTypes
    <2>1. turn \in 1 .. Len(work)
      <3>1. work \in Seq([argv : Seq(DOMAIN Chars), body : {Made} \cup Seq(Units)])
              /\ work # <<>>
        BY WorksAssumption
      <3>2. Len(work) \in Nat /\ Len(work) # 0
        BY <3>1, LenProperties, EmptySeq
      <3> QED
        BY <3>2
    <2> QED
      BY <2>1 DEF PathTypes, StoreTypes
  <1>3. StreamInv
    <2>1. StreamTypes
      BY ShortsAssumption DEF StreamTypes, Ends
    <2>2. ClientGone
      BY DEF ClientGone, Ends
    <2>3. ClientTook
      BY DEF ClientTook, Ends
    <2> QED
      BY <2>1, <2>2, <2>3 DEF StreamInv, Phases
  <1> QED
    BY <1>1, <1>2, <1>3 DEF PathInv, CrashesOnlySo, Ends

(* The process with this number starts.                                     *)
LEMMA StartKeeps ==
  ASSUME PathInv, Start
  PROVE  PathInv'
  <1>1. work[turn].argv \in Seq(DOMAIN Chars)
    <2>1. /\ work \in Seq([argv : Seq(DOMAIN Chars), body : {Made} \cup Seq(Units)])
          /\ turn \in 1 .. Len(work)
      BY WorksAssumption DEF PathInv, PathTypes
    <2>2. work[turn] \in [argv : Seq(DOMAIN Chars), body : {Made} \cup Seq(Units)]
      BY <2>1, ElementOfSeq
    <2> QED
      BY <2>2
  <1>2. LineTypes'
    <2>1. argc' \in Nat
      BY <1>1, LenProperties DEF argc, Start, LineStarts
    <2> QED
      BY <1>1, <2>1 DEF Start, LineStarts, LineTypes, DefaultArgs, ArgsTypes
  <1>3. PathTypes'
    BY DEF Start, PathInv, PathTypes
  <1> QED
    BY <1>2, <1>3, StreamUnchanged DEF Start, PathInv, CrashesOnlySo, streamVars

(* A step of parse_args.                                                    *)
LEMMA ParsePathKeeps ==
  ASSUME PathInv, Parse
  PROVE  PathInv'
  <1>1. LineTypes' /\ argv' = argv
    BY ParseKeeps DEF Parse, PathInv
  <1>2. PathTypes'
    BY <1>1 DEF Parse, PathInv, PathTypes, Over, LineTypes
  <1>3. CrashesOnlySo'
    <2>1. CASE parse' = "crashed"
      <3>1. parse # "crashed" /\ ParseStep
        BY DEF Parse, ParseStep, ParseFixed, ParseCount, ParseFlag, ParseCommand,
               ParseConfig, ParseEnd
      <3>2. \E n \in 6 .. argc - 1 :
              /\ n + 3 >= argc /\ Arg(n) \notin Dashed
              /\ \/ Arg(n - 2) \in {"-key", "-value"}
                 \/ Arg(n - 3) \in {"-key", "-value"} /\ Arg(n - 1) = "+"
        BY <2>1, <3>1, ParseCrashes DEF PathInv
      <3> QED
        BY <1>1, <3>2 DEF CrashesOnlySo, argc, Arg
    <2>2. CASE parse' # "crashed"
      BY <1>1, <2>2 DEF Parse, CrashesOnlySo, LineTypes
    <2> QED
      BY <2>1, <2>2
  <1> QED
    BY <1>1, <1>2, <1>3, StreamUnchanged DEF Parse, PathInv, streamVars

(* Of steps that leave the command line and what has become of it alone.    *)
LEMMA PathKeeps ==
  ASSUME PathInv, StreamInv', PathTypes', UNCHANGED lineVars,
         proc' = "crashed" => CrashesOnlySo'
  PROVE  PathInv'
  <1>1. LineTypes'
    BY DEF PathInv, LineTypes, argc, lineVars
  <1>2. CrashesOnlySo'
    BY DEF CrashesOnlySo
  <1> QED
    BY <1>1, <1>2 DEF PathInv

(* A crash stays what it was.                                               *)
LEMMA StillCrashed ==
  ASSUME CrashesOnlySo, UNCHANGED lineVars, proc = "crashed"
  PROVE  CrashesOnlySo'
  BY DEF CrashesOnlySo, lineVars, Arg, argc, gen_str

(* A server with a message at hand has that of the client.                  *)
LEMMA ReadyIsAsked ==
  ASSUME StreamInv, stage["server"] = "ready"
  PROVE  Asked
  BY DEF StreamInv, Phases, Idle, Asking, Late, Answering, Awaits, Reading, ClientGone,
         ServerGone

(* The steps of the client.                                                 *)
LEMMA ClientKeeps ==
  ASSUME PathInv, Client
  PROVE  PathInv'
  <1> USE EndsFacts
  <1>1. StreamInv /\ LineTypes /\ PathTypes
    BY DEF PathInv
  <1>2. CASE Start
    BY <1>2, StartKeeps
  <1>3. CASE Parse
    BY <1>3, ParsePathKeeps
  <1>4. CASE Connect
    <2>1. Opened => StreamInv'
      BY <1>1, OpenKeeps
    <2>2. UNCHANGED streamVars => StreamInv'
      BY <1>1, <1>4, StreamUnchanged DEF Connect
    <2>3. PathTypes' /\ proc' # "crashed"
      BY <1>1, <1>4 DEF Connect, PathTypes, Over, lineVars
    <2> QED
      BY <1>4, <2>1, <2>2, <2>3, PathKeeps DEF Connect
  <1>5. CASE Return
    <2>1. StreamInv'
      BY <1>1, <1>5, StreamUnchanged DEF Return
    <2>2. PathTypes' /\ proc' # "crashed"
      BY <1>1, <1>5 DEF Return, PathTypes, Over, lineVars
    <2> QED
      BY <1>5, <2>1, <2>2, PathKeeps DEF Return
  <1>6. CASE SendRequest
    <2> DEFINE body == BodyOf(args.command)
               msg == Request(next_id, args.command, body)
    <2>1. args.command \in Commands
      BY <1>1, <1>6 DEF SendRequest, LineTypes, PathTypes
    <2>2. body \in Seq(Units) /\ (args.command = "write" => HoldsLengths(body))
      BY <1>1, <1>6, <2>1, BodyTypes DEF SendRequest
    <2>3. next_id \in Nat
      BY <1>1 DEF PathTypes
    <2>4. msg = Request(next_id, args.command, body) /\ SendHead("client", msg)
      BY <1>6 DEF SendRequest
    <2> HIDE DEF body, msg
    <2>5. msg \in Messages
      BY <2>1, <2>2, <2>3, <2>4, RequestTypes
    <2>6. StreamInv'
      BY <1>1, <2>4, <2>5, RequestKeeps
    <2>7. PathTypes' /\ proc' # "crashed"
      BY <1>1, <1>6, <2>3 DEF SendRequest, PathTypes, lineVars
    <2> QED
      BY <1>6, <2>6, <2>7, PathKeeps DEF SendRequest
  <1>7. CASE CrashOnNull
    <2>1. args.command \in Commands
      BY <1>1, <1>7 DEF CrashOnNull, LineTypes, PathTypes
    <2>2. args.command = "write" /\ Len(gen_str(args.value)) > MaxValue
      BY <1>1, <1>7, <2>1, BodyTypes DEF CrashOnNull
    <2>3. CrashesOnlySo'
      BY <1>7, <2>2 DEF CrashOnNull, CrashesOnlySo, lineVars, gen_str
    <2>4. PathTypes'
      BY <1>1, <1>7 DEF CrashOnNull, PathTypes, Over, lineVars
    <2>5. StreamInv'
      BY <1>1, <1>7, ClientCloses DEF CrashOnNull
    <2> QED
      BY <1>7, <2>3, <2>4, <2>5, PathKeeps DEF CrashOnNull
  <1>8. CASE ClientGetsOn
    <2>1. StreamInv'
      BY <1>1, <1>8, ClientBodyKeeps, ClientReceives DEF ClientGetsOn
    <2>2. PathTypes' /\ proc' # "crashed"
      BY <1>1, <1>8 DEF ClientGetsOn, PathTypes, lineVars
    <2> QED
      BY <1>8, <2>1, <2>2, PathKeeps DEF ClientGetsOn
  <1>9. CASE Close
    <2>1. StreamInv'
      BY <1>1, <1>9, ClientCloses DEF Close
    <2>2. PathTypes' /\ proc' # "crashed"
      BY <1>1, <1>9 DEF Close, PathTypes, lineVars
    <2> QED
      BY <1>9, <2>1, <2>2, PathKeeps DEF Close
  <1>10. CASE GiveUp
    <2>1. StreamInv'
      BY <1>1, <1>10, ClientCloses DEF GiveUp
    <2>2. PathTypes' /\ proc' # "crashed"
      BY <1>1, <1>10 DEF GiveUp, PathTypes, lineVars, Over
    <2> QED
      BY <1>10, <2>1, <2>2, PathKeeps DEF GiveUp
  <1>11. CASE NextTurn
    <2>1. StreamInv'
      BY <1>1, <1>11, StreamUnchanged DEF NextTurn
    <2>2. PathTypes' /\ proc' # "crashed"
      <3>1. turn + 1 \in 1 .. Len(work)
        <4>1. /\ work \in Seq([argv : Seq(DOMAIN Chars), body : {Made} \cup Seq(Units)])
          BY <1>1, WorksAssumption DEF PathTypes
        <4>2. Len(work) \in Nat /\ turn \in 1 .. Len(work) /\ turn < Len(work)
          BY <1>1, <1>11, <4>1, LenProperties DEF NextTurn, PathTypes
        <4> QED
          BY <4>2
      <3> QED
        BY <1>1, <1>11, <3>1 DEF NextTurn, PathTypes, lineVars
    <2> QED
      BY <1>11, <2>1, <2>2, PathKeeps DEF NextTurn
  <1> QED
    BY <1>2, <1>3, <1>4, <1>5, <1>6, <1>7, <1>8, <1>9, <1>10, <1>11 DEF Client

(* The server handles a request.                                            *)
LEMMA HandleKeeps ==
  ASSUME PathInv, Handle
  PROVE  PathInv' /\ Answering'
  <1> USE EndsFacts
  <1>0. StreamInv /\ LineTypes /\ PathTypes
    BY DEF PathInv
  <1>1. PICK request \in Messages : request = taken["server"]
    BY <1>0, ReadyIsAsked DEF Handle, Asked
  <1>2. PICK a \in Answers(request.header.method, request.data) :
          SendHead("server", Response(request, a.status, a.data)) /\ store' = a.store
    BY <1>1 DEF Handle
  <1>3. /\ request.header.method \in Commands /\ request.data \in Seq(Units)
        /\ request.header.method = "write" => HoldsLengths(request.data)
    BY DEF Messages, Headers
  <1>4. /\ a.status \in {"Ok", "BadArg", "NotFound"} /\ a.data \in Seq(Units)
        /\ StoreTypes(a.store) /\ (request.header.method = "write" => a.data = <<>>)
    BY <1>0, <1>2, <1>3, AnswersTypes DEF PathTypes
  <1>5. PICK msg : msg = Response(request, a.status, a.data)
    OBVIOUS
  <1>6. /\ msg \in Messages /\ msg.header.id = request.header.id
        /\ msg.header.req_len_log = request.header.req_len_log
    BY <1>4, <1>5, ResponseTypes
  <1>7. Fits'
    <2>1. sent'["client"] = request /\ sent'["server"] = msg
      BY <1>0, <1>1, <1>2, <1>5, ReadyIsAsked
         DEF Handle, Asked, SendHead, StreamInv, StreamTypes
    <2>2. msg.header.status = a.status /\ msg.data = a.data
      BY <1>3, <1>5 DEF Response, Messages, Headers
    <2>3. PICK s : s = a.store
      OBVIOUS
    <2>4. /\ request.header.method = "read" =>
               IF request.data \in DOMAIN s THEN a.status = "Ok" /\ a.data = s[request.data]
               ELSE a.status # "Ok"
          /\ request.header.method = "write" /\ a.status = "Ok" =>
               \E key_len \in KeyLens(request.data) : KeyIn(request.data, key_len) \in DOMAIN s
      BY <1>2, <1>3, <2>3, AnswersKeep
    <2> QED
      BY <1>2, <2>1, <2>2, <2>3, <2>4 DEF Fits
  <1>8. StreamInv' /\ Answering'
    BY <1>0, <1>1, <1>2, <1>5, <1>6, <1>7, ResponseKeeps
  <1>9. PathTypes' /\ (proc' = "crashed" => proc = "crashed")
    BY <1>0, <1>2, <1>4 DEF Handle, PathTypes, lineVars
  <1> QED
    BY <1>8, <1>9, StillCrashed, PathKeeps DEF Handle, PathInv

(* The steps of the server.                                                 *)
LEMMA ServerKeeps ==
  ASSUME PathInv, Server
  PROVE  PathInv'
  <1> USE EndsFacts
  <1>1. StreamInv /\ LineTypes /\ PathTypes
    BY DEF PathInv
  <1>2. CASE Handle
    BY <1>2, HandleKeeps
  <1>3. CASE ServerGetsOn
    <2>1. StreamInv'
      BY <1>1, <1>3, ServerBodyKeeps, ServerReceives DEF ServerGetsOn, pathVars
    <2>2. PathTypes' /\ (proc' = "crashed" => proc = "crashed")
      BY <1>1, <1>3 DEF ServerGetsOn, PathTypes, pathVars, lineVars
    <2> QED
      BY <1>3, <2>1, <2>2, StillCrashed, PathKeeps DEF ServerGetsOn, PathInv
  <1>4. CASE ServerCloses
    <2>1. StreamInv'
      BY <1>1, <1>4, ServerClosesKeeps DEF ServerCloses, pathVars
    <2>2. PathTypes' /\ (proc' = "crashed" => proc = "crashed")
      BY <1>1, <1>4 DEF ServerCloses, PathTypes, pathVars, lineVars
    <2> QED
      BY <1>4, <2>1, <2>2, StillCrashed, PathKeeps DEF ServerCloses, PathInv
  <1> QED
    BY <1>2, <1>3, <1>4 DEF Server

(* Every step keeps the invariant.                                          *)
LEMMA NextInv ==
  ASSUME PathInv, [Next]_vars
  PROVE  PathInv'
  <1>1. CASE UNCHANGED vars
    <2>1. StreamInv'
      BY <1>1, StreamUnchanged DEF PathInv, vars, pathVars
    <2> QED
      BY <1>1, <2>1, PathKeeps, StillCrashed
         DEF vars, pathVars, PathInv, PathTypes, lineVars
  <1> QED
    BY <1>1, ClientKeeps, ServerKeeps DEF Next, Finished

(* All this holds on every path of requests.                                *)
LEMMA Invariance == Spec => []PathInv
  BY InitInv, NextInv, PTL DEF Spec

-----------------------------------------------------------------------------
(* What the invariant says *)

(* What is in hand of a message on its way is a start of it.                *)
LEMMA HandIsStart ==
  ASSUME NEW e \in Ends, NEW l, Reading(e), Coming(e, l)
  PROVE  IsStart(InHand(e), WholeOf(sent[Peer(e)]))
  <1> DEFINE msg == sent[Peer(e)]
             W == WholeOf(msg)
             b == Base(e)
  <1>1. msg \in Messages /\ b \in Nat /\ b <= HeadLen /\ l \in 0 .. Length(msg)
    BY ComingFacts, HeadLengths DEF Base, Coming
  <1>2. PICK a \in 0 .. Length(msg) :
          a \in b .. l /\ buf[e] = Piece(W, b, a) /\ wire[e] = Piece(W, a, l)
    BY DEF Coming, Split
  <1>3. /\ W \in Seq(UnitsOf(msg)) /\ Len(W) = Length(msg) /\ Length(msg) \in Nat
        /\ HeadOf(msg) \in Seq(UnitsOf(msg)) /\ Len(HeadOf(msg)) = HeadLen
        /\ \A k \in 0 .. HeadLen : Piece(W, 0, k) = SubSeq(HeadOf(msg), 1, k)
    BY <1>1, WholeProperties
  <1> DEFINE before == CASE stage[e] = "header" -> SubSeq(HeadOf(msg), 1, MarkLen)
                         [] stage[e] = "body"   -> HeadOf(msg)
                         [] OTHER               -> <<>>
  <1>4. before = Piece(W, 0, b)
    <2>1. CASE stage[e] = "mark"
      <3>1. before = <<>> /\ b = 0
        BY <2>1 DEF Base
      <3>2. Piece(W, 0, 0) = <<>>
        BY SubSeqEmpty DEF Piece
      <3> QED
        BY <3>1, <3>2
    <2>2. CASE stage[e] = "header"
      <3>1. before = SubSeq(HeadOf(msg), 1, MarkLen) /\ b = MarkLen /\ MarkLen \in 0 .. HeadLen
        BY <2>2, HeadLengths DEF Base
      <3> QED
        BY <1>3, <3>1
    <2>3. CASE stage[e] = "body"
      <3>1. before = HeadOf(msg) /\ b = HeadLen /\ HeadLen \in 0 .. HeadLen
        BY <2>3, HeadLengths DEF Base
      <3>2. SubSeq(HeadOf(msg), 1, HeadLen) = HeadOf(msg)
        BY <1>3, SubSeqFull
      <3> QED
        BY <1>3, <3>1, <3>2
    <2> QED
      BY <2>1, <2>2, <2>3 DEF Reading
  <1>5. InHand(e) = Piece(W, 0, b) \o Piece(W, b, a) \o Piece(W, a, l)
    BY <1>2, <1>4 DEF InHand
  <1> HIDE DEF msg, W, b, before
  <1>6. /\ b \in Nat /\ a \in Nat /\ 0 \in Nat /\ b \in 0 .. Len(W) /\ a \in b .. Len(W)
        /\ a \in 0 .. Len(W) /\ l \in a .. Len(W) /\ l \in 0 .. Len(W)
    BY <1>1, <1>2, <1>3
  <1>7. /\ Piece(W, 0, b) \o Piece(W, b, a) = Piece(W, 0, a)
        /\ Piece(W, 0, a) \o Piece(W, a, l) = Piece(W, 0, l)
    BY <1>3, <1>6, JoinPieces
  <1>8. Len(Piece(W, 0, l)) = l
    BY <1>3, <1>6, FrontProperties
  <1>9. InHand(e) = Piece(W, 0, l)
    BY <1>5, <1>7
  <1>10. Piece(W, 0, l) = SubSeq(W, 1, l)
    <2>1. 0 + 1 = 1
      OBVIOUS
    <2> QED
      BY <2>1 DEF Piece
  <1> QED
    BY <1>3, <1>6, <1>8, <1>9, <1>10 DEF IsStart, W, msg

(* Nothing is a start of everything.                                        *)
LEMMA NothingIsStart ==
  ASSUME NEW e \in Ends, stage[e] = "mark", Quiet(e), sent[Peer(e)] \in Messages
  PROVE  IsStart(InHand(e), WholeOf(sent[Peer(e)]))
  <1> DEFINE W == WholeOf(sent[Peer(e)])
  <1>1. InHand(e) = <<>> \o <<>> \o <<>>
    BY DEF InHand, Quiet
  <1>2. InHand(e) = <<>> /\ Len(InHand(e)) = 0
    <2>1. <<>> \o <<>> = <<>> /\ Len(<<>>) = 0
      BY EmptySeq, ConcatEmptySeq
    <2> QED
      BY <1>1, <2>1
  <1>3. Len(W) \in Nat /\ SubSeq(W, 1, 0) = <<>>
    BY WholeProperties, SubSeqEmpty
  <1> QED
    BY <1>2, <1>3 DEF IsStart

(* A stream never gets out of step, whatever write() stores and read()      *)
(* returns: rpc_send_req, rpc_send_resp, rpc_recv_req, rpc_recv_resp.       *)
THEOREM InStepCorrect == Spec => []InStep
  <1>1. PathInv => InStep
    <2> SUFFICES ASSUME PathInv, NEW e \in Ends, Reading(e), sent[Peer(e)] # None
                 PROVE  IsStart(InHand(e), WholeOf(sent[Peer(e)]))
      BY DEF InStep
    <2>1. sent[Peer(e)] \in Messages
      BY EndsFacts DEF PathInv, StreamInv, StreamTypes
    <2>2. StreamInv
      BY DEF PathInv
    <2>3. CASE e = "client"
      <3>1. Peer(e) = "server" /\ stage["client"] \in {"mark", "header", "body"}
        BY <2>3 DEF Peer, Reading
      <3>2. (stage[e] = "mark" /\ Quiet(e)) \/ \E l : Coming(e, l)
        BY <2>2, <2>3, <3>1
           DEF StreamInv, Phases, Idle, Asking, Asked, Late, Answering, ClientGone,
               ServerGone, Hears
      <3> QED
        BY <2>1, <3>2, HandIsStart, NothingIsStart
    <2>4. CASE e = "server"
      <3>1. Peer(e) = "client" /\ stage["server"] \in {"mark", "header", "body"}
        BY <2>4 DEF Peer, Reading
      <3>2. (stage[e] = "mark" /\ Quiet(e)) \/ \E l : Coming(e, l)
        BY <2>2, <2>4, <3>1
           DEF StreamInv, Phases, Idle, Asking, Asked, Late, Answering, ClientGone,
               ServerGone
      <3> QED
        BY <2>1, <3>2, HandIsStart, NothingIsStart
    <2> QED
      BY <2>3, <2>4 DEF Ends
  <1> QED
    BY <1>1, Invariance, PTL

(* The handlers act on the whole message of the client, and the client on   *)
(* the whole answer to its own request.                                     *)
THEOREM MessagesWholeCorrect == Spec => []MessagesWhole
  <1>1. PathInv => MessagesWhole
    <2> SUFFICES ASSUME PathInv, NEW e \in Ends, stage[e] = "ready", taken[e] # None
                 PROVE  /\ taken[e] = sent[Peer(e)]
                        /\ e = "client" =>
                             /\ taken[e].header.id = sent[e].header.id
                             /\ taken[e].header.req_len_log = sent[e].header.req_len_log
      BY DEF MessagesWhole
    <2>1. CASE e = "client"
      BY <2>1, EndsFacts DEF PathInv, StreamInv, ClientTook, Matches
    <2>2. CASE e = "server"
      <3>1. taken["server"] = sent["client"]
        BY <2>2, ReadyIsAsked DEF PathInv, Asked
      <3> QED
        BY <2>2, <3>1, EndsFacts
    <2> QED
      BY <2>1, <2>2 DEF Ends
  <1> QED
    BY <1>1, Invariance, PTL

(* FromBody takes for a write only what holds its two lengths, a key and a   *)
(* value, whoever has sent it.                                              *)
THEOREM ParsedInsideBodyCorrect == Spec => []ParsedInsideBody
  <1>1. PathInv => ParsedInsideBody
    <2> SUFFICES ASSUME PathInv, stage["server"] = "ready",
                        taken["server"].header.method = "write",
                        NEW body, body = taken["server"].data,
                        NEW key_len \in KeyLens(body), NEW value_len \in ValueLens(body),
                        FromBody(body, key_len, value_len)
                 PROVE  /\ Len(body) >= HdrLen
                        /\ body = SubSeq(body, 1, HdrLen) \o KeyIn(body, key_len)
                                    \o ValueIn(body, key_len, value_len)
      BY DEF ParsedInsideBody
    <2>1. taken["server"] \in Messages
      BY ReadyIsAsked DEF PathInv, Asked
    <2>2. body \in Seq(Units) /\ HoldsLengths(body)
      BY <2>1 DEF Messages
    <2>3. key_len \in Nat /\ value_len \in Nat
      BY <2>2, LensTypes
    <2> QED
      BY <2>2, <2>3, OnlyWhatIsThere
  <1> QED
    BY <1>1, Invariance, PTL

(* Types, with next_arg within the arguments of parse_args.                 *)
THEOREM TypeOKCorrect == Spec => []TypeOK
  <1>1. PathInv => TypeOK
    BY DEF PathInv, LineTypes, PathTypes, StoreTypes, StreamInv, StreamTypes, TypeOK
  <1> QED
    BY <1>1, Invariance, PTL

(* The client program reads through a null pointer or behind its arguments  *)
(* in two cases only: parse_args, and full_len() of what Make refuses.      *)
THEOREM CrashesOnlySoCorrect == Spec => []CrashesOnlySo
  <1>1. PathInv => CrashesOnlySo
    BY DEF PathInv
  <1> QED
    BY <1>1, Invariance, PTL

-----------------------------------------------------------------------------
(* What is written, stored and read *)

\* The client has sent a request and has no answer yet.
Waits == stage["client"] \in {"send_body", "mark", "header", "body"}

\* The connection is that of the running process, and the command line too.
Talking == proc # "talk" => stage["client"] = "off"
OwnLine == proc # "start" => argv = work[turn].argv

\* The base is what follows this option on the command line.
Follows(base, option) == \E l \in 4 .. argc - 1 : argv[l] = option /\ base = argv[l + 1]

LineGives ==
  /\ args.key # NoBase => Follows(args.key, "-key")
  /\ args.value # NoBase => Follows(args.value, "-value")
  /\ parse = "parsed" /\ args.command = "write" => NoBase \notin {args.key, args.value}

\* The request the client waits for is that of its command line.
AsksOwn ==
  Waits => /\ sent["client"] \in Messages /\ sent["client"].header.method = args.command
           /\ sent["client"].data = BodyOf(args.command) /\ BodyOf(args.command) # NULL

AnswerRecords ==
  [turn : Nat, method : Commands, key : Seq(Units), value : Seq(Units),
   status : {"Ok", "BadArg", "NotFound"}, data : Seq(Units)]

AnswersTyped == answers \in Seq(AnswerRecords)

\* Nobody sends bodies of their own.
OnlyMade == \A n \in DOMAIN work : work[n].body = Made

\* The first acknowledged write of the key.
First(m, key) == WroteIt(m, key) /\ \A l \in 1 .. m - 1 : ~WroteIt(l, key)

\* What is acknowledged is in the store.
Acknowledged ==
  OnlyMade /\ ShortKeys =>
    \A m \in DOMAIN answers :
      answers[m].method = "write" /\ answers[m].status = "Ok" => answers[m].key \in DOMAIN store

\* The key is that of the write the client waits for, which has been handled.
Pending(key) ==
  /\ Answering /\ serving /\ args.command = "write" /\ sent["server"].header.status = "Ok"
  /\ key = SubSeq(gen_str(args.key), 1, KeyLenOf(gen_str(args.key)))
  /\ store[key] = gen_str(args.value)

\* As long as no write is cut short, a key has the value of the first write of it.
FirstKept ==
  OnlyMade /\ ShortKeys /\ shorts = 0 =>
    \A key \in DOMAIN store :
      \/ \E m \in DOMAIN answers : First(m, key) /\ store[key] = answers[m].value
      \/ Pending(key) /\ \A m \in DOMAIN answers : ~WroteIt(m, key)

\* WrittenIsRead, with the first write as a witness.
ReadsFirst ==
  OnlyMade /\ ShortKeys =>
    \A n \in DOMAIN answers :
      answers[n].method = "read" /\ (\E m \in 1 .. n - 1 : WroteIt(m, answers[n].key)) =>
        /\ answers[n].status = "Ok"
        /\ shorts = 0 => \E m \in 1 .. n - 1 : /\ First(m, answers[n].key)
                                               /\ answers[n].data = answers[m].value

OwnInv == Talking /\ OwnLine /\ LineGives /\ AsksOwn /\ AnswersTyped
StoreInv == StoredUnder /\ Acknowledged /\ FirstKept /\ ReadsFirst

-----------------------------------------------------------------------------
(* What the client asks *)

(* parse_args takes a base from behind its option, and no write without both. *)
LEMMA ParseGives ==
  ASSUME LineTypes, LineGives, ParseStep
  PROVE  LineGives'
  <1>1. argv' = argv /\ argc' = argc /\ argc \in Nat
    BY ParseKeeps DEF argc, LineTypes
  <1>2. \A base, option : Follows(base, option) => Follows(base, option)'
    BY <1>1 DEF Follows
  <1>3. CASE ParseConfig /\ ~ParseExits
    <2>1. /\ parse = "configs" /\ next_arg + 1 < argc /\ next_arg >= 4 /\ next_arg \in Nat
          /\ Arg(next_arg) \in {"-key", "-value"}
          /\ args' = Based(Arg(next_arg), Arg(next_arg + 1)) /\ parse' # "parsed"
      BY <1>1, <1>3 DEF ParseConfig, LineTypes
    <2>2. PICK l \in 4 .. argc - 1 : l = next_arg + 1
      BY <1>1, <2>1
    <2>3. Arg(next_arg) = argv[l] /\ Arg(next_arg + 1) = argv[l + 1]
      BY <2>1, <2>2 DEF Arg
    <2>4. CASE argv[l] = "-key"
      <3>1. args'.key = argv[l + 1] /\ args'.value = args.value
        BY <2>1, <2>3, <2>4 DEF Based, LineTypes, ArgsTypes
      <3>2. Follows(args.key, "-key")'
        BY <1>1, <2>2, <2>4, <3>1 DEF Follows
      <3> QED
        BY <1>2, <2>1, <3>1, <3>2 DEF LineGives
    <2>5. CASE argv[l] = "-value"
      <3>1. args'.value = argv[l + 1] /\ args'.key = args.key
        BY <2>1, <2>3, <2>5 DEF Based, LineTypes, ArgsTypes
      <3>2. Follows(args.value, "-value")'
        BY <1>1, <2>2, <2>5, <3>1 DEF Follows
      <3> QED
        BY <1>2, <2>1, <3>1, <3>2 DEF LineGives
    <2> QED
      BY <2>1, <2>3, <2>4, <2>5
  <1>4. CASE ~ParseConfig \/ ParseExits
    <2>1. /\ args'.key = args.key /\ args'.value = args.value
          /\ parse' = "parsed" /\ args'.command = "write" => NoBase \notin {args.key, args.value}
      BY <1>4
         DEF ParseStep, ParseFixed, ParseCount, ParseFlag, ParseCommand, ParseEnd,
             ParseExits, Counted, LineTypes, ArgsTypes
    <2> QED
      BY <1>2, <2>1 DEF LineGives
  <1> QED
    BY <1>3, <1>4

(* What the server does changes nothing of the client's side of it.         *)
LEMMA ServerFrame ==
  ASSUME PathInv, Server
  PROVE  /\ stage'["client"] = stage["client"] /\ sent'["client"] = sent["client"]
         /\ UNCHANGED <<work, turn, proc, answers, lineVars>>
  <1>1. StreamTypes
    BY DEF PathInv, StreamInv
  <1>2. CASE Handle
    BY <1>1, <1>2 DEF Handle, SendHead, StreamTypes, Ends
  <1>3. CASE ServerGetsOn
    BY <1>1, <1>3
       DEF ServerGetsOn, SendBody, Receive, Read, GotMark, GotHeader, GotBody,
           RecvFails, Complete, StreamTypes, Ends, pathVars
  <1>4. CASE ServerCloses
    BY <1>1, <1>4 DEF ServerCloses, Closed, StreamTypes, Ends, pathVars
  <1> QED
    BY <1>2, <1>3, <1>4 DEF Server

(* The command line is that of the running process, which alone has a       *)
(* connection.                                                              *)
LEMMA OwnKeeps ==
  ASSUME PathInv, Talking, OwnLine, LineGives, [Next]_vars
  PROVE  Talking' /\ OwnLine' /\ LineGives'
  <1>1. /\ StreamTypes /\ LineTypes
    BY DEF PathInv, StreamInv
  <1>2. CASE Start
    <2>1. args' = DefaultArgs /\ parse' = "fixed" /\ argv' = work'[turn'].argv
      BY <1>2 DEF Start, LineStarts
    <2> QED
      BY <1>2, <2>1 DEF Start, Talking, OwnLine, LineGives, DefaultArgs, streamVars
  <1>3. CASE Parse
    <2>1. LineGives' /\ argv' = argv
      BY <1>1, <1>3, ParseGives, ParseKeeps DEF Parse
    <2> QED
      BY <1>3, <2>1 DEF Parse, Talking, OwnLine, streamVars
  <1>4. CASE UNCHANGED lineVars
    <2>1. LineGives'
      BY <1>4 DEF LineGives, Follows, argc, lineVars
    <2>2. OwnLine' /\ Talking'
      <3>1. CASE Start \/ Parse
        BY <1>2, <1>3, <3>1
      <3>2. CASE Server
        BY <1>4, <3>2, ServerFrame DEF OwnLine, Talking, lineVars
      <3>3. CASE UNCHANGED vars
        BY <3>3 DEF vars, pathVars, lineVars, streamVars, OwnLine, Talking
      <3>4. CASE SendRequest \/ ClientGetsOn
        BY <3>4 DEF SendRequest, ClientGetsOn, OwnLine, Talking, lineVars
      <3>5. CASE Connect
        BY <3>5 DEF Connect, OwnLine, Talking, lineVars, streamVars
      <3>6. CASE Return
        BY <3>6 DEF Return, OwnLine, Talking, lineVars, streamVars
      <3>7. CASE CrashOnNull \/ Close \/ GiveUp
        <4>1. stage'["client"] = "off"
          BY <1>1, <3>7 DEF CrashOnNull, Close, GiveUp, Closed, StreamTypes, Ends
        <4> QED
          BY <3>7, <4>1 DEF CrashOnNull, Close, GiveUp, OwnLine, Talking, lineVars
      <3>8. CASE NextTurn
        BY <3>8 DEF NextTurn, OwnLine, Talking, streamVars, Over
      <3> QED
        BY <3>1, <3>2, <3>3, <3>4, <3>5, <3>6, <3>7, <3>8 DEF Next, Client, Finished
    <2> QED
      BY <2>1, <2>2
  <1> QED
    BY <1>2, <1>3, <1>4
       DEF Next, Client, Server, Finished, Connect, Return, SendRequest, CrashOnNull,
           ClientGetsOn, Close, GiveUp, NextTurn, Handle, ServerGetsOn, ServerCloses, vars

(* The client waits for the answer to the request of its command line.      *)
LEMMA AsksKeeps ==
  ASSUME PathInv, Talking, AsksOwn, [Next]_vars
  PROVE  AsksOwn'
  <1> USE EndsFacts
  <1>1. StreamTypes /\ LineTypes /\ PathTypes
    BY DEF PathInv, StreamInv
  <1>2. ASSUME Waits, sent'["client"] = sent["client"], UNCHANGED <<work, turn, lineVars>>
        PROVE  AsksOwn'
    BY <1>2 DEF AsksOwn, BodyOf, lineVars, gen_str
  <1>3. CASE Server
    BY <1>2, <1>3, ServerFrame DEF AsksOwn, Waits
  <1>4. CASE UNCHANGED vars
    BY <1>2, <1>4 DEF AsksOwn, Waits, vars, pathVars, streamVars
  <1>5. CASE SendRequest
    <2>1. PICK body : body = BodyOf(args.command)
      OBVIOUS
    <2>2. args.command \in Commands /\ body # NULL
      BY <1>1, <1>5, <2>1 DEF SendRequest, PathTypes, LineTypes
    <2>3. body \in Seq(Units) /\ (args.command = "write" => HoldsLengths(body))
      BY <1>1, <2>1, <2>2, BodyTypes
    <2>4. PICK msg : msg = Request(next_id, args.command, body)
      OBVIOUS
    <2>5. msg \in Messages
      BY <1>1, <2>2, <2>3, <2>4, RequestTypes DEF PathTypes
    <2>6. sent'["client"] = msg
      BY <1>1, <1>5, <2>1, <2>4 DEF SendRequest, SendHead, StreamTypes
    <2>7. msg.header.method = args.command /\ msg.data = body
      BY <2>4 DEF Request
    <2>8. BodyOf(args.command)' = body /\ args'.command = args.command
      BY <1>5, <2>1 DEF SendRequest, BodyOf, lineVars, gen_str
    <2> QED
      BY <2>2, <2>5, <2>6, <2>7, <2>8 DEF AsksOwn
  <1>6. CASE ClientGetsOn
    <2>1. sent' = sent /\ Waits
      <3>1. CASE SendBody("client")
        BY <3>1 DEF SendBody, Waits
      <3>2. CASE Receive("client")
        BY <1>1, <3>2, ReceiveFrame DEF Waits, Reading
      <3> QED
        BY <1>6, <3>1, <3>2 DEF ClientGetsOn
    <2> QED
      BY <1>2, <1>6, <2>1 DEF ClientGetsOn
  <1>7. CASE Client /\ ~SendRequest /\ ~ClientGetsOn
    <2>1. ~Waits'
      BY <1>1, <1>7
         DEF Client, Start, Parse, Connect, Return, CrashOnNull, Close, GiveUp, NextTurn,
             Opened, Closed, Talking, Waits, StreamTypes, streamVars, Over
    <2> QED
      BY <2>1 DEF AsksOwn
  <1> QED
    BY <1>3, <1>4, <1>5, <1>6, <1>7 DEF Next, Finished

-----------------------------------------------------------------------------
(* What the store holds *)

\* What follows this option on the command line of process n.
GivenTo(n, option) ==
  {Chars[work[n].argv[m + 1]] :
     m \in {l \in 4 .. Len(work[n].argv) - 1 : work[n].argv[l] = option}}

\* What StoredUnder says of a key and its value.
StoredFrom(n, key, value) ==
  /\ value \in GivenTo(n, "-value")
  /\ \E k \in GivenTo(n, "-key") :
       key = SubSeq(k, 1, Len(key)) /\ Len(key) < KeyMod /\ (Len(k) - Len(key)) % KeyMod = 0

(* It says nothing else.                                                    *)
LEMMA StoredUnderDef ==
  StoredUnder <=>
    (OnlyMade => \A key \in DOMAIN store : \E n \in 1 .. turn : StoredFrom(n, key, store[key]))
  BY DEF StoredUnder, OnlyMade, StoredFrom, GivenTo

(* The rest of a division is the same again behind a multiple.              *)
LEMMA RestOfRest ==
  ASSUME NEW x \in Nat, NEW m \in Nat \ {0}, NEW r, r = x % m
  PROVE  (x - r) % m = 0
  OBVIOUS

(* The write a client waits for to be answered.                             *)
LEMMA WriteBody ==
  ASSUME PathInv, OwnInv, OnlyMade, Waits, args.command = "write",
         NEW k, k = gen_str(args.key), NEW v, v = gen_str(args.value),
         NEW body, body = sent["client"].data
  PROVE  /\ k \in Seq(Units) /\ v \in Seq(Units)
         /\ k \in GivenTo(turn, "-key") /\ v \in GivenTo(turn, "-value")
         /\ \A key_len \in KeyLens(body) :
              /\ KeyIn(body, key_len) = SubSeq(k, 1, KeyLenOf(k))
              /\ \A value_len \in ValueLens(body) : ValueIn(body, key_len, value_len) = v
         /\ work[turn].body = Made
  <1>1. /\ proc = "talk" /\ parse = "parsed" /\ turn \in 1 .. Len(work) /\ argv = work[turn].argv
        /\ work[turn].body = Made
    <2>1. proc = "talk"
      BY DEF OwnInv, Talking, Waits
    <2>2. turn \in 1 .. Len(work) /\ parse = "parsed"
      BY <2>1 DEF PathInv, PathTypes
    <2>3. turn \in DOMAIN work
      <3>1. work \in Seq([argv : Seq(DOMAIN Chars), body : {Made} \cup Seq(Units)])
        BY WorksAssumption DEF PathInv, PathTypes
      <3> QED
        BY <2>2, <3>1, LenProperties
    <2> QED
      BY <2>1, <2>2, <2>3 DEF OwnInv, OwnLine, OnlyMade
  <1>2. NoBase \notin {args.key, args.value}
    BY <1>1 DEF OwnInv, LineGives
  <1>3. /\ args.key \in DOMAIN Chars /\ k = Chars[args.key]
        /\ args.value \in DOMAIN Chars /\ v = Chars[args.value]
    BY <1>2 DEF PathInv, LineTypes, ArgsTypes, gen_str
  <1>4. k \in Seq(Units) /\ v \in Seq(Units) /\ Len(v) < ValueMod
    BY <1>3, CharsAssumption
  <1>5. k \in GivenTo(turn, "-key") /\ v \in GivenTo(turn, "-value")
    <2>1. Follows(args.key, "-key") /\ Follows(args.value, "-value")
      BY <1>2 DEF OwnInv, LineGives
    <2>2. ASSUME NEW base, NEW option, Follows(base, option)
          PROVE  Chars[base] \in GivenTo(turn, option)
      <3>1. PICK l \in 4 .. argc - 1 : argv[l] = option /\ base = argv[l + 1]
        BY <2>2 DEF Follows
      <3>2. l \in {m \in 4 .. Len(work[turn].argv) - 1 : work[turn].argv[m] = option}
        BY <1>1, <3>1 DEF argc
      <3> QED
        BY <1>1, <3>1, <3>2 DEF GivenTo
    <2> QED
      BY <1>3, <2>1, <2>2
  <1>6. body = Make(k, v) /\ body # NULL
    BY <1>1 DEF OwnInv, AsksOwn, BodyOf
  <1>7. ValueLenOf(v) = Len(v) /\ Len(v) \in Nat
    <2>1. Len(v) \in Nat /\ ValueMod \in Nat
      BY <1>4, LenProperties, MaxValueAssumption
    <2>2. ValueMod \in Nat \ {0}
      BY <1>4, <2>1
    <2> QED
      BY <1>4, <2>1, <2>2, ReducedLength DEF ValueLenOf
  <1>8. ValueLenOf(v) <= MaxValue
    BY <1>6, <1>7, MaxValueAssumption DEF Make
  <1>9. /\ KeyLens(body) = {KeyLenOf(k)} /\ ValueLens(body) = {ValueLenOf(v)}
        /\ KeyIn(body, KeyLenOf(k)) = SubSeq(k, 1, KeyLenOf(k))
        /\ ValueIn(body, KeyLenOf(k), ValueLenOf(v)) = SubSeq(v, 1, ValueLenOf(v))
    BY <1>4, <1>6, <1>8, MakeParses
  <1>10. SubSeq(v, 1, Len(v)) = v
    BY <1>4, SubSeqFull
  <1> QED
    BY <1>1, <1>4, <1>5, <1>7, <1>9, <1>10

(* A key is stored under as many characters as its byte says.               *)
LEMMA KeyStored ==
  ASSUME NEW k \in Seq(Units), NEW key, key = SubSeq(k, 1, KeyLenOf(k))
  PROVE  /\ key = SubSeq(k, 1, Len(key)) /\ Len(key) < KeyMod
         /\ (Len(k) - Len(key)) % KeyMod = 0
         /\ Len(k) < KeyMod => key = k
  <1>1. Len(k) \in Nat /\ KeyMod \in Nat \ {0}
    BY LenProperties, KeyModAssumption
  <1>2. /\ KeyLenOf(k) \in 0 .. Len(k) /\ KeyLenOf(k) < KeyMod
        /\ Len(k) < KeyMod => KeyLenOf(k) = Len(k)
    BY <1>1, ReducedLength DEF KeyLenOf
  <1>3. Len(key) = KeyLenOf(k)
    <2>1. \A i \in 1 .. KeyLenOf(k) : k[i] \in Units
      BY <1>1, <1>2, ElementOfSeq
    <2>2. 1 \in Int /\ KeyLenOf(k) \in Int
      BY <1>2
    <2>3. Len(key) = IF 1 <= KeyLenOf(k) THEN KeyLenOf(k) - 1 + 1 ELSE 0
      BY <2>1, <2>2, SubSeqProperties
    <2> QED
      BY <1>2, <2>3
  <1>4. (Len(k) - KeyLenOf(k)) % KeyMod = 0
    <2>1. KeyLenOf(k) = Len(k) % KeyMod
      BY DEF KeyLenOf
    <2>2. PICK r : r = KeyLenOf(k)
      OBVIOUS
    <2>3. r = Len(k) % KeyMod
      BY <2>1, <2>2
    <2>4. (Len(k) - r) % KeyMod = 0
      BY <1>1, <2>3, RestOfRest
    <2> QED
      BY <2>2, <2>4, Zenon
  <1>5. SubSeq(k, 1, Len(k)) = k
    BY SubSeqFull
  <1> QED
    BY <1>2, <1>3, <1>4, <1>5

(* A handler that adds a key to the store has been asked to by the running   *)
(* process.                                                                 *)
LEMMA HandleAdds ==
  ASSUME PathInv, OwnInv, OnlyMade, Handle
  PROVE  /\ Waits /\ Answering'
         /\ \A key \in DOMAIN store : key \in DOMAIN store' /\ store'[key] = store[key]
         /\ \A key \in DOMAIN store' \ DOMAIN store :
              /\ args.command = "write" /\ sent'["server"].header.status = "Ok" /\ serving'
              /\ key = SubSeq(gen_str(args.key), 1, KeyLenOf(gen_str(args.key)))
              /\ store'[key] = gen_str(args.value)
  <1>1. /\ StreamTypes /\ Asked
    BY ReadyIsAsked DEF Handle, PathInv, StreamInv
  <1>2. PICK request \in Messages : request = taken["server"] /\ request = sent["client"]
    BY <1>1 DEF Asked
  <1>3. PICK a \in Answers(request.header.method, request.data) :
          SendHead("server", Response(request, a.status, a.data)) /\ store' = a.store
    BY <1>2 DEF Handle
  <1>4. PICK msg : msg = Response(request, a.status, a.data)
    OBVIOUS
  <1>5. sent'["server"] = msg /\ msg.header.status = a.status
    <2>1. sent'["server"] = msg
      BY <1>1, <1>3, <1>4 DEF SendHead, StreamTypes, Ends
    <2>2. msg.header.status = a.status
      BY <1>2, <1>4 DEF Response, Messages, Headers
    <2> QED
      BY <2>1, <2>2
  <1>6. Waits
    BY <1>1 DEF Asked, Waits, Late
  <1>7. Answering'
    BY HandleKeeps
  <1>8. request.header.method \in Commands
    BY DEF Messages, Headers
  <1>9. \A key \in DOMAIN store : key \in DOMAIN store' /\ store'[key] = store[key]
    BY <1>3, <1>8, AnswersKeep
  <1>10. ASSUME NEW key \in DOMAIN store' \ DOMAIN store
         PROVE  /\ args.command = "write" /\ a.status = "Ok" /\ serving'
                /\ key = SubSeq(gen_str(args.key), 1, KeyLenOf(gen_str(args.key)))
                /\ store'[key] = gen_str(args.value)
    <2>1. PICK s : s = store'
      OBVIOUS
    <2>2. /\ request.header.method = "write" /\ a.status = "Ok"
          /\ \E key_len \in KeyLens(request.data), value_len \in ValueLens(request.data) :
               /\ key = KeyIn(request.data, key_len)
               /\ s[key] = ValueIn(request.data, key_len, value_len)
      BY <1>3, <1>8, <1>10, <2>1, AnswersKeep
    <2>3. args.command = "write"
      BY <1>2, <1>6, <2>2 DEF OwnInv, AsksOwn
    <2>4. PICK k, v : k = gen_str(args.key) /\ v = gen_str(args.value)
      OBVIOUS
    <2>5. \A key_len \in KeyLens(request.data), value_len \in ValueLens(request.data) :
            /\ KeyIn(request.data, key_len) = SubSeq(k, 1, KeyLenOf(k))
            /\ ValueIn(request.data, key_len, value_len) = v
      BY <1>2, <1>6, <2>3, <2>4, WriteBody
    <2>6. serving'
      BY <1>2, <2>2 DEF Handle
    <2> QED
      BY <2>1, <2>2, <2>3, <2>4, <2>5, <2>6
  <1> QED
    BY <1>5, <1>6, <1>7, <1>9, <1>10

(* While nothing is cut short, the client gets its answer.                  *)
LEMMA AnsweringHeard ==
  ASSUME StreamTypes, Answering, shorts = 0
  PROVE  ~BothWait
  <1> SUFFICES ASSUME BothWait PROVE FALSE
    OBVIOUS
  <1> USE EndsFacts
  <1>1. /\ Reading("client") /\ Len(buf["client"]) < Wanted("client") /\ wire["client"] = <<>>
        /\ stage["server"] # "send_body"
    BY DEF BothWait, Reading
  <1> DEFINE msg == sent["server"]
             b == Base("client")
             w == Wanted("client")
  <1>2. PICK l \in 0 .. Length(msg) : Coming("client", l) /\ Wrote("server", msg, l)
    BY DEF Answering, Hears
  <1>3. l = Length(msg)
    BY <1>1, <1>2 DEF Wrote
  <1>4. /\ b \in Nat /\ w \in Nat /\ b + w <= Length(msg) /\ Length(msg) \in Nat
    BY <1>1, <1>2, ComingFacts, WholeProperties
  <1>5. PICK a \in 0 .. Length(msg) :
          /\ a \in b .. l /\ a <= b + w
          /\ Len(buf["client"]) = a - b /\ Len(wire["client"]) = l - a
    BY <1>1, <1>2, ComingFacts
  <1>6. l - a = 0
    BY <1>1, <1>5, EmptySeq
  <1> HIDE DEF msg, b, w
  <1>7. a = Length(msg) /\ a - b = w
    BY <1>3, <1>4, <1>5, <1>6
  <1> QED
    BY <1>1, <1>4, <1>5, <1>7 DEF w

(* What has been handled stays so until the client has its answer.          *)
LEMMA PendingKeeps ==
  ASSUME PathInv, OwnInv, [Next]_vars, NEW key, Pending(key), shorts = 0, store' = store,
         ~(ClientGetsOn /\ stage'["client"] = "ready")
  PROVE  Pending(key)'
  <1> USE EndsFacts
  <1>1. StreamInv /\ StreamTypes /\ Answering
    BY DEF PathInv, StreamInv, Pending
  <1>2. /\ stage["client"] \in {"send_body", "mark", "header", "body"}
        /\ stage["server"] \in {"send_body", "mark"} /\ serving
    BY DEF Pending, Answering, Hears, Awaits, Reading, Late
  <1>3. proc = "talk"
    BY <1>2 DEF OwnInv, Talking
  <1>4. ASSUME Answering', serving', sent' = sent, UNCHANGED lineVars
        PROVE  Pending(key)'
    BY <1>4 DEF Pending, lineVars, gen_str
  <1>5. CASE ClientGetsOn
    <2>1. Answering' /\ sent' = sent
      <3>1. CASE SendBody("client")
        BY <1>1, <3>1, ClientBodyKeeps DEF SendBody
      <3>2. CASE Receive("client")
        BY <1>1, <1>5, <3>2, ClientReceives, ReceiveFrame
      <3> QED
        BY <1>5, <3>1, <3>2 DEF ClientGetsOn
    <2> QED
      BY <1>2, <1>4, <1>5, <2>1 DEF ClientGetsOn
  <1>6. CASE ServerGetsOn
    <2>1. Answering' /\ sent' = sent
      <3>1. CASE SendBody("server")
        BY <1>1, <3>1, ServerBodyKeeps DEF SendBody
      <3>2. CASE Receive("server")
        BY <1>1, <3>2, ServerReceives
      <3> QED
        BY <1>6, <3>1, <3>2 DEF ServerGetsOn
    <2> QED
      BY <1>2, <1>4, <1>6, <2>1 DEF ServerGetsOn, pathVars
  <1>7. ~Handle /\ ~ServerCloses
    BY <1>2 DEF Handle, ServerCloses
  <1>8. ~GiveUp
    BY <1>1, <1>2, AnsweringHeard DEF GiveUp
  <1>9. /\ ~Start /\ ~Parse /\ ~Connect /\ ~Return
        /\ ~SendRequest /\ ~CrashOnNull /\ ~Close /\ ~NextTurn
    BY <1>2, <1>3
       DEF Start, Parse, Connect, Return, SendRequest, SendHead, CrashOnNull, Close,
           NextTurn, Over
  <1>10. CASE UNCHANGED vars
    <2>1. Answering'
      <3>1. \A l : Coming("client", l) => Coming("client", l)'
        BY <1>10, ComingKept DEF vars, streamVars
      <3>2. \A l : Hears(l) => Hears(l)'
        BY <1>10, <3>1 DEF Hears, Awaits, Reading, Late, vars, streamVars
      <3> QED
        BY <1>1, <1>10, <3>2
           DEF Answering, Quiet, Matches, Fits, Wrote, vars, streamVars, pathVars
    <2> QED
      BY <1>2, <1>4, <1>10, <2>1 DEF vars, pathVars, streamVars
  <1> QED
    BY <1>5, <1>6, <1>7, <1>8, <1>9, <1>10 DEF Next, Client, Server, Finished

-----------------------------------------------------------------------------
(* What is read *)

(* A sequence with one more element.                                        *)
LEMMA OneMore ==
  ASSUME NEW S, NEW s \in Seq(S), NEW x \in S, NEW t, t = Append(s, x), NEW len, len = Len(s)
  PROVE  /\ t \in Seq(S) /\ len \in Nat /\ DOMAIN s = 1 .. len /\ DOMAIN t = 1 .. len + 1
         /\ t[len + 1] = x /\ \A m \in 1 .. len : t[m] = s[m]
  BY AppendProperties, LenProperties

(* Nothing uncuts a write.                                                  *)
LEMMA ShortsGrow ==
  ASSUME PathInv, [Next]_vars, shorts' = 0
  PROVE  shorts = 0
  <1> USE EndsFacts
  <1>1. StreamTypes /\ shorts \in Nat
    BY ShortsAssumption DEF PathInv, StreamInv, StreamTypes
  <1>2. ASSUME NEW e \in Ends, NEW msg,
               SendHead(e, msg) \/ SendBody(e) \/ Receive(e) \/ Closed(e)
        PROVE  shorts = 0
    <2>1. CASE Receive(e)
      BY <1>1, <2>1, ReceiveFrame
    <2>2. CASE Closed(e)
      BY <2>2 DEF Closed
    <2>3. ASSUME NEW units, NEW n, Stores(e, units, n)
          PROVE  shorts = 0
      BY <1>1, <2>3 DEF Stores
    <2> QED
      BY <1>2, <2>1, <2>2, <2>3 DEF SendHead, SendBody
  <1>3. CASE Client
    BY <1>2, <1>3
       DEF Client, Start, Parse, Connect, Return, SendRequest, CrashOnNull, ClientGetsOn,
           Close, GiveUp, NextTurn, Opened, streamVars
  <1>4. CASE Server
    BY <1>2, <1>4 DEF Server, Handle, ServerGetsOn, ServerCloses
  <1> QED
    BY <1>3, <1>4 DEF Next, Finished, vars, streamVars

(* The client takes an answer, and a record of it is made.                  *)
LEMMA ClientTakes ==
  ASSUME PathInv, OwnInv, ClientGetsOn, stage'["client"] = "ready", NEW len, len = Len(answers)
  PROVE  /\ Waits /\ Fits /\ UNCHANGED <<sent, store, work, turn, lineVars>>
         /\ len \in Nat /\ DOMAIN answers = 1 .. len /\ DOMAIN answers' = 1 .. len + 1
         /\ \A m \in 1 .. len : answers'[m] = answers[m]
         /\ answers'[len + 1] = [turn |-> turn, method |-> args.command, key |-> gen_str(args.key),
                                 value |-> gen_str(args.value),
                                 status |-> sent["server"].header.status,
                                 data |-> sent["server"].data]
         /\ AnswersTyped'
  <1> USE EndsFacts
  <1>1. StreamInv /\ StreamTypes /\ LineTypes /\ PathTypes /\ AnswersTyped
    BY DEF PathInv, StreamInv, OwnInv
  <1>2. Receive("client") /\ ~SendBody("client") /\ stage["client"] # "ready"
    <2>1. ~SendBody("client")
      BY <1>1 DEF SendBody, StreamTypes
    <2>2. Receive("client")
      BY <2>1 DEF ClientGetsOn
    <2> QED
      BY <1>1, <2>1, <2>2, ReceiveFrame DEF Reading
  <1>3. sent' = sent /\ Waits /\ UNCHANGED <<store, work, turn, lineVars>>
    BY <1>1, <1>2, ReceiveFrame DEF Waits, Reading, ClientGetsOn
  <1>4. Matches' /\ taken'["client"] = sent'["server"]
    BY <1>1, <1>2, <1>3, ClientReceives
  <1>5. Fits /\ sent["server"] \in Messages
    BY <1>3, <1>4 DEF Matches, Fits
  <1> DEFINE r == [turn |-> turn, method |-> args.command, key |-> gen_str(args.key),
                   value |-> gen_str(args.value), status |-> sent["server"].header.status,
                   data |-> sent["server"].data]
  <1>6. answers' = Append(answers, r)
    BY <1>2, <1>3, <1>4 DEF ClientGetsOn
  <1>7. r \in AnswerRecords
    <2>1. turn \in Nat
      BY <1>1 DEF PathTypes
    <2>2. args.command \in Commands
      BY <1>1 DEF ClientGetsOn, PathTypes, LineTypes
    <2>3. gen_str(args.key) \in Seq(Units) /\ gen_str(args.value) \in Seq(Units)
      BY <1>1, StringTypes DEF LineTypes, ArgsTypes
    <2>4. /\ sent["server"].header.status \in {"Ok", "BadArg", "NotFound"}
          /\ sent["server"].data \in Seq(Units)
      BY <1>5 DEF Messages, Headers
    <2> QED
      BY <2>1, <2>2, <2>3, <2>4 DEF AnswerRecords
  <1> HIDE DEF r
  <1>8. /\ answers' \in Seq(AnswerRecords) /\ len \in Nat /\ DOMAIN answers = 1 .. len
        /\ DOMAIN answers' = 1 .. len + 1
        /\ answers'[len + 1] = r /\ \A m \in 1 .. len : answers'[m] = answers[m]
    BY <1>1, <1>6, <1>7, OneMore DEF AnswersTyped
  <1> QED
    BY <1>3, <1>5, <1>8 DEF r, AnswersTyped

(* What it then knows of the store.                                         *)
LEMMA TakenIsStored ==
  ASSUME PathInv, OwnInv, OnlyMade, Waits, Fits, NEW k, k = gen_str(args.key)
  PROVE  /\ args.command = "read" /\ k \in DOMAIN store =>
              sent["server"].header.status = "Ok" /\ sent["server"].data = store[k]
         /\ args.command = "write" /\ sent["server"].header.status = "Ok" /\ Len(k) < KeyMod =>
              k \in DOMAIN store
  <1>1. sent["client"].header.method = args.command /\ sent["client"].data = BodyOf(args.command)
    BY DEF OwnInv, AsksOwn
  <1>2. CASE args.command = "read"
    <2>1. work[turn].body = Made
      <3>1. proc = "talk" /\ turn \in 1 .. Len(work)
        BY DEF OwnInv, Talking, Waits, PathInv, PathTypes
      <3>2. work \in Seq([argv : Seq(DOMAIN Chars), body : {Made} \cup Seq(Units)])
        BY WorksAssumption DEF PathInv, PathTypes
      <3>3. turn \in DOMAIN work
        BY <3>1, <3>2, LenProperties
      <3> QED
        BY <3>3 DEF OnlyMade
    <2>2. sent["client"].data = k
      BY <1>1, <1>2, <2>1 DEF BodyOf
    <2> QED
      BY <1>1, <1>2, <2>2 DEF Fits
  <1>3. CASE args.command = "write" /\ sent["server"].header.status = "Ok" /\ Len(k) < KeyMod
    <2>1. PICK v, body : v = gen_str(args.value) /\ body = sent["client"].data
      OBVIOUS
    <2>2. PICK key_len \in KeyLens(body) : KeyIn(body, key_len) \in DOMAIN store
      BY <1>1, <1>3, <2>1 DEF Fits
    <2>3. k \in Seq(Units) /\ KeyIn(body, key_len) = SubSeq(k, 1, KeyLenOf(k))
      BY <1>3, <2>1, WriteBody
    <2>4. KeyIn(body, key_len) = k
      BY <1>3, <2>3, KeyStored
    <2> QED
      BY <1>3, <2>2, <2>4
  <1> QED
    BY <1>2, <1>3

(* Of steps that neither handle a request nor take an answer.               *)
LEMMA OtherSteps ==
  ASSUME PathInv, [Next]_vars, ~Handle, ~(ClientGetsOn /\ stage'["client"] = "ready")
  PROVE  store' = store /\ answers' = answers /\ work' = work /\ turn' \in {turn, turn + 1}
  <1>1. CASE ClientGetsOn
    BY <1>1 DEF ClientGetsOn
  <1>2. CASE Client /\ ~ClientGetsOn
    BY <1>2
       DEF Client, Start, Parse, Connect, Return, SendRequest, CrashOnNull, Close, GiveUp,
           NextTurn
  <1>3. CASE Server
    BY <1>3 DEF Server, ServerGetsOn, ServerCloses, pathVars
  <1> QED
    BY <1>1, <1>2, <1>3 DEF Next, Finished, vars, pathVars

(* What is stored of a command line is under what it has given.             *)
LEMMA StoredUnderKeeps ==
  ASSUME PathInv, OwnInv, StoredUnder, [Next]_vars
  PROVE  StoredUnder'
  <1> DEFINE Holds == \A key \in DOMAIN store : \E n \in 1 .. turn : StoredFrom(n, key, store[key])
  <1>1. ASSUME work' = work, NEW n, NEW key, NEW value, StoredFrom(n, key, value)
        PROVE  StoredFrom(n, key, value)'
    BY <1>1 DEF StoredFrom, GivenTo
  <1>2. turn \in Nat
    BY DEF PathInv, PathTypes
  <1>3. ASSUME work' = work, OnlyMade' PROVE Holds
    BY <1>3, StoredUnderDef DEF OnlyMade
  <1>4. CASE Handle
    <2> SUFFICES ASSUME OnlyMade', NEW key \in DOMAIN store'
                 PROVE  \E n \in 1 .. turn' : StoredFrom(n, key, store[key])'
      BY DEF StoredUnder, OnlyMade, StoredFrom, GivenTo
    <2>1. work' = work /\ turn' = turn /\ OnlyMade
      BY <1>4 DEF Handle, OnlyMade
    <2>2. CASE key \in DOMAIN store
      <3>1. PICK n \in 1 .. turn : StoredFrom(n, key, store[key])
        BY <1>3, <2>1, <2>2
      <3>2. store'[key] = store[key]
        BY <1>4, <2>1, <2>2, HandleAdds
      <3> QED
        BY <1>1, <2>1, <3>1, <3>2
    <2>3. CASE key \notin DOMAIN store
      <3>1. PICK k, v : k = gen_str(args.key) /\ v = gen_str(args.value)
        OBVIOUS
      <3>2. /\ Waits /\ args.command = "write"
            /\ key = SubSeq(k, 1, KeyLenOf(k)) /\ store'[key] = v
        BY <1>4, <2>1, <2>3, <3>1, HandleAdds
      <3>3. k \in Seq(Units) /\ k \in GivenTo(turn, "-key") /\ v \in GivenTo(turn, "-value")
        BY <2>1, <3>1, <3>2, WriteBody
      <3>4. /\ key = SubSeq(k, 1, Len(key)) /\ Len(key) < KeyMod
            /\ (Len(k) - Len(key)) % KeyMod = 0
        BY <3>2, <3>3, KeyStored
      <3>5. StoredFrom(turn, key, v)
        BY <3>3, <3>4 DEF StoredFrom
      <3>6. turn \in 1 .. turn
        BY <1>2 DEF PathInv, PathTypes
      <3> QED
        BY <1>1, <2>1, <3>2, <3>5, <3>6
    <2> QED
      BY <2>2, <2>3
  <1>5. CASE ~Handle
    <2>1. store' = store /\ work' = work /\ turn' \in {turn, turn + 1}
      <3>1. CASE ClientGetsOn
        BY <3>1 DEF ClientGetsOn
      <3> QED
        BY <1>5, <3>1, OtherSteps
    <2> SUFFICES ASSUME OnlyMade', NEW key \in DOMAIN store'
                 PROVE  \E n \in 1 .. turn' : StoredFrom(n, key, store[key])'
      BY DEF StoredUnder, OnlyMade, StoredFrom, GivenTo
    <2>2. PICK n \in 1 .. turn : StoredFrom(n, key, store[key])
      BY <1>3, <2>1
    <2>3. n \in 1 .. turn'
      BY <1>2, <2>1
    <2> QED
      BY <1>1, <2>1, <2>2, <2>3
  <1> QED
    BY <1>4, <1>5

(* A write that is answered with "Ok" has its key in the store.             *)
LEMMA AcknowledgedKeeps ==
  ASSUME PathInv, OwnInv, Acknowledged, [Next]_vars
  PROVE  Acknowledged'
  <1>1. CASE ClientGetsOn /\ stage'["client"] = "ready"
    <2>1. PICK len : len = Len(answers)
      OBVIOUS
    <2>2. PICK k : k = gen_str(args.key)
      OBVIOUS
    <2>3. /\ Waits /\ Fits /\ store' = store /\ work' = work /\ len \in Nat
          /\ DOMAIN answers = 1 .. len /\ DOMAIN answers' = 1 .. len + 1
          /\ \A m \in 1 .. len : answers'[m] = answers[m]
          /\ answers'[len + 1].method = args.command /\ answers'[len + 1].key = k
          /\ answers'[len + 1].status = sent["server"].header.status
      BY <1>1, <2>1, <2>2, ClientTakes
    <2> SUFFICES ASSUME OnlyMade', ShortKeys', NEW m \in DOMAIN answers',
                        answers'[m].method = "write", answers'[m].status = "Ok"
                 PROVE  answers'[m].key \in DOMAIN store
      BY <2>3 DEF Acknowledged
    <2>4. OnlyMade /\ ShortKeys
      BY <2>3 DEF OnlyMade, ShortKeys
    <2>5. CASE m \in 1 .. len
      BY <2>3, <2>4, <2>5 DEF Acknowledged
    <2>6. CASE m = len + 1
      <3>1. Len(k) < KeyMod
        BY <2>3, <2>6 DEF ShortKeys
      <3> QED
        BY <2>2, <2>3, <2>4, <2>6, <3>1, TakenIsStored
    <2> QED
      BY <2>3, <2>5, <2>6
  <1>2. CASE Handle
    <2>1. answers' = answers /\ work' = work
      BY <1>2 DEF Handle
    <2>2. OnlyMade => \A key \in DOMAIN store : key \in DOMAIN store'
      BY <1>2, HandleAdds
    <2> QED
      BY <2>1, <2>2 DEF Acknowledged, OnlyMade, ShortKeys
  <1>3. CASE ~Handle /\ ~(ClientGetsOn /\ stage'["client"] = "ready")
    BY <1>3, OtherSteps DEF Acknowledged, OnlyMade, ShortKeys
  <1> QED
    BY <1>1, <1>2, <1>3

(* Until a write is cut short, the value of a key is that of its first      *)
(* acknowledged write, or of one whose answer the client waits for.         *)
LEMMA FirstKeptKeeps ==
  ASSUME PathInv, OwnInv, Acknowledged, FirstKept, [Next]_vars
  PROVE  FirstKept'
  <1>1. CASE ClientGetsOn /\ stage'["client"] = "ready"
    <2>1. PICK len, k, v : len = Len(answers) /\ k = gen_str(args.key) /\ v = gen_str(args.value)
      OBVIOUS
    <2>2. /\ Waits /\ store' = store /\ work' = work /\ len \in Nat
          /\ DOMAIN answers = 1 .. len /\ DOMAIN answers' = 1 .. len + 1
          /\ \A m \in 1 .. len : answers'[m] = answers[m]
          /\ answers'[len + 1].method = args.command
          /\ answers'[len + 1].key = k /\ answers'[len + 1].value = v
          /\ answers'[len + 1].status = sent["server"].header.status
      BY <1>1, <2>1, ClientTakes
    <2> SUFFICES ASSUME OnlyMade', ShortKeys', shorts' = 0, NEW key \in DOMAIN store
                 PROVE  \E m \in DOMAIN answers' : First(m, key)' /\ store[key] = answers'[m].value
      BY <2>2 DEF FirstKept
    <2>3. OnlyMade /\ ShortKeys /\ shorts = 0
      BY <2>2, ShortsGrow DEF OnlyMade, ShortKeys
    <2>4. \A m \in 1 .. len : WroteIt(m, key)' <=> WroteIt(m, key)
      BY <2>2 DEF WroteIt
    <2>5. CASE \E m \in DOMAIN answers : First(m, key) /\ store[key] = answers[m].value
      <3>1. PICK m \in 1 .. len : First(m, key) /\ store[key] = answers[m].value
        BY <2>2, <2>5
      <3>2. First(m, key)'
        BY <2>2, <2>4, <3>1 DEF First
      <3> QED
        BY <2>2, <3>1, <3>2
    <2>6. CASE Pending(key) /\ \A m \in DOMAIN answers : ~WroteIt(m, key)
      <3>1. /\ args.command = "write" /\ sent["server"].header.status = "Ok"
            /\ key = SubSeq(k, 1, KeyLenOf(k)) /\ store[key] = v
        BY <2>1, <2>6 DEF Pending
      <3>2. k \in Seq(Units)
        BY <2>1, <2>2, <2>3, <3>1, WriteBody
      <3>3. Len(k) < KeyMod
        BY <2>2, <3>1 DEF ShortKeys
      <3>4. key = k
        BY <3>1, <3>2, <3>3, KeyStored
      <3>5. First(len + 1, key)'
        BY <2>2, <2>4, <2>6, <3>1, <3>4 DEF First, WroteIt
      <3> QED
        BY <2>2, <3>1, <3>5
    <2> QED
      BY <2>3, <2>5, <2>6 DEF FirstKept
  <1>2. CASE Handle
    <2> SUFFICES ASSUME OnlyMade', ShortKeys', shorts' = 0, NEW key \in DOMAIN store'
                 PROVE  \/ \E m \in DOMAIN answers' :
                             First(m, key)' /\ store'[key] = answers'[m].value
                        \/ Pending(key)' /\ \A m \in DOMAIN answers' : ~WroteIt(m, key)'
      BY DEF FirstKept
    <2>1. answers' = answers /\ work' = work /\ UNCHANGED lineVars
      BY <1>2 DEF Handle
    <2>2. OnlyMade /\ ShortKeys /\ shorts = 0
      BY <2>1, ShortsGrow DEF OnlyMade, ShortKeys
    <2>3. /\ \A m : WroteIt(m, key)' <=> WroteIt(m, key)
          /\ \A m : First(m, key) => First(m, key)'
      BY <2>1 DEF WroteIt, First
    <2>4. CASE key \in DOMAIN store
      <3>1. store'[key] = store[key]
        BY <1>2, <2>2, <2>4, HandleAdds
      <3>2. ~Pending(key)
        BY <1>2 DEF Handle, Pending, Answering
      <3> QED
        BY <2>1, <2>2, <2>3, <2>4, <3>1, <3>2 DEF FirstKept
    <2>5. CASE key \notin DOMAIN store
      <3>1. /\ Answering' /\ serving' /\ args.command = "write"
            /\ sent'["server"].header.status = "Ok"
            /\ key = SubSeq(gen_str(args.key), 1, KeyLenOf(gen_str(args.key)))
            /\ store'[key] = gen_str(args.value)
        BY <1>2, <2>2, <2>5, HandleAdds
      <3>2. Pending(key)'
        BY <2>1, <3>1 DEF Pending, lineVars, gen_str
      <3>3. \A m \in DOMAIN answers : ~WroteIt(m, key)
        BY <2>2, <2>5 DEF Acknowledged, WroteIt
      <3> QED
        BY <2>1, <2>3, <3>2, <3>3
    <2> QED
      BY <2>4, <2>5
  <1>3. CASE ~Handle /\ ~(ClientGetsOn /\ stage'["client"] = "ready")
    <2>1. answers' = answers /\ work' = work /\ store' = store
      BY <1>3, OtherSteps
    <2>2. shorts' = 0 => shorts = 0
      BY ShortsGrow
    <2>3. shorts = 0 => \A key : Pending(key) => Pending(key)'
      BY <1>3, <2>1, PendingKeeps
    <2>4. \A m, key : (WroteIt(m, key)' <=> WroteIt(m, key)) /\ (First(m, key) => First(m, key)')
      BY <2>1 DEF WroteIt, First
    <2> QED
      BY <2>1, <2>2, <2>3, <2>4 DEF FirstKept, OnlyMade, ShortKeys
  <1> QED
    BY <1>1, <1>2, <1>3

(* What is read is what was written first.                                  *)
LEMMA ReadsFirstKeeps ==
  ASSUME PathInv, OwnInv, Acknowledged, FirstKept, ReadsFirst, [Next]_vars
  PROVE  ReadsFirst'
  <1>1. CASE ClientGetsOn /\ stage'["client"] = "ready"
    <2>1. PICK len, k : len = Len(answers) /\ k = gen_str(args.key)
      OBVIOUS
    <2>2. /\ Waits /\ Fits /\ work' = work /\ len \in Nat
          /\ DOMAIN answers = 1 .. len /\ DOMAIN answers' = 1 .. len + 1
          /\ \A m \in 1 .. len : answers'[m] = answers[m]
          /\ answers'[len + 1].method = args.command /\ answers'[len + 1].key = k
          /\ answers'[len + 1].status = sent["server"].header.status
          /\ answers'[len + 1].data = sent["server"].data
      BY <1>1, <2>1, ClientTakes
    <2>3. /\ \A m \in 1 .. len : \A key : WroteIt(m, key)' <=> WroteIt(m, key)
          /\ \A m \in 1 .. len : \A key : First(m, key) => First(m, key)'
      BY <2>2 DEF WroteIt, First
    <2> SUFFICES ASSUME OnlyMade', ShortKeys', NEW n \in DOMAIN answers',
                        answers'[n].method = "read",
                        \E m \in 1 .. n - 1 : WroteIt(m, answers[n].key)'
                 PROVE  /\ answers'[n].status = "Ok"
                        /\ shorts' = 0 =>
                             \E m \in 1 .. n - 1 : /\ First(m, answers[n].key)'
                                                   /\ answers'[n].data = answers'[m].value
      BY DEF ReadsFirst
    <2>4. OnlyMade /\ ShortKeys /\ (shorts' = 0 => shorts = 0)
      BY <2>2, ShortsGrow DEF OnlyMade, ShortKeys
    <2>5. CASE n \in 1 .. len
      <3>1. answers'[n] = answers[n] /\ \A m \in 1 .. n - 1 : m \in 1 .. len
        BY <2>2, <2>5
      <3>2. \E m \in 1 .. n - 1 : WroteIt(m, answers[n].key)
        BY <2>3, <3>1 DEF WroteIt
      <3>3. /\ answers[n].status = "Ok"
            /\ shorts = 0 => \E m \in 1 .. n - 1 : /\ First(m, answers[n].key)
                                                   /\ answers[n].data = answers[m].value
        BY <2>2, <2>4, <2>5, <3>1, <3>2 DEF ReadsFirst
      <3>4. PICK key : key = answers[n].key /\ key = answers'[n].key
        BY <3>1
      <3>5. shorts' = 0 => \E m \in 1 .. n - 1 : /\ First(m, key)'
                                                /\ answers'[n].data = answers'[m].value
        BY <2>2, <2>3, <2>4, <3>1, <3>3, <3>4
      <3> QED
        BY <3>1, <3>3, <3>4, <3>5 DEF First, WroteIt
    <2>6. CASE n = len + 1
      <3>1. args.command = "read" /\ \A m \in 1 .. n - 1 : m \in 1 .. len
        BY <2>2, <2>6
      <3>2. PICK m \in 1 .. len : WroteIt(m, k)
        BY <2>2, <2>3, <2>6, <3>1 DEF WroteIt
      <3>3. k \in DOMAIN store
        BY <2>2, <2>4, <3>2 DEF Acknowledged, WroteIt
      <3>4. sent["server"].header.status = "Ok" /\ sent["server"].data = store[k]
        BY <2>1, <2>2, <2>4, <3>1, <3>3, TakenIsStored
      <3>5. shorts = 0 => \E l \in 1 .. len : First(l, k) /\ store[k] = answers[l].value
        BY <2>2, <2>4, <3>1, <3>3 DEF FirstKept, Pending
      <3>6. shorts' = 0 => \E l \in 1 .. len : First(l, k)' /\ store[k] = answers'[l].value
        BY <2>2, <2>3, <2>4, <3>5
      <3>7. answers'[n].key = k /\ n - 1 = len
        BY <2>2, <2>6
      <3> QED
        BY <2>2, <2>6, <3>4, <3>6, <3>7 DEF First, WroteIt
    <2> QED
      BY <2>2, <2>5, <2>6
  <1>2. CASE ~(ClientGetsOn /\ stage'["client"] = "ready")
    <2>1. answers' = answers /\ work' = work
      <3>1. CASE Handle
        BY <3>1 DEF Handle
      <3> QED
        BY <1>2, <3>1, OtherSteps
    <2>2. shorts' = 0 => shorts = 0
      BY ShortsGrow
    <2> QED
      BY <2>1, <2>2 DEF ReadsFirst, OnlyMade, ShortKeys, First, WroteIt
  <1> QED
    BY <1>1, <1>2

(* The records of answers are what they should be.                          *)
LEMMA AnswersKeepTypes ==
  ASSUME PathInv, OwnInv, [Next]_vars
  PROVE  AnswersTyped'
  <1>1. CASE ClientGetsOn /\ stage'["client"] = "ready"
    BY <1>1, ClientTakes
  <1>2. CASE ~(ClientGetsOn /\ stage'["client"] = "ready")
    <2>1. answers' = answers
      <3>1. CASE Handle
        BY <3>1 DEF Handle
      <3> QED
        BY <1>2, <3>1, OtherSteps
    <2> QED
      BY <2>1 DEF OwnInv, AnswersTyped
  <1> QED
    BY <1>1, <1>2

(* In the beginning nothing is asked, stored or answered.                   *)
LEMMA InitStore == Init => OwnInv /\ StoreInv
  <1> SUFFICES ASSUME Init PROVE OwnInv /\ StoreInv
    OBVIOUS
  <1> USE DEF Init, LineInit, StreamInit
  <1>1. DOMAIN store = {} /\ DOMAIN answers = {} /\ AnswersTyped
    BY EmptySeq DEF AnswersTyped
  <1>2. OwnInv
    BY <1>1 DEF OwnInv, Talking, OwnLine, LineGives, AsksOwn, Waits, DefaultArgs, Ends
  <1>3. StoreInv
    BY <1>1 DEF StoreInv, StoredUnder, Acknowledged, FirstKept, ReadsFirst
  <1> QED
    BY <1>2, <1>3

(* What is written, stored and read, on every path of requests.             *)
LEMMA StoreInvariance == Spec => [](OwnInv /\ StoreInv)
  <1>1. PathInv /\ OwnInv /\ StoreInv /\ [Next]_vars => (OwnInv /\ StoreInv)'
    <2> SUFFICES ASSUME PathInv, OwnInv, StoreInv, [Next]_vars
                 PROVE  (OwnInv /\ StoreInv)'
      OBVIOUS
    <2>1. OwnInv'
      BY OwnKeeps, AsksKeeps, AnswersKeepTypes DEF OwnInv
    <2>2. StoreInv'
      BY StoredUnderKeeps, AcknowledgedKeeps, FirstKeptKeeps, ReadsFirstKeeps
         DEF StoreInv
    <2> QED
      BY <2>1, <2>2
  <1> QED
    BY <1>1, InitStore, Invariance, PTL DEF Spec

(* The keystore holds values of command lines under keys of theirs, cut to  *)
(* what one byte says of the length: client.cc, Make, FromBody, DoWrite.    *)
THEOREM StoredUnderCorrect == Spec => []StoredUnder
  <1>1. StoreInv => StoredUnder
    BY DEF StoreInv
  <1> QED
    BY <1>1, StoreInvariance, PTL

(* A read finds the first acknowledged write of its key, from one client    *)
(* process to another: DoWrite, DoRead, and all there is between.           *)
THEOREM WrittenIsReadCorrect == Spec => []WrittenIsRead
  <1>1. OwnInv /\ StoreInv => WrittenIsRead
    <2> SUFFICES ASSUME OwnInv, StoreInv, ShortKeys, OnlyMade, NEW n \in DOMAIN answers,
                        answers[n].method = "read",
                        {m \in 1 .. n - 1 : WroteIt(m, answers[n].key)} # {}
                 PROVE  LET before == {m \in 1 .. n - 1 : WroteIt(m, answers[n].key)}
                        IN  /\ answers[n].status = "Ok"
                            /\ shorts = 0 => answers[n].data = answers[CHOOSE m \in before :
                                                            \A l \in before : m <= l].value
      BY DEF WrittenIsRead, OnlyMade
    <2> DEFINE key == answers[n].key
               before == {m \in 1 .. n - 1 : WroteIt(m, key)}
    <2>1. n \in Nat
      BY LenProperties DEF OwnInv, AnswersTyped
    <2>2. /\ answers[n].status = "Ok"
          /\ shorts = 0 => \E m \in 1 .. n - 1 : First(m, key) /\ answers[n].data = answers[m].value
      BY DEF StoreInv, ReadsFirst
    <2>3. ASSUME NEW m \in 1 .. n - 1, First(m, key)
          PROVE  m = CHOOSE x \in before : \A l \in before : x <= l
      <3>1. m \in before /\ \A l \in before : m <= l
        <4>1. \A l \in before : l \in 1 .. n - 1 /\ l \notin 1 .. m - 1
          BY <2>3 DEF First
        <4> QED
          BY <2>1, <2>3, <4>1 DEF First
      <3>2. \A x \in before : (\A l \in before : x <= l) => x = m
        BY <2>1, <3>1
      <3> QED
        BY <3>1, <3>2
    <2> QED
      BY <2>2, <2>3
  <1> QED
    BY <1>1, StoreInvariance, PTL
=============================================================================
