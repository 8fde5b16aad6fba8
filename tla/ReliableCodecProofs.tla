------------------------ MODULE ReliableCodecProofs ------------------------
(***************************************************************************)
(* What ReliableCodec keeps true for every base and width of the length    *)
(* field, all payloads and limits, and however the stream is cut.          *)
(***************************************************************************)
EXTENDS ReliableCodec, DataFacts

Item == [channel : Bytes, payload : Seq(Bytes)]

(* What follows the length field of a frame.                               *)
Body(p) == <<ChannelId>> \o p

(* ahead[i] are the bytes of the frames behind the i-th.                   *)
Stream(ahead) ==
  /\ ahead \in [0..Len(sent) -> Seq(Bytes)]
  /\ ahead[Len(sent)] = <<>>
  /\ \A i \in 0..(Len(sent) - 1) : ahead[i] = Encode(sent[i + 1]) \o ahead[i + 1]

(* The bytes of the length that the decoder has read already.              *)
Header == IF state = <<>> THEN <<>> ELSE PutUint(state[1])

HistoryInv == items \in Seq(Item) /\ sent \in Seq(Payloads)

(* No byte is lost or out of its place: what was read of a frame, what is  *)
(* in the buffer and what is on the stream are the frames that were sent   *)
(* and not decoded yet.                                                    *)
StreamInv ==
  \E ahead : Stream(ahead) /\ Header \o (src \o wire) = ahead[Len(items)]

(* The frames decoded so far are the first ones that were sent.            *)
PrefixInv ==
  /\ Len(items) <= Len(sent)
  /\ \A i \in 1..Len(items) : items[i] = [channel |-> ChannelId, payload |-> sent[i]]

AcceptedInv == \A i \in 1..Len(sent) : Len(sent[i]) <= MaxSent

(* The length that was read is that of the next frame. *)
HeadInv ==
  state # <<>> => /\ Len(items) < Len(sent)
                  /\ state = <<1 + Len(sent[Len(items) + 1])>>

(* The decoder waits only for bytes that it needs, and ends with none. *)
WaitInv ==
  /\ reader \in {"read", "ended"} =>
       IF state = <<>> THEN Len(src) < HeaderLen ELSE Len(src) < state[1]
  /\ reader = "ended" => finished /\ wire = <<>> /\ src = <<>>

(* The inductive invariant. *)
IInv ==
  /\ TypeOK
  /\ HistoryInv
  /\ StreamInv
  /\ PrefixInv
  /\ AcceptedInv
  /\ HeadInv
  /\ WaitInv
  /\ FailsOnlyIfTooLong

-----------------------------------------------------------------------------
(* Numbers as digits.                                                      *)

(* The powers of the base. *)
LEMMA Powers ==
  /\ Power \in [0..LengthFieldLen -> Nat \ {0}]
  /\ Power[0] = 1
  /\ \A k \in 1..LengthFieldLen : Power[k] = Base * Power[k - 1]
<1> DEFINE L == LengthFieldLen
           T == Nat \ {0}
           next == [k \in 1..L |-> [x \in T |-> Base * x]]
           IsPower(f) == f = [k \in 0..L |-> IF k = 0 THEN 1 ELSE Base * f[k - 1]]
<1>1. L \in Nat /\ Base \in Nat \ {0, 1}
  BY LengthAssumption, BytesAssumption
<1>2. \A x \in T : Base * x \in T
  BY <1>1
<1>3. next \in [1..L -> [T -> T]] /\ \A k \in 1..L, x \in T : next[k][x] = Base * x
  BY <1>2
<1>4. 1 \in T
  OBVIOUS
<1> HIDE DEF next, T
<1>5. PICK f \in [0..L -> T] : f[0] = 1 /\ \A k \in 1..L : f[k] = next[k][f[k - 1]]
  BY <1>1, <1>3, <1>4, Recursion
<1>6. \A k \in 0..L : k # 0 => k - 1 \in 0..L /\ k \in 1..L
  BY <1>1
<1>7. IsPower(f)
  <2> DEFINE t == [k \in 0..L |-> IF k = 0 THEN 1 ELSE Base * f[k - 1]]
  <2>1. \A k \in 0..L : f[k] = t[k]
    BY <1>3, <1>5, <1>6
  <2>2. f = t
    BY <1>5, <2>1
  <2> QED
    BY <2>2
<1> HIDE DEF IsPower
<1>8. IsPower(Power)
  <2>1. Power = CHOOSE g : IsPower(g)
    BY DEF Power, IsPower
  <2> QED
    BY <1>7, <2>1
<1>9. /\ DOMAIN Power = 0..L /\ Power[0] = 1
      /\ \A k \in 1..L : Power[k] = Base * Power[k - 1]
  BY <1>1, <1>8 DEF IsPower
<1>10. Power = [k \in 0..L |-> Power[k]]
  BY <1>8 DEF IsPower
<1> DEFINE S == {k \in Nat : k <= L => Power[k] \in T}
<1>11. Nat \subseteq S
  <2>1. 0 \in S
    BY <1>4, <1>9
  <2>2. ASSUME NEW k \in Nat, k \in S PROVE k + 1 \in S
    <3> SUFFICES ASSUME k + 1 <= L PROVE Power[k + 1] \in T
      OBVIOUS
    <3>1. Power[k + 1] = Base * Power[k]
      BY <1>1, <1>9
    <3>2. Power[k] \in T
      BY <1>1, <2>2
    <3> QED
      BY <1>2, <3>1, <3>2
  <2> HIDE DEF S
  <2> QED
    BY <2>1, <2>2, Induction
<1>12. \A k \in 0..L : Power[k] \in T
  BY <1>1, <1>11
<1> QED
  BY <1>1, <1>9, <1>10, <1>12 DEF T

(* The length of a frame fits its field, and is read as it was written.    *)
LEMMA PutUintType ==
  ASSUME NEW n \in Nat
  PROVE  PutUint(n) \in Seq(Bytes) /\ Len(PutUint(n)) = LengthFieldLen
<1>1. LengthFieldLen \in Nat /\ Base \in Nat \ {0}
  BY LengthAssumption, BytesAssumption
<1>2. \A i \in 1..LengthFieldLen : (n \div Power[LengthFieldLen - i]) % Base \in Bytes
  <2> SUFFICES ASSUME NEW i \in 1..LengthFieldLen
               PROVE  (n \div Power[LengthFieldLen - i]) % Base \in Bytes
    OBVIOUS
  <2>1. Power[LengthFieldLen - i] \in Nat \ {0}
    BY <1>1, Powers
  <2> DEFINE d == Power[LengthFieldLen - i]
  <2> HIDE DEF d
  <2>2. n \div d \in Nat
    BY <2>1 DEF d
  <2> QED
    BY <1>1, <2>2 DEF Bytes, d
<1>3. PutUint(n) \in [1..LengthFieldLen -> Bytes]
  BY <1>2 DEF PutUint
<1> QED
  BY <1>1, <1>3, LenProperties, IsASeq

(* A digit joins what was read before it to a number that is as much       *)
(* longer.                                                                 *)
LEMMA OneDigit ==
  ASSUME NEW n \in Nat, NEW d \in Nat \ {0}, NEW before, NEW digit,
         before = n \div (Base * d), digit = (n \div d) % Base
  PROVE  before * Base + digit = n \div d
<1> DEFINE q == n \div d
<1>1. Base \in Nat \ {0} /\ q \in Nat
  BY BytesAssumption, Division
<1>2. before = q \div Base /\ digit = q % Base
  BY <1>1, DivisionTwice
<1> HIDE DEF q
<1> DEFINE s == q \div Base
           r == q % Base
<1>3. q = Base * s + r /\ r \in 0..(Base - 1) /\ s \in Nat
  BY <1>1, Division, Zenon
<1> HIDE DEF s, r
<1>4. r \in Nat
  BY <1>1, <1>3
<1>5. s * Base + r = q
  BY <1>1, <1>3, <1>4
<1>6. before = s /\ digit = r
  BY <1>2 DEF s, r
<1>7. before * Base + digit = q
  BY <1>5, <1>6
<1> QED
  BY <1>7 DEF q

LEMMA RoundTrip ==
  ASSUME NEW n \in Nat, n < Power[LengthFieldLen]
  PROVE  GetUint(PutUint(n)) = n
<1> DEFINE L == LengthFieldLen
           bytes == PutUint(n)
           T == Int
           next == [k \in 1..L |-> [x \in T |-> x * Base + bytes[k]]]
           IsRead(f) ==
             f = [k \in 0..Len(bytes) |-> IF k = 0 THEN 0 ELSE f[k - 1] * Base + bytes[k]]
<1>1. L \in Nat /\ Base \in Nat \ {0, 1}
  BY LengthAssumption, BytesAssumption
<1>2. /\ bytes \in Seq(Bytes) /\ Len(bytes) = L
      /\ \A k \in 1..L : bytes[k] = (n \div Power[L - k]) % Base
  BY PutUintType DEF PutUint
<1>3. 0 \in T /\ \A k \in 1..L : bytes[k] \in T
  BY <1>1, <1>2, ElementOfSeq DEF Bytes
<1> HIDE DEF bytes
<1>4. next \in [1..L -> [T -> T]] /\ \A k \in 1..L, x \in T : next[k][x] = x * Base + bytes[k]
  BY <1>1, <1>3
<1> HIDE DEF next, T
<1>5. PICK f \in [0..L -> T] : f[0] = 0 /\ \A k \in 1..L : f[k] = next[k][f[k - 1]]
  BY <1>1, <1>3, <1>4, Recursion
<1>6. \A k \in 0..L : k # 0 => k - 1 \in 0..L /\ k \in 1..L
  BY <1>1
<1>7. IsRead(f)
  <2> DEFINE t == [k \in 0..Len(bytes) |-> IF k = 0 THEN 0 ELSE f[k - 1] * Base + bytes[k]]
  <2>1. \A k \in 0..L : f[k] = t[k]
    BY <1>2, <1>4, <1>5, <1>6
  <2>2. f = t
    BY <1>2, <1>5, <2>1
  <2> QED
    BY <2>2
<1> HIDE DEF IsRead
<1> DEFINE g == CHOOSE h : IsRead(h)
<1>8. IsRead(g)
  BY <1>7
<1>9. GetUint(bytes) = g[L]
  BY <1>2 DEF GetUint, IsRead
<1> HIDE DEF g
<1>10. g[0] = 0 /\ \A k \in 1..L : g[k] = g[k - 1] * Base + bytes[k]
  BY <1>1, <1>2, <1>8 DEF IsRead
<1> DEFINE S == {k \in Nat : k <= L => g[k] = n \div Power[L - k]}
<1>11. Nat \subseteq S
  <2>1. 0 \in S
    <3>1. n < Power[L] /\ Power[L] \in Nat
      BY <1>1, Powers
    <3>2. n \div Power[L] = 0
      BY <3>1
    <3> QED
      BY <1>1, <1>10, <3>2
  <2>2. ASSUME NEW k \in Nat, k \in S PROVE k + 1 \in S
    <3> SUFFICES ASSUME k + 1 <= L PROVE g[k + 1] = n \div Power[L - (k + 1)]
      OBVIOUS
    <3> DEFINE d == Power[L - (k + 1)]
    <3>1. d \in Nat \ {0} /\ Power[L - k] = Base * d
      BY <1>1, Powers
    <3>2. g[k] = n \div (Base * d)
      BY <1>1, <2>2, <3>1
    <3>3. bytes[k + 1] = (n \div d) % Base
      BY <1>1, <1>2
    <3>4. g[k + 1] = g[k] * Base + bytes[k + 1]
      BY <1>1, <1>10
    <3> HIDE DEF d
    <3>5. g[k] * Base + bytes[k + 1] = n \div d
      BY <3>1, <3>2, <3>3, OneDigit, SMTT(30)
    <3> QED
      BY <3>4, <3>5 DEF d
  <2> HIDE DEF S
  <2> QED
    BY <2>1, <2>2, Induction
<1>12. g[L] = n \div Power[0]
  BY <1>1, <1>11
<1>13. n \div 1 = n
  OBVIOUS
<1> QED
  BY <1>1, <1>9, <1>12, <1>13, Powers DEF bytes
-----------------------------------------------------------------------------
(* Frames in a sequence of bytes.                                          *)

(* Where two ways to cut a sequence agree on the first piece's length.     *)
Pieces(s, n, x, y) == x = SubSeq(s, 1, n) /\ y = SubSeq(s, n + 1, Len(s))

TwoCuts(S, s, w, a, b) ==
  /\ s \in Seq(S) /\ w \in Seq(S) /\ a \in Seq(S) /\ b \in Seq(S)
  /\ s \o w = a \o b
  /\ Len(a) <= Len(s)

LEMMA SplitFront ==
  ASSUME NEW S, NEW s, NEW w, NEW a, NEW b, TwoCuts(S, s, w, a, b),
         NEW x, NEW y, Pieces(s, Len(a), x, y)
  PROVE  x = a /\ y \in Seq(S) /\ y \o w = b
<1> USE DEF TwoCuts, Pieces
<1>1. /\ Len(a) \in Nat /\ Len(s) \in Nat
      /\ \A i \in 1..Len(s) : s[i] \in S
  BY LenProperties, ElementOfSeq
<1>2. x \in Seq(S) /\ Len(x) = Len(a) /\ \A i \in 1..Len(a) : x[i] = s[i]
  <2>1. \A i \in 1..Len(a) : s[i] \in S
    BY <1>1
  <2>2. /\ x \in Seq(S)
        /\ Len(x) = IF 1 <= Len(a) THEN Len(a) - 1 + 1 ELSE 0
        /\ \A i \in 1..(Len(a) - 1 + 1) : x[i] = s[1 + i - 1]
    BY <1>1, <2>1, SubSeqProperties
  <2> QED
    BY <1>1, <2>2
<1>3. y \in Seq(S)
  <2>1. \A i \in (Len(a) + 1)..Len(s) : s[i] \in S
    BY <1>1
  <2> QED
    BY <1>1, <2>1, SubSeqProperties
<1>4. s = x \o y
  <2>1. x \o y = SubSeq(s, 1, Len(s))
    <3>1. /\ 1 \in 1..(Len(s) + 1)
          /\ Len(a) \in (1 - 1)..Len(s)
          /\ Len(s) \in Len(a)..Len(s)
      BY <1>1
    <3> QED
      BY <3>1, ConcatAdjacentSubSeq
  <2> QED
    BY <2>1, SubSeqFull
<1>5. x = a
  <2>1. \A i \in 1..Len(a) : x[i] = a[i]
    <3> SUFFICES ASSUME NEW i \in 1..Len(a) PROVE x[i] = a[i]
      OBVIOUS
    <3>1. (s \o w)[i] = s[i] /\ (a \o b)[i] = a[i]
      <4>1. /\ Len(w) \in Nat /\ Len(b) \in Nat
            /\ i \in 1..(Len(s) + Len(w)) /\ i \in 1..(Len(a) + Len(b))
            /\ i <= Len(s) /\ i <= Len(a)
        BY <1>1, LenProperties
      <4> QED
        BY <4>1, ConcatProperties
    <3> QED
      BY <1>2, <3>1
  <2> QED
    BY <1>2, <2>1, SeqEqual
<1>6. a \o (y \o w) = a \o b
  <2>1. s = a \o y
    BY <1>4, <1>5
  <2>2. a \in Seq(S) /\ w \in Seq(S)
    OBVIOUS
  <2>3. s \o w = a \o (y \o w)
    BY ONLY <1>3, <2>1, <2>2, Regroup, SMTT(30)
  <2> QED
    BY <2>3
<1>7. y \o w \in Seq(S)
  BY <1>3, ConcatProperties
<1>8. y \o w = b
  BY <1>6, <1>7, ConcatSimplifications
<1> QED
  BY <1>3, <1>5, <1>8

LEMMA FrameFacts ==
  ASSUME NEW p \in Payloads
  PROVE  /\ p \in Seq(Bytes) /\ Len(p) \in Nat
         /\ Body(p) \in Seq(Bytes) /\ Len(Body(p)) = 1 + Len(p)
         /\ Body(p) # <<>> /\ Head(Body(p)) = ChannelId /\ Tail(Body(p)) = p
         /\ PutUint(1 + Len(p)) \in Seq(Bytes)
         /\ Len(PutUint(1 + Len(p))) = LengthFieldLen
         /\ Encode(p) = PutUint(1 + Len(p)) \o Body(p)
         /\ Encode(p) \in Seq(Bytes)
<1> DEFINE l == PutUint(1 + Len(p))
           c == <<ChannelId>>
<1>1. p \in Seq(Bytes) /\ Len(p) \in Nat
  BY PayloadsAssumption, LenProperties
<1>2. l \in Seq(Bytes) /\ Len(l) = LengthFieldLen
  BY <1>1, PutUintType
<1>3. c \in Seq(Bytes) /\ Len(c) = 1
  BY BytesAssumption
<1>4. Body(p) \in Seq(Bytes) /\ Len(Body(p)) = 1 + Len(p)
  BY <1>1, <1>3, ConcatProperties DEF Body
<1>5. Encode(p) = l \o Body(p)
  <2>1. Encode(p) = l \o c \o p
    BY DEF Encode
  <2> HIDE DEF l, c
  <2> QED
    BY <1>1, <1>2, <1>3, <2>1, ConcatAssociative DEF Body, c
<1>6. Encode(p) \in Seq(Bytes)
  BY <1>2, <1>4, <1>5, ConcatProperties
<1>7. Body(p) # <<>> /\ Head(Body(p)) = ChannelId /\ Tail(Body(p)) = p
  BY <1>1, BytesAssumption DEF Body
<1> QED
  BY <1>1, <1>2, <1>4, <1>5, <1>6, <1>7

(* The payload that is to be decoded next. *)
Due == sent[Len(items) + 1]

(* What the bytes that are not decoded begin with.                         *)
LEMMA NextFrame ==
  ASSUME TypeOK, HistoryInv, PrefixInv, HeadInv, NEW ahead, Stream(ahead),
         Header \o (src \o wire) = ahead[Len(items)]
  PROVE  /\ state # <<>> =>
              /\ Len(items) < Len(sent) /\ state = <<1 + Len(Due)>>
              /\ src \o wire = Body(Due) \o ahead[Len(items) + 1]
         /\ state = <<>> /\ Len(items) < Len(sent) =>
              src \o wire = PutUint(1 + Len(Due)) \o (Body(Due) \o ahead[Len(items) + 1])
         /\ state = <<>> /\ Len(items) = Len(sent) => src \o wire = <<>>
         /\ Len(items) < Len(sent) =>
              /\ Due \in Payloads /\ ahead[Len(items) + 1] \in Seq(Bytes)
              /\ ahead[Len(items)] =
                   PutUint(1 + Len(Due)) \o (Body(Due) \o ahead[Len(items) + 1])
<1>1. Len(items) \in Nat /\ Len(sent) \in Nat /\ Len(items) <= Len(sent)
  BY LenProperties DEF HistoryInv, PrefixInv
<1>2. src \o wire \in Seq(Bytes)
  BY ConcatProperties DEF TypeOK
<1>3. ASSUME Len(items) < Len(sent)
      PROVE  /\ Due \in Payloads /\ ahead[Len(items) + 1] \in Seq(Bytes)
             /\ ahead[Len(items)] =
                  PutUint(1 + Len(Due)) \o (Body(Due) \o ahead[Len(items) + 1])
  <2>1. Due \in Payloads
    BY <1>1, <1>3, ElementOfSeq DEF Due, HistoryInv
  <2>2. ahead[Len(items) + 1] \in Seq(Bytes)
    <3>1. Len(items) + 1 \in 0..Len(sent)
      BY <1>1, <1>3
    <3> QED
      BY <3>1 DEF Stream
  <2>3. ahead[Len(items)] = Encode(Due) \o ahead[Len(items) + 1]
    <3>1. Len(items) \in 0..(Len(sent) - 1)
      BY <1>1, <1>3
    <3> QED
      BY <3>1 DEF Stream, Due
  <2> DEFINE l == PutUint(1 + Len(Due))
             b == Body(Due)
             t == ahead[Len(items) + 1]
  <2>4. Encode(Due) = l \o b /\ l \in Seq(Bytes) /\ b \in Seq(Bytes)
    BY <2>1, FrameFacts
  <2> HIDE DEF l, b, t
  <2>5. t \in Seq(Bytes)
    BY <2>2 DEF t
  <2>6. ahead[Len(items)] = l \o (b \o t)
    <3>1. ahead[Len(items)] = Encode(Due) \o t
      BY <2>3 DEF t
    <3>2. Encode(Due) \o t = l \o (b \o t)
      BY ONLY <2>4, <2>5, Regroup
    <3> QED
      BY <3>1, <3>2
  <2> QED
    BY <2>1, <2>2, <2>6 DEF l, b, t
<1>4. state = <<>> => Header \o (src \o wire) = src \o wire
  BY <1>2, ConcatEmptySeq DEF Header
<1>5. state = <<>> /\ Len(items) = Len(sent) => src \o wire = <<>>
  BY <1>4 DEF Stream
<1>6. ASSUME state # <<>>
      PROVE  /\ Len(items) < Len(sent) /\ state = <<1 + Len(Due)>>
             /\ src \o wire = Body(Due) \o ahead[Len(items) + 1]
  <2>1. Len(items) < Len(sent) /\ state = <<1 + Len(Due)>>
    BY <1>6 DEF HeadInv, Due
  <2>2. Header = PutUint(1 + Len(Due))
    BY <2>1 DEF Header
  <2> DEFINE l == PutUint(1 + Len(Due))
             b == Body(Due) \o ahead[Len(items) + 1]
             r == src \o wire
  <2>3. l \in Seq(Bytes) /\ b \in Seq(Bytes)
    BY <1>3, <2>1, FrameFacts, ConcatProperties
  <2>4. l \o r = l \o b
    BY <1>3, <2>1, <2>2
  <2>5. r \in Seq(Bytes)
    BY <1>2
  <2> HIDE DEF l, b, r
  <2>6. r = b
    BY <2>3, <2>4, <2>5, ConcatSimplifications
  <2> QED
    BY <2>1, <2>6 DEF b, r
<1> QED
  BY <1>3, <1>4, <1>5, <1>6

(* A decoder that waits while no bytes are left has decoded everything.    *)
LEMMA Drained ==
  ASSUME IInv, reader \in {"read", "ended"}, wire = <<>>
  PROVE  src = <<>> /\ Len(items) = Len(sent)
<1>1. PICK ahead : Stream(ahead) /\ Header \o (src \o wire) = ahead[Len(items)]
  BY DEF IInv, StreamInv
<1>2. src \o wire = src /\ src \in Seq(Bytes) /\ Len(src) \in Nat
  BY ConcatEmptySeq, LenProperties DEF IInv, TypeOK
<1>3. Len(items) \in Nat /\ Len(sent) \in Nat /\ Len(items) <= Len(sent)
  BY LenProperties DEF IInv, HistoryInv, PrefixInv
<1>4. LengthFieldLen \in Nat
  BY LengthAssumption
<1>5. ASSUME Len(items) < Len(sent) PROVE FALSE
  <2> DEFINE b == Body(Due) \o ahead[Len(items) + 1]
  <2>1. /\ b \in Seq(Bytes) /\ Len(b) \in Nat /\ Len(b) >= 1 + Len(Due)
        /\ Len(Due) \in Nat
        /\ Len(PutUint(1 + Len(Due))) = LengthFieldLen
        /\ PutUint(1 + Len(Due)) \in Seq(Bytes)
    <3>1. Due \in Payloads /\ ahead[Len(items) + 1] \in Seq(Bytes)
      BY <1>1, <1>5, NextFrame DEF IInv
    <3> DEFINE t == ahead[Len(items) + 1]
               f == Body(Due)
    <3>2. /\ f \in Seq(Bytes) /\ Len(f) = 1 + Len(Due) /\ Len(Due) \in Nat
          /\ Len(PutUint(1 + Len(Due))) = LengthFieldLen
          /\ PutUint(1 + Len(Due)) \in Seq(Bytes)
      BY <3>1, FrameFacts
    <3>3. t \in Seq(Bytes) /\ Len(t) \in Nat
      BY <3>1, LenProperties
    <3> HIDE DEF f, t
    <3>4. f \o t \in Seq(Bytes) /\ Len(f \o t) = Len(f) + Len(t)
      BY <3>2, <3>3, ConcatProperties
    <3>5. b = f \o t
      BY DEF f, t
    <3> HIDE DEF b
    <3> QED
      BY <3>2, <3>3, <3>4, <3>5
  <2>2. CASE state = <<>>
    <3>1. src = PutUint(1 + Len(Due)) \o b
      BY <1>1, <1>2, <1>5, <2>2, NextFrame DEF IInv
    <3> HIDE DEF b
    <3>2. Len(src) = LengthFieldLen + Len(b)
      BY <2>1, <3>1, ConcatProperties
    <3> QED
      BY <1>4, <2>1, <2>2, <3>2 DEF IInv, WaitInv, HeaderLen
  <2>3. CASE state # <<>>
    <3>1. src = b /\ state = <<1 + Len(Due)>>
      BY <1>1, <1>2, <2>3, NextFrame DEF IInv
    <3> HIDE DEF b
    <3>2. Len(src) < 1 + Len(Due)
      BY <2>3, <3>1 DEF IInv, WaitInv
    <3> QED
      BY <1>2, <2>1, <3>1, <3>2
  <2> QED
    BY <2>2, <2>3
<1>6. Len(items) = Len(sent)
  BY <1>3, <1>5
<1>7. state = <<>>
  BY <1>3, <1>6 DEF IInv, HeadInv
<1> QED
  BY <1>1, <1>2, <1>6, <1>7, NextFrame DEF IInv
-----------------------------------------------------------------------------
(* The steps.                                                              *)

LEMMA HeaderType == TypeOK /\ HeadInv /\ HistoryInv => Header \in Seq(Bytes)
<1> SUFFICES ASSUME TypeOK, HeadInv, HistoryInv PROVE Header \in Seq(Bytes)
  OBVIOUS
<1>1. CASE state = <<>>
  BY <1>1 DEF Header
<1>2. CASE state # <<>>
  <2>1. state[1] \in Nat
    BY <1>2, LimitsAssumption DEF TypeOK
  <2> QED
    BY <1>2, <2>1, PutUintType DEF Header
<1> QED
  BY <1>1, <1>2

LEMMA Lengths ==
  HistoryInv => /\ Len(items) \in Nat /\ DOMAIN items = 1..Len(items)
                /\ Len(sent) \in Nat /\ DOMAIN sent = 1..Len(sent)
BY LenProperties DEF HistoryInv

(* A frame that is sent comes behind all others.                           *)
LEMMA SendStep ==
  ASSUME IInv, NEW p \in Payloads, Send(p)
  PROVE  IInv'
<1> DEFINE n == Len(sent)
           i == Len(items)
           e == Encode(p)
<1>1. /\ n \in Nat /\ i \in Nat /\ i <= n
      /\ sent' = Append(sent, p) /\ sent' \in Seq(Payloads)
      /\ Len(sent') = n + 1 /\ sent'[n + 1] = p
      /\ \A k \in 1..n : sent'[k] = sent[k]
  BY Lengths, AppendProperties DEF IInv, HistoryInv, PrefixInv, Send
<1>2. e \in Seq(Bytes) /\ Len(p) <= MaxSent
  BY FrameFacts DEF Send
<1>3. wire \in Seq(Bytes) /\ src \in Seq(Bytes) /\ wire' = wire \o e
  BY DEF IInv, TypeOK, Send
<1>4. /\ ~finished
      /\ finished' = finished /\ src' = src /\ state' = state
      /\ reader' = reader /\ items' = items
  BY DEF Send
<1>5. PICK ahead : Stream(ahead) /\ Header \o (src \o wire) = ahead[i]
  BY DEF IInv, StreamInv
<1>6. \A k \in 0..n : ahead[k] \in Seq(Bytes)
  BY <1>1, <1>5 DEF Stream
<1> HIDE DEF e
<1>7. PICK next : next = [k \in 0..(n + 1) |-> IF k = n + 1 THEN <<>> ELSE ahead[k] \o e]
  OBVIOUS
<1>8. Stream(next)'
  <2>1. next \in [0..(n + 1) -> Seq(Bytes)]
    <3>1. \A k \in 0..n : ahead[k] \o e \in Seq(Bytes)
      BY <1>2, <1>6, ConcatProperties
    <3>2. \A k \in 0..(n + 1) : k # n + 1 => k \in 0..n
      BY <1>1
    <3>3. <<>> \in Seq(Bytes)
      OBVIOUS
    <3> QED
      BY <1>7, <3>1, <3>2, <3>3
  <2>2. next[n + 1] = <<>>
    BY <1>1, <1>7
  <2>3. ASSUME NEW k \in 0..n PROVE next[k] = Encode(sent'[k + 1]) \o next[k + 1]
    <3>1. next[k] = ahead[k] \o e
      BY <1>1, <1>7
    <3>2. CASE k = n
      <4>1. ahead[k] = <<>>
        BY <1>5, <3>2 DEF Stream
      <4>2. next[k] = e
        BY <1>2, <3>1, <4>1, ConcatEmptySeq
      <4>3. e \o <<>> = e
        BY <1>2, ConcatEmptySeq
      <4> QED
        BY <1>1, <2>2, <3>2, <4>2, <4>3 DEF e
    <3>3. CASE k # n
      <4>1. /\ k \in 0..(n - 1) /\ k + 1 \in 1..n /\ k + 1 \in 0..n
            /\ k + 1 \in 0..(n + 1) /\ k + 1 # n + 1
        BY <1>1, <3>3
      <4> DEFINE f == Encode(sent[k + 1])
                 t == ahead[k + 1]
      <4>2. sent[k + 1] \in Payloads /\ sent'[k + 1] = sent[k + 1]
        BY <1>1, <4>1, ElementOfSeq DEF IInv, HistoryInv
      <4>3. f \in Seq(Bytes) /\ t \in Seq(Bytes)
        BY <1>6, <4>1, <4>2, FrameFacts
      <4>4. ahead[k] = f \o t
        BY <1>5, <4>1 DEF Stream
      <4>5. next[k + 1] = t \o e
        BY <1>7, <4>1
      <4> HIDE DEF f, t
      <4>6. ahead[k] \o e = f \o (t \o e)
        BY ONLY <1>2, <4>3, <4>4, Regroup, SMTT(30)
      <4> QED
        BY <3>1, <4>2, <4>5, <4>6 DEF f
    <3> QED
      BY <3>2, <3>3
  <2>4. (n + 1) - 1 = n
    BY <1>1
  <2> QED
    BY <1>1, <2>1, <2>2, <2>3, <2>4 DEF Stream
<1>9. Header' \o (src' \o wire') = next[i]
  <2> DEFINE h == Header
             r == src \o wire
  <2>1. h \in Seq(Bytes) /\ r \in Seq(Bytes)
    BY <1>3, HeaderType, ConcatProperties DEF IInv
  <2>2. r \o e = src \o (wire \o e)
    BY ONLY <1>2, <1>3, Regroup DEF r
  <2>3. Header' = h
    BY <1>4 DEF Header
  <2>4. i \in 0..(n + 1) /\ i # n + 1
    BY <1>1
  <2>5. next[i] = ahead[i] \o e
    BY <1>7, <2>4
  <2>6. ahead[i] = h \o r
    BY <1>5
  <2> HIDE DEF h, r
  <2>7. ahead[i] \o e = h \o (r \o e)
    BY ONLY <1>2, <2>1, <2>6, Regroup, SMTT(30)
  <2>8. Header' \o (src' \o wire') = h \o (src \o (wire \o e))
    BY <1>3, <1>4, <2>3
  <2> QED
    BY ONLY <2>2, <2>5, <2>7, <2>8
<1>10. StreamInv'
  BY <1>4, <1>8, <1>9 DEF StreamInv
<1>11. TypeOK'
  <2>1. wire' \in Seq(Bytes)
    BY <1>2, <1>3, ConcatProperties
  <2>2. \A k \in DOMAIN sent' : sent'[k] \in Payloads
    BY <1>1, ElementOfSeq, LenProperties
  <2> QED
    BY <1>4, <2>1, <2>2 DEF IInv, TypeOK
<1>12. HistoryInv' /\ PrefixInv' /\ AcceptedInv'
  <2>1. HistoryInv'
    BY <1>1, <1>4 DEF IInv, HistoryInv
  <2>2. PrefixInv'
    BY <1>1, <1>4 DEF IInv, PrefixInv
  <2>3. AcceptedInv'
    <3>1. \A k \in 1..(n + 1) : k # n + 1 => k \in 1..n
      BY <1>1
    <3> QED
      BY <1>1, <1>2, <3>1 DEF IInv, AcceptedInv
  <2> QED
    BY <2>1, <2>2, <2>3
<1>13. HeadInv' /\ WaitInv'
  <2>1. HeadInv'
    <3>1. i < n => i + 1 \in 1..n /\ i < n + 1
      BY <1>1
    <3> QED
      BY <1>1, <1>4, <3>1 DEF IInv, HeadInv
  <2> QED
    BY <1>4, <2>1 DEF IInv, WaitInv
<1>14. FailsOnlyIfTooLong'
  <2>1. DOMAIN sent = 1..n /\ DOMAIN sent' = 1..(n + 1) /\ 1..n \subseteq 1..(n + 1)
    BY <1>1, Lengths, LenProperties DEF IInv
  <2> QED
    BY <1>1, <1>4, <2>1 DEF IInv, FailsOnlyIfTooLong
<1> QED
  BY <1>10, <1>11, <1>12, <1>13, <1>14 DEF IInv

(* What a step that does not send leaves alone.                            *)
LEMMA SentKept ==
  ASSUME HistoryInv, sent' = sent, items' = items, state' = state, reader' = reader
  PROVE  /\ HistoryInv'
         /\ PrefixInv => PrefixInv'
         /\ AcceptedInv => AcceptedInv'
         /\ HeadInv => HeadInv'
         /\ FailsOnlyIfTooLong => FailsOnlyIfTooLong'
         /\ \A ahead : Stream(ahead) => Stream(ahead)'
BY DEF HistoryInv, PrefixInv, AcceptedInv, HeadInv, FailsOnlyIfTooLong, Stream

LEMMA FinishStep ==
  ASSUME IInv, Finish
  PROVE  IInv'
<1>1. /\ sent' = sent /\ items' = items /\ state' = state /\ reader' = reader
      /\ src' = src /\ wire' = wire /\ finished' = TRUE
  BY DEF Finish
<1>2. TypeOK' /\ WaitInv'
  BY <1>1 DEF IInv, TypeOK, WaitInv
<1>3. Header' = Header
  BY <1>1 DEF Header
<1>4. StreamInv'
  BY <1>1, <1>3, SentKept DEF IInv, StreamInv
<1> QED
  BY <1>1, <1>2, <1>4, SentKept DEF IInv

(* Bytes that are read move from the stream to the buffer.                 *)
LEMMA ReadStep ==
  ASSUME IInv, NEW n \in 1..Len(wire), Read(n)
  PROVE  IInv'
<1> DEFINE a == SubSeq(wire, 1, n)
           b == SubSeq(wire, n + 1, Len(wire))
<1>1. /\ sent' = sent /\ items' = items /\ state' = state /\ finished' = finished
      /\ src' = src \o a /\ wire' = b /\ reader = "read" /\ reader' = "decode"
  BY DEF Read
<1>2. wire \in Seq(Bytes) /\ src \in Seq(Bytes) /\ Len(wire) \in Nat
  BY LenProperties DEF IInv, TypeOK
<1>3. a \in Seq(Bytes) /\ b \in Seq(Bytes)
  <2>1. \A k \in 1..Len(wire) : wire[k] \in Bytes
    BY <1>2, ElementOfSeq
  <2>2. /\ \A k \in 1..n : wire[k] \in Bytes
        /\ \A k \in (n + 1)..Len(wire) : wire[k] \in Bytes
    BY <1>2, <2>1
  <2> QED
    BY <1>2, <2>2, SubSeqProperties
<1>4. a \o b = wire
  <2>1. a \o b = SubSeq(wire, 1, Len(wire))
    <3>1. /\ 1 \in 1..(Len(wire) + 1)
          /\ n \in (1 - 1)..Len(wire)
          /\ Len(wire) \in n..Len(wire)
      BY <1>2
    <3> QED
      BY <1>2, <3>1, ConcatAdjacentSubSeq
  <2> QED
    BY <1>2, <2>1, SubSeqFull
<1> HIDE DEF a, b
<1>5. src' \o wire' = src \o wire
  <2>1. src' \o b = src \o (a \o b)
    BY ONLY <1>1, <1>2, <1>3, Regroup, SMTT(30)
  <2> QED
    BY <1>1, <1>4, <2>1
<1>6. TypeOK'
  <2>1. src \o a \in Seq(Bytes)
    BY <1>2, <1>3, ConcatProperties
  <2> QED
    BY <1>1, <1>3, <2>1 DEF IInv, TypeOK
<1>7. Header' = Header
  BY <1>1 DEF Header
<1>8. StreamInv'
  BY <1>1, <1>5, <1>7 DEF IInv, StreamInv, Stream
<1>9. HistoryInv' /\ PrefixInv' /\ AcceptedInv' /\ HeadInv'
  BY <1>1 DEF IInv, HistoryInv, PrefixInv, AcceptedInv, HeadInv
<1>10. WaitInv' /\ FailsOnlyIfTooLong'
  BY <1>1 DEF WaitInv, FailsOnlyIfTooLong
<1> QED
  BY <1>6, <1>8, <1>9, <1>10 DEF IInv

(* The stream ends between two frames.                                     *)
LEMMA ReadEndStep ==
  ASSUME IInv, ReadEnd
  PROVE  IInv'
<1>1. /\ sent' = sent /\ items' = items /\ state' = state /\ finished' = finished
      /\ src' = src /\ wire' = wire /\ wire = <<>> /\ finished /\ reader = "read"
      /\ reader' = IF src = <<>> THEN "ended" ELSE "failed"
  BY DEF ReadEnd
<1>2. src = <<>>
  BY <1>1, Drained
<1>3. reader' = "ended"
  BY <1>1, <1>2
<1>4. TypeOK' /\ WaitInv'
  BY <1>1, <1>2, <1>3 DEF IInv, TypeOK, WaitInv
<1>5. Header' = Header
  BY <1>1 DEF Header
<1>6. StreamInv'
  BY <1>1, <1>5 DEF IInv, StreamInv, Stream
<1>7. HistoryInv' /\ PrefixInv' /\ AcceptedInv' /\ HeadInv'
  BY <1>1 DEF IInv, HistoryInv, PrefixInv, AcceptedInv, HeadInv
<1>8. FailsOnlyIfTooLong'
  BY <1>3 DEF FailsOnlyIfTooLong
<1> QED
  BY <1>4, <1>6, <1>7, <1>8 DEF IInv

(* Once the length of a frame is known the decoder waits for its bytes or  *)
(* makes an item of it.                                                    *)
LEMMA DataStep ==
  ASSUME IInv, NEW ahead, Stream(ahead), Header \o (src \o wire) = ahead[Len(items)],
         Len(items) < Len(sent), NEW rest \in Seq(Bytes),
         rest \o wire = Body(Due) \o ahead[Len(items) + 1],
         1 + Len(Due) <= MaxReceived, DecodeData(1 + Len(Due), rest),
         reader = "decode", wire' = wire, finished' = finished, sent' = sent
  PROVE  IInv'
<1> DEFINE n == 1 + Len(Due)
           i == Len(items)
<1>1. /\ Due \in Payloads /\ ahead[i + 1] \in Seq(Bytes)
      /\ ahead[i] = PutUint(n) \o (Body(Due) \o ahead[i + 1])
  BY NextFrame DEF IInv
<1>2. /\ n \in Nat /\ n \in 0..MaxReceived /\ Len(rest) \in Nat
      /\ i \in Nat /\ Len(sent) \in Nat /\ i < Len(sent)
      /\ Due \in Seq(Bytes) /\ Due = sent[i + 1]
  BY <1>1, FrameFacts, Lengths, LenProperties, LimitsAssumption DEF IInv, Due
<1>3. Stream(ahead)' /\ AcceptedInv'
  BY DEF IInv, Stream, AcceptedInv
<1>4. CASE Len(rest) < n
  <2>1. src' = rest /\ state' = <<n>> /\ reader' = "read" /\ items' = items
    <3>1. ~(Len(rest) >= n)
      BY <1>2, <1>4
    <3> QED
      BY <3>1, Zenon DEF DecodeData
  <2>2. Header' \o (src' \o wire') = ahead[i]
    <3>1. Header' = PutUint(n)
      BY <2>1 DEF Header
    <3>2. src' \o wire' = Body(Due) \o ahead[i + 1]
      BY <2>1
    <3> QED
      BY <1>1, <3>1, <3>2
  <2>3. StreamInv'
    BY <1>3, <2>1, <2>2 DEF StreamInv
  <2>4. HeadInv'
    BY <1>2, <2>1 DEF HeadInv, Due
  <2>5. WaitInv'
    BY <1>4, <2>1 DEF WaitInv
  <2>6. TypeOK'
    BY <1>2, <2>1 DEF IInv, TypeOK
  <2>7. HistoryInv' /\ PrefixInv' /\ FailsOnlyIfTooLong'
    BY <2>1 DEF IInv, HistoryInv, PrefixInv, FailsOnlyIfTooLong
  <2> QED
    BY <1>3, <2>3, <2>4, <2>5, <2>6, <2>7 DEF IInv
<1>5. CASE Len(rest) >= n
  <2> DEFINE b == Body(Due)
             x == SubSeq(rest, n + 1, Len(rest))
             item == [channel |-> ChannelId, payload |-> Due]
  <2>1. /\ b \in Seq(Bytes) /\ Len(b) = n
        /\ b # <<>> /\ Head(b) = ChannelId /\ Tail(b) = Due
    BY <1>1, FrameFacts
  <2>2. wire \in Seq(Bytes)
    BY DEF IInv, TypeOK
  <2>3. SubSeq(rest, 1, n) = b /\ x \in Seq(Bytes) /\ x \o wire = ahead[i + 1]
    <3> DEFINE t == ahead[i + 1]
    <3>1. TwoCuts(Bytes, rest, wire, b, t)
      BY <1>1, <1>2, <1>5, <2>1, <2>2 DEF TwoCuts
    <3> HIDE DEF b, t
    <3> DEFINE y == SubSeq(rest, 1, Len(b))
               z == SubSeq(rest, Len(b) + 1, Len(rest))
    <3>2. SubSeq(rest, 1, n) = y /\ x = z
      BY <2>1
    <3>3. Pieces(rest, Len(b), y, z)
      BY DEF Pieces
    <3> HIDE DEF x, y, z
    <3>4. y = b /\ z \in Seq(Bytes) /\ z \o wire = t
      BY ONLY <3>1, <3>3, SplitFront
    <3> QED
      BY <3>2, <3>4 DEF t
  <2>4. src' = x /\ state' = <<>> /\ Deliver(SubSeq(rest, 1, n))
    <3>1. ~(Len(rest) < n)
      BY <1>2, <1>5
    <3> QED
      BY <3>1, Zenon DEF DecodeData
  <2>5. Deliver(b)
    BY <2>3, <2>4
  <2> HIDE DEF b, x
  <2>6. items' = Append(items, item) /\ reader' = "decode"
    BY <2>1, <2>5 DEF Deliver
  <2>7. item \in Item
    BY <1>2, BytesAssumption DEF Item
  <2> HIDE DEF item
  <2>8. /\ items' \in Seq(Item) /\ Len(items') = i + 1
        /\ DOMAIN items' = 1..(i + 1)
        /\ \A k \in 1..i : items'[k] = items[k]
        /\ items'[i + 1] = item
    BY <2>6, <2>7, AppendIndex, LenProperties DEF IInv, HistoryInv
  <2>9. Header' \o (src' \o wire') = ahead[Len(items')]
    <3>1. Header' = <<>>
      BY <2>4 DEF Header
    <3>2. src' \o wire' = ahead[i + 1]
      BY <2>3, <2>4
    <3>3. <<>> \o ahead[i + 1] = ahead[i + 1]
      BY <1>1, ConcatEmptySeq
    <3> QED
      BY <2>8, <3>1, <3>2, <3>3
  <2>10. StreamInv'
    BY <1>3, <2>9 DEF StreamInv
  <2>11. PrefixInv'
    <3>1. \A k \in 1..(i + 1) : k # i + 1 => k \in 1..i
      BY <1>2
    <3>2. \A k \in 1..i : items[k] = [channel |-> ChannelId, payload |-> sent[k]]
      BY DEF IInv, PrefixInv
    <3>3. \A k \in 1..(i + 1) : items'[k] = [channel |-> ChannelId, payload |-> sent[k]]
      BY <1>2, <2>8, <3>1, <3>2 DEF item
    <3> QED
      BY <1>2, <2>8, <3>3 DEF PrefixInv
  <2>12. TypeOK'
    <3>1. \A k \in 1..(i + 1) : items'[k] \in Item
      BY <2>8, ElementOfSeq
    <3> QED
      BY <2>3, <2>4, <2>6, <2>8, <3>1 DEF IInv, TypeOK, Item
  <2>13. HistoryInv'
    BY <2>8 DEF IInv, HistoryInv
  <2>14. HeadInv' /\ WaitInv' /\ FailsOnlyIfTooLong'
    BY <2>4, <2>6 DEF HeadInv, WaitInv, FailsOnlyIfTooLong
  <2> QED
    BY <1>3, <2>10, <2>11, <2>12, <2>13, <2>14 DEF IInv
<1> QED
  BY <1>2, <1>4, <1>5

LEMMA DecodeStep ==
  ASSUME IInv, Decode
  PROVE  IInv'
<1> DEFINE i == Len(items)
           field == SubSeq(src, 1, LengthFieldLen)
           rest == SubSeq(src, LengthFieldLen + 1, Len(src))
<1>1. reader = "decode" /\ wire' = wire /\ finished' = finished /\ sent' = sent
  BY DEF Decode
<1>2. PICK ahead : Stream(ahead) /\ Header \o (src \o wire) = ahead[i]
  BY DEF IInv, StreamInv
<1>3. src \in Seq(Bytes) /\ Len(src) \in Nat /\ wire \in Seq(Bytes)
  BY LenProperties DEF IInv, TypeOK
<1>4. i \in Nat /\ Len(sent) \in Nat /\ i <= Len(sent)
  BY Lengths DEF IInv, PrefixInv
<1>5. LengthFieldLen \in Nat /\ HeaderLen = LengthFieldLen + 1
  BY LengthAssumption DEF HeaderLen
<1>6. ASSUME state # <<>>, DecodeData(state[1], src) PROVE IInv'
  <2>1. /\ i < Len(sent) /\ state = <<1 + Len(Due)>>
        /\ src \o wire = Body(Due) \o ahead[i + 1]
    BY <1>2, <1>6, NextFrame DEF IInv
  <2>2. 1 + Len(Due) = state[1]
    BY <2>1
  <2>3. 1 + Len(Due) <= MaxReceived
    BY <1>6, <2>2, LimitsAssumption DEF IInv, TypeOK
  <2>4. DecodeData(1 + Len(Due), src)
    BY <1>6, <2>2
  <2> QED
    BY <1>1, <1>2, <1>3, <2>1, <2>3, <2>4, DataStep
<1>7. ASSUME state = <<>>, ~HeadIsThere, reader' = "read", UNCHANGED <<src, state, items>>
      PROVE  IInv'
  <2>1. src' = src /\ state' = state /\ items' = items
    BY <1>7
  <2>2. WaitInv'
    BY <1>3, <1>5, <1>7, <2>1 DEF HeadIsThere, WaitInv
  <2>3. TypeOK'
    BY <1>1, <1>7, <2>1 DEF IInv, TypeOK
  <2>4. Header' = Header
    BY <2>1 DEF Header
  <2>5. StreamInv'
    BY <1>1, <2>1, <2>4 DEF IInv, StreamInv, Stream
  <2>6. HistoryInv' /\ PrefixInv' /\ AcceptedInv' /\ HeadInv'
    BY <1>1, <2>1 DEF IInv, HistoryInv, PrefixInv, AcceptedInv, HeadInv
  <2>7. FailsOnlyIfTooLong'
    BY <1>7 DEF FailsOnlyIfTooLong
  <2> QED
    BY <2>2, <2>3, <2>5, <2>6, <2>7 DEF IInv
<1>8. ASSUME state = <<>>, HeadIsThere
      PROVE  /\ i < Len(sent) /\ Due \in Payloads
             /\ GetUint(field) = 1 + Len(Due)
             /\ rest \in Seq(Bytes)
             /\ rest \o wire = Body(Due) \o ahead[i + 1]
  <2>1. Len(src) > LengthFieldLen
    BY <1>3, <1>5, <1>8 DEF HeadIsThere
  <2>2. i < Len(sent)
    <3>1. CASE i = Len(sent)
      <4>1. src \o wire = <<>>
        BY <1>2, <1>8, <3>1, NextFrame DEF IInv
      <4>2. src = <<>>
        BY <1>3, <4>1, ConcatEqualIffEmpty
      <4> QED
        BY <1>5, <2>1, <4>2
    <3> QED
      BY <1>4, <3>1
  <2> DEFINE l == PutUint(1 + Len(Due))
             t == Body(Due) \o ahead[i + 1]
  <2>3. Due \in Payloads /\ ahead[i + 1] \in Seq(Bytes) /\ src \o wire = l \o t
    BY <1>2, <1>8, <2>2, NextFrame DEF IInv
  <2>4. /\ l \in Seq(Bytes) /\ Len(l) = LengthFieldLen
        /\ Len(Due) \in Nat /\ Body(Due) \in Seq(Bytes)
    BY <2>3, FrameFacts
  <2>5. t \in Seq(Bytes)
    BY <2>3, <2>4, ConcatProperties
  <2>6. Len(Due) <= MaxSent
    BY <1>4, <2>2 DEF IInv, AcceptedInv, Due
  <2>7. GetUint(l) = 1 + Len(Due)
    <3>1. Power[LengthFieldLen] \in Nat /\ 1 + Len(Due) \in Nat
      BY <1>5, <2>4, Powers
    <3>2. 1 + Len(Due) < Power[LengthFieldLen]
      BY <2>4, <2>6, <3>1, LimitsAssumption
    <3> QED
      BY <3>1, <3>2, RoundTrip
  <2> HIDE DEF l, t
  <2>8. Len(l) <= Len(src)
    BY <1>3, <1>5, <2>1, <2>4
  <2>9. field = l /\ rest \in Seq(Bytes) /\ rest \o wire = t
    <3>1. TwoCuts(Bytes, src, wire, l, t)
      BY <1>3, <2>3, <2>4, <2>5, <2>8 DEF TwoCuts
    <3>2. Pieces(src, Len(l), field, rest)
      BY <2>4 DEF Pieces
    <3> HIDE DEF field, rest
    <3> QED
      BY ONLY <3>1, <3>2, SplitFront
  <2> HIDE DEF field, rest
  <2> QED
    BY <2>2, <2>3, <2>7, <2>9 DEF t
<1> HIDE DEF field, rest
<1>9. ASSUME state = <<>>, HeadIsThere, TooLong(GetUint(field)), reader' = "failed",
             UNCHANGED <<src, state, items>>
      PROVE  IInv'
  <2>1. src' = src /\ state' = state /\ items' = items
    BY <1>9
  <2>2. FailsOnlyIfTooLong'
    <3>1. /\ i < Len(sent) /\ Due \in Payloads /\ GetUint(field) = 1 + Len(Due)
          /\ Len(Due) \in Nat
      BY <1>8, <1>9, FrameFacts
    <3>2. i + 1 \in DOMAIN sent
      BY <1>4, <3>1, Lengths DEF IInv
    <3>3. Len(sent[i + 1]) + 1 > MaxReceived
      BY <1>9, <3>1, LimitsAssumption DEF TooLong, Due
    <3> QED
      BY <1>1, <3>2, <3>3 DEF FailsOnlyIfTooLong
  <2>3. TypeOK' /\ WaitInv'
    BY <1>1, <1>9, <2>1 DEF IInv, TypeOK, WaitInv
  <2>4. Header' = Header
    BY <2>1 DEF Header
  <2>5. StreamInv'
    BY <1>1, <2>1, <2>4 DEF IInv, StreamInv, Stream
  <2>6. HistoryInv' /\ PrefixInv' /\ AcceptedInv' /\ HeadInv'
    BY <1>1, <2>1 DEF IInv, HistoryInv, PrefixInv, AcceptedInv, HeadInv
  <2> QED
    BY <2>2, <2>3, <2>5, <2>6 DEF IInv
<1>10. ASSUME state = <<>>, HeadIsThere, ~TooLong(GetUint(field)),
              DecodeData(GetUint(field), rest)
       PROVE  IInv'
  <2>1. /\ i < Len(sent) /\ Due \in Payloads
        /\ GetUint(field) = 1 + Len(Due)
        /\ rest \in Seq(Bytes)
        /\ rest \o wire = Body(Due) \o ahead[i + 1]
    BY <1>8, <1>10
  <2>2. 1 + Len(Due) <= MaxReceived
    <3>1. Len(Due) \in Nat
      BY <2>1, FrameFacts
    <3> QED
      BY <1>10, <2>1, <3>1, LimitsAssumption DEF TooLong
  <2>3. DecodeData(1 + Len(Due), rest)
    BY <1>10, <2>1
  <2> QED
    BY <1>1, <1>2, <2>1, <2>2, <2>3, DataStep
<1> QED
  BY <1>6, <1>7, <1>9, <1>10 DEF Decode, field, rest

LEMMA FramesAreItems ==
  ASSUME HistoryInv
  PROVE  /\ Frames(sent) \in Seq(Item) /\ Len(Frames(sent)) = Len(sent)
         /\ \A k \in 1..Len(sent) :
              Frames(sent)[k] = [channel |-> ChannelId, payload |-> sent[k]]
<1> DEFINE f == Frames(sent)
<1>1. Len(sent) \in Nat /\ DOMAIN sent = 1..Len(sent)
  BY Lengths
<1>2. \A k \in 1..Len(sent) : sent[k] \in Seq(Bytes)
  BY <1>1, PayloadsAssumption, ElementOfSeq DEF HistoryInv
<1>3. f = [k \in 1..Len(sent) |-> [channel |-> ChannelId, payload |-> sent[k]]]
  BY <1>1 DEF Frames
<1>4. f \in [1..Len(sent) -> Item]
  BY <1>2, <1>3, BytesAssumption DEF Item
<1>5. f \in Seq(Item) /\ Len(f) = Len(sent)
  BY <1>1, <1>4, LenProperties, IsASeq
<1> QED
  BY <1>3, <1>5

-----------------------------------------------------------------------------

LEMMA IInvInit == Init => IInv
<1> SUFFICES ASSUME Init PROVE IInv
  OBVIOUS
<1>1. /\ wire = <<>> /\ finished = FALSE /\ src = <<>> /\ state = <<>>
      /\ reader = "decode" /\ items = <<>> /\ sent = <<>>
  BY DEF Init
<1>2. TypeOK /\ HistoryInv
  <2>1. /\ \A S : <<>> \in Seq(S)
        /\ DOMAIN items = {} /\ DOMAIN sent = {}
    BY <1>1
  <2>2. TypeOK
    BY <1>1, <2>1 DEF TypeOK
  <2> QED
    BY <1>1, <2>1, <2>2 DEF HistoryInv
<1>3. PrefixInv /\ AcceptedInv /\ HeadInv /\ WaitInv /\ FailsOnlyIfTooLong
  BY <1>1 DEF PrefixInv, AcceptedInv, HeadInv, WaitInv, FailsOnlyIfTooLong
<1>4. StreamInv
  <2> DEFINE ahead == [k \in 0..0 |-> <<>>]
  <2>1. Stream(ahead)
    BY <1>1 DEF Stream
  <2>2. Header \o (src \o wire) = <<>>
    BY <1>1 DEF Header
  <2>3. ahead[Len(items)] = <<>>
    BY <1>1
  <2> HIDE DEF ahead
  <2> QED
    BY <2>1, <2>2, <2>3 DEF StreamInv
<1> QED
  BY <1>2, <1>3, <1>4 DEF IInv

LEMMA IInvStep == IInv /\ [Next]_vars => IInv'
<1> SUFFICES ASSUME IInv, [Next]_vars PROVE IInv'
  OBVIOUS
<1>1. ASSUME NEW p \in Payloads, Send(p) PROVE IInv'
  BY <1>1, SendStep
<1>2. ASSUME Finish PROVE IInv'
  BY <1>2, FinishStep
<1>3. ASSUME NEW n \in 1..Len(wire), Read(n) PROVE IInv'
  BY <1>3, ReadStep
<1>4. ASSUME ReadEnd PROVE IInv'
  BY <1>4, ReadEndStep
<1>5. ASSUME Decode PROVE IInv'
  BY <1>5, DecodeStep
<1>6. ASSUME UNCHANGED vars PROVE IInv'
  <2>1. /\ sent' = sent /\ items' = items /\ state' = state /\ reader' = reader
        /\ src' = src /\ wire' = wire /\ finished' = finished
    BY <1>6 DEF vars
  <2>2. TypeOK' /\ WaitInv'
    BY <2>1 DEF IInv, TypeOK, WaitInv
  <2>3. Header' = Header
    BY <2>1 DEF Header
  <2>4. StreamInv'
    BY <2>1, <2>3, SentKept DEF IInv, StreamInv
  <2> QED
    BY <2>1, <2>2, <2>4, SentKept DEF IInv
<1> QED
  BY <1>1, <1>2, <1>3, <1>4, <1>5, <1>6 DEF Next

(* The invariant holds in every reachable state. *)
THEOREM Inductive == Spec => []IInv
<1>1. Init => IInv
  BY IInvInit
<1>2. IInv /\ [Next]_vars => IInv'
  BY IInvStep
<1> QED
  BY <1>1, <1>2, PTL DEF Spec

(* The decoder's state is one of the two of DecodeState, its length within *)
(* the limit that decode_head checks.                                      *)
THEOREM TypeCorrect == Spec => []TypeOK
<1>1. IInv => TypeOK
  BY DEF IInv
<1> QED
  BY <1>1, Inductive, PTL

(* Frames are decoded as they were encoded and in their order, for every   *)
(* way in which the reads of the stream cut them: put_uint and get_uint    *)
(* agree, and the length that decode has read survives the next call.      *)
THEOREM DecodedAsSent == Spec => []DecodesWhatWasSent
<1>1. IInv => DecodesWhatWasSent
  <2> SUFFICES ASSUME IInv PROVE DecodesWhatWasSent
    OBVIOUS
  <2> DEFINE n == Len(items)
             f == Frames(sent)
             x == SubSeq(items, 1, n)
             y == SubSeq(f, 1, n)
  <2>1. n \in Nat /\ Len(sent) \in Nat /\ n <= Len(sent) /\ DOMAIN sent = 1..Len(sent)
    BY Lengths DEF IInv, PrefixInv
  <2>2. /\ f \in Seq(Item) /\ Len(f) = Len(sent)
        /\ \A k \in 1..Len(sent) : f[k] = [channel |-> ChannelId, payload |-> sent[k]]
    BY <2>1, FramesAreItems DEF IInv
  <2>3. \A k \in 1..n : items[k] = f[k]
    <3>1. \A k \in 1..n : k \in 1..Len(sent)
      BY <2>1
    <3> QED
      BY <2>2, <3>1 DEF IInv, PrefixInv
  <2>4. x = items
    BY SubSeqFull DEF IInv, HistoryInv
  <2> HIDE DEF f
  <2>5. y \in Seq(Item) /\ Len(y) = n /\ \A k \in 1..n : y[k] = f[k]
    <3>1. \A k \in 1..n : f[k] \in Item
      <4>1. \A k \in 1..n : k \in 1..Len(f)
        BY <2>1, <2>2
      <4> QED
        BY <2>2, <4>1, ElementOfSeq
    <3>2. /\ y \in Seq(Item)
          /\ Len(y) = IF 1 <= n THEN n - 1 + 1 ELSE 0
          /\ \A k \in 1..(n - 1 + 1) : y[k] = f[1 + k - 1]
      BY <2>1, <3>1, SubSeqProperties
    <3> HIDE DEF y
    <3> QED
      BY <2>1, <3>2
  <2>6. items = y
    <3> HIDE DEF y
    <3> QED
      BY <2>3, <2>5, SeqEqual DEF IInv, HistoryInv
  <2> QED
    BY <2>1, <2>2, <2>4, <2>6 DEF DecodesWhatWasSent, IsPrefix, f
<1> QED
  BY <1>1, Inductive, PTL

(* A frame whose bytes were all read has been decoded: a decoder with none *)
(* left to come is not in the middle of one.                               *)
THEOREM NothingStays == Spec => []NothingIsStuck
<1>1. IInv => NothingIsStuck
  <2> SUFFICES ASSUME IInv, reader \in {"read", "ended"}, wire = <<>>
               PROVE  items = Frames(sent)
    BY DEF NothingIsStuck
  <2> DEFINE f == Frames(sent)
  <2>1. Len(items) = Len(sent)
    BY Drained
  <2>2. Len(items) \in Nat /\ items \in Seq(Item)
    BY Lengths DEF IInv, HistoryInv
  <2>3. /\ f \in Seq(Item) /\ Len(f) = Len(sent)
        /\ \A k \in 1..Len(sent) : f[k] = [channel |-> ChannelId, payload |-> sent[k]]
    BY FramesAreItems DEF IInv
  <2> HIDE DEF f
  <2>4. \A k \in 1..Len(items) : items[k] = f[k]
    BY <2>1, <2>3 DEF IInv, PrefixInv
  <2>5. items = f
    BY <2>1, <2>2, <2>3, <2>4, SeqEqual
  <2> QED
    BY <2>5 DEF f
<1> QED
  BY <1>1, Inductive, PTL

(* decode returns an error only for a frame above its limit; neither the   *)
(* end of the stream nor an item without a channel id ends the reader.     *)
THEOREM FailsForLength == Spec => []FailsOnlyIfTooLong
<1>1. IInv => FailsOnlyIfTooLong
  BY DEF IInv
<1> QED
  BY <1>1, Inductive, PTL

=============================================================================
