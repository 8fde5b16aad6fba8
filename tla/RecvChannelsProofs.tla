------------------------- MODULE RecvChannelsProofs -------------------------
(***************************************************************************)
(* What RecvChannels keeps true for any numbers of streams, payloads and   *)
(* datagrams and any limits, and that its streams implement Transfer.      *)
(***************************************************************************)
EXTENDS RecvChannels, FiniteSetTheorems, DataFacts

(* Of the payloads of one source, those in S come before those in T.       *)
Before(S, T) == \A p \in S, q \in T : p.from = q.from => p.n < q.n

(* The payloads of one source are in the order of their numbers.           *)
InOrder(q) == \A i, j \in DOMAIN q : i < j /\ q[i].from = q[j].from => q[i].n < q[j].n

Queued == ToSet(queue)

Received == UNION {{Payload(x, n) : n \in ToSet(received[x])} : x \in Sources}

(* What the tasks hold, that of the datagrams too.                         *)
AllHeld == Held \cup {Payload(d, 1) : d \in {datagram} \ {None}}

(* Where a payload can be once its task put it into the queue.             *)
Handed == Queued \cup Buffered \cup Received \cup refused \cup cleared

(* How many payloads of a source were read. *)
Count(x) == IF x \in Streams THEN read[x] ELSE IF x \in flying THEN 0 ELSE 1

(* The close and the drop come from the application, which took notice.    *)
CloseInv ==
  /\ closed <=> state = "disconnected"
  /\ dropped => closed
  /\ datagramTask = "holding" <=> datagram # None
  /\ datagram \notin flying
  /\ \A s \in Streams : task[s] = "holding" => read[s] > 0

(* Each payload is where it belongs, after those read before it.           *)
PlaceInv ==
  /\ \A p \in Handed : p.n <= Count(p.from)
  /\ Before(Handed, AllHeld)
  /\ Before(Received \cup Buffered \cup refused \cup cleared, Queued)
  /\ Before(Received \cup cleared, Buffered)
  /\ refused \cap (Received \cup Buffered \cup cleared) = {}
  /\ Received \cap cleared = {}

SortedInv ==
  /\ InOrder(queue)
  /\ \A i \in DOMAIN buffers :
       /\ InOrder(buffers[i])
       /\ \A p \in ToSet(buffers[i]) : ChannelOf[p.from] + 1 = i
  /\ \A x \in Sources : \A i, j \in DOMAIN received[x] : i < j => received[x][i] < received[x][j]

(* Before the connection is closed no payload that was read is missing.    *)
AccountedInv ==
  ~closed => \A x \in Sources : \A n \in 1..Count(x) : Payload(x, n) \in Handed \cup AllHeld

IInv == TypeOK /\ CloseInv /\ PlaceInv /\ SortedInv /\ AccountedInv /\ OrderIsKept

-----------------------------------------------------------------------------
(* The loop of a dispatch.                                                 *)

(* A function that makes each turn of the loop exists, so that AfterAll is *)
(* where its last one leads.                                               *)
LEMMA AfterAllTurns ==
  ASSUME NEW d, NEW q, Len(q) \in Nat
  PROVE  \E f : /\ f[0] = d
                /\ \A k \in 1..Len(q) : f[k] = Dispatched(f[k - 1], q[k])
                /\ AfterAll(d, q) = f[Len(q)]
<1> DEFINE Turns(f, m) ==
             f = [k \in 0..m |-> IF k = 0 THEN d ELSE Dispatched(f[k - 1], q[k])]
           S == {m \in Nat : \E f : Turns(f, m)}
<1>1. 0 \in S
  <2> DEFINE f == [k \in 0..0 |-> d]
  <2>1. f = [k \in 0..0 |-> IF k = 0 THEN d ELSE Dispatched(f[k - 1], q[k])]
    OBVIOUS
  <2> QED
    BY <2>1
<1>2. ASSUME NEW m \in Nat, m \in S PROVE m + 1 \in S
  <2>1. PICK f : Turns(f, m)
    BY <1>2
  <2> DEFINE g == [k \in 0..(m + 1) |->
                     IF k = m + 1 THEN Dispatched(f[m], q[m + 1]) ELSE f[k]]
             t == [k \in 0..(m + 1) |-> IF k = 0 THEN d ELSE Dispatched(g[k - 1], q[k])]
  <2>2. \A k \in 0..m : f[k] = IF k = 0 THEN d ELSE Dispatched(f[k - 1], q[k])
    BY <2>1
  <2>3. \A k \in 0..(m + 1) : g[k] = t[k]
    <3> SUFFICES ASSUME NEW k \in 0..(m + 1) PROVE g[k] = t[k]
      OBVIOUS
    <3>1. CASE k = 0
      BY <2>2, <3>1
    <3>2. CASE k = m + 1
      <4>1. g[k - 1] = f[m] /\ g[k] = Dispatched(f[m], q[m + 1])
        BY <3>2
      <4> HIDE DEF g
      <4>2. t[k] = Dispatched(g[k - 1], q[k])
        BY <3>2
      <4> QED
        BY <3>2, <4>1, <4>2
    <3>3. CASE k \in 1..m
      <4>1. k - 1 \in 0..m /\ g[k - 1] = f[k - 1] /\ g[k] = f[k]
        BY <3>3
      <4> HIDE DEF g
      <4>2. t[k] = Dispatched(g[k - 1], q[k])
        BY <3>3
      <4> QED
        BY <2>2, <3>3, <4>1, <4>2
    <3> QED
      BY <3>1, <3>2, <3>3
  <2>4. g = t
    <3> HIDE DEF Turns
    <3>1. g = [k \in 0..(m + 1) |-> g[k]] /\ t = [k \in 0..(m + 1) |-> t[k]]
      OBVIOUS
    <3> HIDE DEF g, t
    <3> QED
      BY <2>3, <3>1
  <2>5. Turns(g, m + 1)
    BY <2>4
  <2> HIDE DEF Turns, g
  <2> QED
    BY <1>2, <2>5
<1>3. Len(q) \in S
  <2> HIDE DEF S
  <2> QED
    BY <1>1, <1>2, Induction
<1> DEFINE a == CHOOSE f : Turns(f, Len(q))
<1>4. Turns(a, Len(q))
  BY <1>3
<1>5. AfterAll(d, q) = a[Len(q)]
  BY DEF AfterAll
<1> HIDE DEF a
<1>6. /\ a[0] = d
      /\ \A k \in 1..Len(q) : a[k] = Dispatched(a[k - 1], q[k])
  BY <1>4
<1> QED
  BY <1>5, <1>6

(* The payloads in some buffers. *)
In(bs) == UNION {ToSet(bs[i]) : i \in DOMAIN bs}

BuffersOK(bs) ==
  /\ bs \in Seq(Seq(Payloads)) /\ Len(bs) <= MaxChannels
  /\ \A i \in DOMAIN bs :
       /\ Len(bs[i]) <= MaxBuffered \/ Len(bs[i]) = 1
       /\ InOrder(bs[i])
       /\ \A p \in ToSet(bs[i]) : ChannelOf[p.from] + 1 = i

(* What the loop keeps while the payloads in T are still to be dispatched. *)
LoopOK(d, T) ==
  /\ d = [buffers |-> d.buffers, refused |-> d.refused]
  /\ BuffersOK(d.buffers)
  /\ d.refused \subseteq Payloads
  /\ Before(Received \cup In(d.buffers) \cup d.refused \cup cleared, T)
  /\ Before(Received \cup cleared, In(d.buffers))
  /\ d.refused \cap (Received \cup In(d.buffers) \cup cleared) = {}

(* A payload that comes after those that a sequence holds. *)
LEMMA AppendInOrder ==
  ASSUME NEW s \in Seq(Payloads), NEW p \in Payloads, InOrder(s), Before(ToSet(s), {p})
  PROVE  /\ Append(s, p) \in Seq(Payloads) /\ Len(Append(s, p)) = Len(s) + 1
         /\ InOrder(Append(s, p))
         /\ ToSet(Append(s, p)) = ToSet(s) \cup {p}
<1> DEFINE t == Append(s, p)
<1>1. /\ Len(s) \in Nat /\ DOMAIN s = 1..Len(s)
      /\ t \in Seq(Payloads) /\ DOMAIN t = 1..(Len(s) + 1)
      /\ \A i \in 1..Len(s) : t[i] = s[i] /\ s[i] \in Payloads
      /\ t[Len(s) + 1] = p
      /\ Len(t) = Len(s) + 1
  BY AppendIndex, AppendProperties
<1> HIDE DEF t
<1>2. InOrder(t)
  <2> SUFFICES ASSUME NEW i \in DOMAIN t, NEW j \in DOMAIN t, i < j, t[i].from = t[j].from
               PROVE  t[i].n < t[j].n
    BY DEF InOrder
  <2>1. i \in 1..Len(s)
    BY <1>1
  <2>2. CASE j \in 1..Len(s)
    BY <1>1, <2>1, <2>2 DEF InOrder
  <2>3. CASE j = Len(s) + 1
    <3>1. t[i] \in ToSet(s) /\ t[j] = p
      BY <1>1, <2>1, <2>3 DEF ToSet
    <3> QED
      BY <3>1 DEF Before
  <2> QED
    BY <1>1, <2>2, <2>3
<1>3. ToSet(t) = ToSet(s) \cup {p}
  <2>1. \A i \in 1..(Len(s) + 1) : i \in 1..Len(s) \/ i = Len(s) + 1
    BY <1>1
  <2>2. \A i \in 1..Len(s) : i \in 1..(Len(s) + 1)
    BY <1>1
  <2>3. Len(s) + 1 \in 1..(Len(s) + 1)
    BY <1>1
  <2> QED
    BY <1>1, <2>1, <2>2, <2>3 DEF ToSet
<1> QED
  BY <1>1, <1>2, <1>3 DEF t

LEMMA InSome ==
  ASSUME NEW bs, NEW q
  PROVE  q \in In(bs) <=> \E k \in DOMAIN bs : q \in ToSet(bs[k])
BY DEF In

LEMMA BufferAppend ==
  ASSUME NEW bs, BuffersOK(bs), NEW p \in Payloads, Before(In(bs), {p}),
         ChannelOf[p.from] + 1 \in DOMAIN bs,
         Len(bs[ChannelOf[p.from] + 1]) < MaxBuffered
  PROVE  LET i == ChannelOf[p.from] + 1
             cs == [bs EXCEPT ![i] = Append(@, p)]
         IN BuffersOK(cs) /\ In(cs) = In(bs) \cup {p}
<1> DEFINE i == ChannelOf[p.from] + 1
           t == Append(bs[i], p)
           cs == [bs EXCEPT ![i] = t]
<1>1. /\ bs \in Seq(Seq(Payloads)) /\ i \in DOMAIN bs /\ bs[i] \in Seq(Payloads)
      /\ InOrder(bs[i]) /\ Len(bs[i]) < MaxBuffered /\ Len(bs[i]) \in Nat
      /\ Len(bs) \in Nat /\ DOMAIN bs = 1..Len(bs)
      /\ \A q \in ToSet(bs[i]) : ChannelOf[q.from] + 1 = i
  BY ElementOfSeq, LenProperties DEF BuffersOK
<1>2. ToSet(bs[i]) \subseteq In(bs)
  BY <1>1 DEF In
<1>3. /\ t \in Seq(Payloads) /\ Len(t) = Len(bs[i]) + 1 /\ InOrder(t)
      /\ ToSet(t) = ToSet(bs[i]) \cup {p}
  BY <1>1, <1>2, AppendInOrder DEF Before
<1> HIDE DEF t
<1>4. /\ cs \in Seq(Seq(Payloads)) /\ Len(cs) = Len(bs) /\ DOMAIN cs = DOMAIN bs
      /\ cs[i] = t /\ \A k \in DOMAIN bs \ {i} : cs[k] = bs[k]
  BY <1>1, <1>3, ExceptSeq, LenProperties
<1>5. Len(t) <= MaxBuffered
  BY <1>1, <1>3, LimitsAssumption
<1>6. \A q \in ToSet(t) : ChannelOf[q.from] + 1 = i
  BY <1>1, <1>3
<1> HIDE DEF cs, i
<1>7. BuffersOK(cs)
  BY <1>3, <1>4, <1>5, <1>6 DEF BuffersOK
<1>8. In(cs) = In(bs) \cup {p}
  <2> SUFFICES ASSUME NEW q PROVE q \in In(cs) <=> q \in In(bs) \/ q = p
    OBVIOUS
  <2>1. q \in In(cs) <=> \E k \in DOMAIN bs : q \in ToSet(cs[k])
    BY <1>4, InSome
  <2>2. q \in In(bs) <=> \E k \in DOMAIN bs : q \in ToSet(bs[k])
    BY InSome
  <2> QED
    BY <1>1, <1>3, <1>4, <2>1, <2>2
<1> QED
  BY <1>7, <1>8 DEF cs, t, i

LEMMA BufferNew ==
  ASSUME NEW bs, BuffersOK(bs), NEW p \in Payloads, NEW i \in Nat,
         i = ChannelOf[p.from] + 1, ~ (i <= Len(bs)), i <= MaxChannels
  PROVE  BuffersOK(WithBuffer(bs, i, p)) /\ In(WithBuffer(bs, i, p)) = In(bs) \cup {p}
<1> DEFINE cs == WithBuffer(bs, i, p)
<1>1. /\ bs \in Seq(Seq(Payloads)) /\ Len(bs) \in Nat /\ DOMAIN bs = 1..Len(bs)
      /\ \A k \in 1..Len(bs) : bs[k] \in Seq(Payloads)
  BY ElementOfSeq, LenProperties DEF BuffersOK
<1>2. /\ <<>> \in Seq(Payloads) /\ Len(<<>>) = 0 /\ ToSet(<<>>) = {} /\ InOrder(<<>>)
      /\ <<p>> \in Seq(Payloads) /\ Len(<<p>>) = 1 /\ ToSet(<<p>>) = {p} /\ InOrder(<<p>>)
  BY DEF ToSet, InOrder
<1>3. /\ cs = [k \in 1..i |-> cs[k]]
      /\ \A k \in 1..Len(bs) : k \in 1..i /\ k # i /\ cs[k] = bs[k]
      /\ i \in 1..i /\ cs[i] = <<p>>
      /\ \A k \in 1..i : k \in 1..Len(bs) \/ k = i \/ cs[k] = <<>>
  BY <1>1 DEF WithBuffer
<1> HIDE DEF cs
<1>4. \A k \in 1..i : cs[k] \in Seq(Payloads)
  BY <1>1, <1>2, <1>3
<1>5. cs \in [1..i -> Seq(Payloads)]
  BY <1>3, <1>4
<1>6. cs \in Seq(Seq(Payloads)) /\ Len(cs) = i /\ DOMAIN cs = 1..i
  BY <1>5, LenProperties, SMTT(30)
<1>7. ASSUME NEW k \in 1..i
      PROVE  /\ Len(cs[k]) <= MaxBuffered \/ Len(cs[k]) = 1
             /\ InOrder(cs[k])
             /\ \A q \in ToSet(cs[k]) : ChannelOf[q.from] + 1 = k
  <2>1. CASE k \in 1..Len(bs)
    BY <1>1, <1>3, <2>1 DEF BuffersOK
  <2>2. CASE k = i
    BY <1>2, <1>3, <2>2
  <2>3. CASE cs[k] = <<>>
    BY <1>2, <2>3, LimitsAssumption
  <2> QED
    BY <1>3, <2>1, <2>2, <2>3
<1>8. BuffersOK(cs)
  BY <1>6, <1>7 DEF BuffersOK
<1>9. In(cs) = In(bs) \cup {p}
  <2>1. In(cs) \subseteq In(bs) \cup {p}
    <3> SUFFICES ASSUME NEW q, NEW k \in 1..i, q \in ToSet(cs[k]) PROVE q \in In(bs) \cup {p}
      BY <1>6 DEF In
    <3> QED
      BY <1>1, <1>2, <1>3, ZenonT(60) DEF In
  <2>2. In(bs) \subseteq In(cs)
    BY <1>1, <1>3, <1>6 DEF In
  <2>3. p \in In(cs)
    BY <1>2, <1>3, <1>6, InSome
  <2> QED
    BY <2>1, <2>2, <2>3
<1> QED
  BY <1>8, <1>9 DEF cs

LEMMA PayloadFacts ==
  /\ \A x \in Sources : Numbers(x) \subseteq Nat \ {0}
  /\ \A x \in Sources : \A n \in Numbers(x) : Payload(x, n) \in Payloads
  /\ \A p \in Payloads : /\ p = Payload(p.from, p.n)
                         /\ p.from \in Sources /\ p.n \in Numbers(p.from) /\ p.n \in Nat \ {0}
                         /\ ChannelOf[p.from] \in Nat
  /\ \A x, y, m, n : Payload(x, m) = Payload(y, n) => x = y /\ m = n
  /\ \A x, n : Payload(x, n).from = x /\ Payload(x, n).n = n
<1>1. \A x \in Sources : Numbers(x) \subseteq Nat \ {0}
  BY ChannelsAssumption DEF Numbers
<1>2. \A x, n : Payload(x, n).from = x /\ Payload(x, n).n = n
  BY DEF Payload
<1>3. \A x, y, m, n : Payload(x, m) = Payload(y, n) => x = y /\ m = n
  BY <1>2
<1>4. \A x \in Sources : \A n \in Numbers(x) : Payload(x, n) \in Payloads
  BY DEF Payloads
<1>5. ASSUME NEW p \in Payloads
      PROVE  /\ p = Payload(p.from, p.n)
             /\ p.from \in Sources /\ p.n \in Numbers(p.from) /\ p.n \in Nat \ {0}
             /\ ChannelOf[p.from] \in Nat
  <2>1. PICK x \in Sources : p \in {Payload(x, n) : n \in Numbers(x)}
    BY Zenon DEF Payloads
  <2>2. PICK n \in Numbers(x) : p = Payload(x, n)
    BY <2>1
  <2> QED
    BY <1>1, <1>2, <2>2, ChannelsAssumption
<1> QED
  BY <1>1, <1>2, <1>3, <1>4, <1>5

(* One turn of the loop. *)
LEMMA Turn ==
  ASSUME NEW d, NEW p \in Payloads, NEW T, LoopOK(d, T \cup {p}), Before({p}, T)
  PROVE  LET e == Dispatched(d, p)
         IN /\ LoopOK(e, T)
            /\ In(e.buffers) \cup e.refused = In(d.buffers) \cup d.refused \cup {p}
            /\ d.refused \subseteq e.refused
            /\ In(d.buffers) \subseteq In(e.buffers)
<1> DEFINE i == ChannelOf[p.from] + 1
           e == Dispatched(d, p)
           bs == d.buffers
<1>1. /\ d = [buffers |-> bs, refused |-> d.refused]
      /\ BuffersOK(bs) /\ d.refused \subseteq Payloads
      /\ Before(Received \cup In(bs) \cup d.refused \cup cleared, T)
      /\ Before(Received \cup In(bs) \cup d.refused \cup cleared, {p})
      /\ Before(Received \cup cleared, In(bs))
      /\ d.refused \cap (Received \cup In(bs) \cup cleared) = {}
  BY DEF LoopOK, Before
<1>2. i \in Nat \ {0} /\ p.n \in Nat /\ ~ (p.n < p.n)
  BY PayloadFacts
<1>3. p \notin Received \cup In(bs) \cup d.refused \cup cleared
  BY <1>1, <1>2 DEF Before
<1>4. ASSUME NEW cs, BuffersOK(cs), In(cs) = In(bs) \cup {p}, e = [d EXCEPT !.buffers = cs]
      PROVE  /\ LoopOK(e, T)
             /\ In(e.buffers) \cup e.refused = In(bs) \cup d.refused \cup {p}
             /\ d.refused \subseteq e.refused
             /\ In(bs) \subseteq In(e.buffers)
  <2>1. e = [buffers |-> cs, refused |-> d.refused] /\ e.buffers = cs /\ e.refused = d.refused
    BY <1>1, <1>4
  <2>2. Before(Received \cup In(cs) \cup d.refused \cup cleared, T)
    BY <1>1, <1>4 DEF Before
  <2>3. Before(Received \cup cleared, In(cs))
    BY <1>1, <1>4 DEF Before
  <2>4. d.refused \cap (Received \cup In(cs) \cup cleared) = {}
    BY <1>1, <1>3, <1>4
  <2> HIDE DEF e
  <2> QED
    BY <1>1, <1>4, <2>1, <2>2, <2>3, <2>4 DEF LoopOK
<1>5. ASSUME e = [d EXCEPT !.refused = d.refused \cup {p}]
      PROVE  /\ LoopOK(e, T)
             /\ In(e.buffers) \cup e.refused = In(bs) \cup d.refused \cup {p}
             /\ d.refused \subseteq e.refused
             /\ In(bs) \subseteq In(e.buffers)
  <2>1. /\ e = [buffers |-> bs, refused |-> d.refused \cup {p}]
        /\ e.buffers = bs /\ e.refused = d.refused \cup {p}
    BY <1>1, <1>5
  <2>2. Before(Received \cup In(bs) \cup (d.refused \cup {p}) \cup cleared, T)
    BY <1>1 DEF Before
  <2>3. (d.refused \cup {p}) \cap (Received \cup In(bs) \cup cleared) = {}
    BY <1>1, <1>3
  <2> HIDE DEF e
  <2> QED
    BY <1>1, <2>1, <2>2, <2>3 DEF LoopOK
<1>6. Len(bs) \in Nat /\ DOMAIN bs = 1..Len(bs)
  BY <1>1, LenProperties DEF BuffersOK
<1>7. Before(In(bs), {p})
  BY <1>1 DEF Before
<1>8. CASE i <= Len(bs) /\ Len(bs[i]) < MaxBuffered
  <2> DEFINE cs == [bs EXCEPT ![i] = Append(@, p)]
  <2>1. i \in DOMAIN bs
    BY <1>2, <1>6, <1>8
  <2>2. BuffersOK(cs) /\ In(cs) = In(bs) \cup {p}
    BY <1>1, <1>7, <1>8, <2>1, BufferAppend
  <2>3. e = [d EXCEPT !.buffers = cs]
    <3>1. e = [d EXCEPT !.buffers[i] = Append(@, p)]
      BY <1>8 DEF Dispatched
    <3> QED
      BY <1>1, <3>1
  <2> HIDE DEF cs, e, bs
  <2> QED
    BY <1>4, <2>2, <2>3 DEF e, bs
<1>9. CASE i <= Len(bs) /\ ~(Len(bs[i]) < MaxBuffered)
  BY <1>5, <1>9 DEF Dispatched
<1>10. CASE ~(i <= Len(bs)) /\ i <= MaxChannels
  <2> DEFINE cs == WithBuffer(bs, i, p)
  <2>1. BuffersOK(cs) /\ In(cs) = In(bs) \cup {p}
    BY <1>1, <1>2, <1>10, BufferNew
  <2>2. e = [d EXCEPT !.buffers = cs]
    BY <1>10 DEF Dispatched
  <2> HIDE DEF cs, e, bs
  <2> QED
    BY <1>4, <2>1, <2>2 DEF e, bs
<1>11. CASE ~(i <= Len(bs)) /\ ~(i <= MaxChannels)
  BY <1>5, <1>11 DEF Dispatched
<1> QED
  BY <1>8, <1>9, <1>10, <1>11

(* What is left of a queue after some turns of the loop. *)
Rest(q, k) == {q[i] : i \in (k + 1)..Len(q)}

(* A whole queue. *)
LEMMA AfterAllOK ==
  ASSUME NEW d, NEW q \in Seq(Payloads), InOrder(q), LoopOK(d, ToSet(q))
  PROVE  LET e == AfterAll(d, q)
         IN /\ LoopOK(e, {})
            /\ In(e.buffers) \cup e.refused = In(d.buffers) \cup d.refused \cup ToSet(q)
            /\ d.refused \subseteq e.refused
            /\ In(d.buffers) \subseteq In(e.buffers)
<1>1. Len(q) \in Nat /\ DOMAIN q = 1..Len(q) /\ \A k \in 1..Len(q) : q[k] \in Payloads
  BY LenProperties, ElementOfSeq
<1>2. PICK f : /\ f[0] = d
               /\ \A k \in 1..Len(q) : f[k] = Dispatched(f[k - 1], q[k])
               /\ AfterAll(d, q) = f[Len(q)]
  BY <1>1, AfterAllTurns, SMTT(30)
<1> DEFINE After(k) ==
             /\ LoopOK(f[k], Rest(q, k))
             /\ In(f[k].buffers) \cup f[k].refused \cup Rest(q, k)
                = In(d.buffers) \cup d.refused \cup ToSet(q)
             /\ d.refused \subseteq f[k].refused
             /\ In(d.buffers) \subseteq In(f[k].buffers)
           S == {k \in Nat : k <= Len(q) => After(k)}
<1>3. 0 \in S
  <2>1. Rest(q, 0) = ToSet(q)
    BY <1>1 DEF Rest, ToSet
  <2> QED
    BY <1>2, <2>1
<1>4. ASSUME NEW k \in Nat, k \in S PROVE k + 1 \in S
  <2> SUFFICES ASSUME k + 1 <= Len(q) PROVE After(k + 1)
    BY <1>4
  <2> DEFINE p == q[k + 1]
             T == Rest(q, k + 1)
  <2>1. After(k) /\ k + 1 \in 1..Len(q) /\ (k + 1) - 1 = k
    BY <1>1, <1>4
  <2>2. p \in Payloads /\ f[k + 1] = Dispatched(f[k], p)
    BY <1>1, <1>2, <2>1
  <2>3. Rest(q, k) = T \cup {p}
    <3>1. \A i : i \in (k + 1)..Len(q) <=> i \in (k + 1 + 1)..Len(q) \/ i = k + 1
      BY <1>1, <2>1
    <3> QED
      BY <3>1 DEF Rest
  <2>4. Before({p}, T)
    <3>1. \A i \in (k + 1 + 1)..Len(q) : i \in DOMAIN q /\ k + 1 \in DOMAIN q /\ k + 1 < i
      BY <1>1, <2>1
    <3> QED
      BY <3>1 DEF InOrder, Before, Rest
  <2> HIDE DEF p, T
  <2>5. /\ LoopOK(f[k], T \cup {p})
        /\ In(f[k].buffers) \cup f[k].refused \cup T \cup {p}
           = In(d.buffers) \cup d.refused \cup ToSet(q)
        /\ d.refused \subseteq f[k].refused
        /\ In(d.buffers) \subseteq In(f[k].buffers)
    BY <2>1, <2>3
  <2>6. /\ LoopOK(f[k + 1], T)
        /\ In(f[k + 1].buffers) \cup f[k + 1].refused = In(f[k].buffers) \cup f[k].refused \cup {p}
        /\ f[k].refused \subseteq f[k + 1].refused
        /\ In(f[k].buffers) \subseteq In(f[k + 1].buffers)
    <3> DEFINE d1 == f[k]
    <3>1. LoopOK(d1, T \cup {p}) /\ p \in Payloads
      BY <2>2, <2>5
    <3> HIDE DEF d1
    <3>2. /\ LoopOK(Dispatched(d1, p), T)
          /\ In(Dispatched(d1, p).buffers) \cup Dispatched(d1, p).refused
             = In(d1.buffers) \cup d1.refused \cup {p}
          /\ d1.refused \subseteq Dispatched(d1, p).refused
          /\ In(d1.buffers) \subseteq In(Dispatched(d1, p).buffers)
      BY <2>4, <3>1, Turn
    <3> QED
      BY <2>2, <3>2 DEF d1
  <2> QED
    BY <2>5, <2>6 DEF T
<1>5. Len(q) \in S
  <2> HIDE DEF S
  <2> QED
    BY <1>1, <1>3, <1>4, Induction
<1>6. After(Len(q))
  BY <1>1, <1>5
<1>7. Rest(q, Len(q)) = {}
  BY <1>1 DEF Rest
<1> QED
  BY <1>2, <1>6, <1>7

-----------------------------------------------------------------------------
(* The sets of payloads, and how the steps move payloads between them.     *)

LEMMA ReceivedOf ==
  ASSUME NEW p
  PROVE  p \in Received <=> \E x \in Sources : \E n \in ToSet(received[x]) : p = Payload(x, n)
BY DEF Received

(* Whatever was read is a payload.                                         *)
LEMMA SetsOfPayloads ==
  ASSUME TypeOK, CloseInv
  PROVE  /\ Queued \subseteq Payloads /\ Buffered \subseteq Payloads
         /\ Received \subseteq Payloads
         /\ refused \subseteq Payloads /\ cleared \subseteq Payloads
         /\ AllHeld \subseteq Payloads
<1>1. Queued \subseteq Payloads
  BY LenProperties, ElementOfSeq DEF TypeOK, Queued, ToSet
<1>2. Buffered \subseteq Payloads
  <2> SUFFICES ASSUME NEW i \in DOMAIN buffers PROVE ToSet(buffers[i]) \subseteq Payloads
    BY DEF Buffered
  <2>1. buffers[i] \in Seq(Payloads)
    BY LenProperties, ElementOfSeq DEF TypeOK
  <2> QED
    BY <2>1, LenProperties, ElementOfSeq DEF ToSet
<1>3. Received \subseteq Payloads
  <2> SUFFICES ASSUME NEW x \in Sources, NEW n \in ToSet(received[x])
               PROVE  Payload(x, n) \in Payloads
    BY ReceivedOf
  <2>1. n \in Numbers(x)
    BY LenProperties, ElementOfSeq DEF TypeOK, ToSet
  <2> QED
    BY <2>1, PayloadFacts
<1>4. AllHeld \subseteq Payloads
  <2> SUFFICES ASSUME NEW p \in AllHeld PROVE p \in Payloads
    OBVIOUS
  <2>1. CASE \E s \in Streams : task[s] = "holding" /\ p = Payload(s, read[s])
    <3>1. PICK s \in Streams : task[s] = "holding" /\ p = Payload(s, read[s])
      BY <2>1
    <3>2. read[s] \in Nat /\ read[s] > 0 /\ peer[s] \in Nat /\ read[s] <= peer[s]
          /\ peer[s] <= Lengths[s] /\ Lengths[s] \in Nat
      BY <3>1, ChannelsAssumption DEF TypeOK, CloseInv
    <3>3. read[s] \in 1..Lengths[s]
      BY <3>2
    <3>4. s \in Sources /\ read[s] \in Numbers(s)
      BY <3>3 DEF Sources, Numbers
    <3> QED
      BY <3>1, <3>4, PayloadFacts
  <2>2. CASE p = Payload(datagram, 1) /\ datagram \in Datagrams
    <3>1. datagram \in Sources /\ 1 \in Numbers(datagram)
      BY <2>2, SourcesAssumption DEF Sources, Numbers
    <3> QED
      BY <2>2, <3>1, PayloadFacts
  <2> QED
    BY <2>1, <2>2 DEF AllHeld, Held, TypeOK
<1> QED
  BY <1>1, <1>2, <1>3, <1>4 DEF TypeOK

(* A payload does not come before itself.                                  *)
LEMMA BeforeApart ==
  ASSUME NEW S, NEW T, S \subseteq Payloads, Before(S, T)
  PROVE  S \cap T = {}
<1>1. \A p \in S : p.n \in Nat /\ ~(p.n < p.n)
  BY PayloadFacts
<1> QED
  BY <1>1 DEF Before

(* A task holds one payload of its source, the one it read last.           *)
LEMMA HeldIsLast ==
  ASSUME TypeOK, CloseInv, NEW p \in AllHeld
  PROVE  /\ p.n = Count(p.from) /\ p.from \in Sources
         /\ \A q \in AllHeld : q.from = p.from => q = p
<1>1. ASSUME NEW q \in AllHeld
      PROVE  q.from \in Sources /\ q.n = Count(q.from) /\ q = Payload(q.from, q.n)
  <2>1. CASE \E s \in Streams : task[s] = "holding" /\ q = Payload(s, read[s])
    BY <2>1, PayloadFacts DEF Count, Sources
  <2>2. CASE q = Payload(datagram, 1) /\ datagram \in Datagrams
    BY <2>2, PayloadFacts, SourcesAssumption DEF Count, Sources, CloseInv
  <2> QED
    BY <2>1, <2>2 DEF AllHeld, Held, TypeOK
<1>2. ASSUME NEW q \in AllHeld, q.from = p.from PROVE q = p
  BY <1>1, <1>2
<1> QED
  BY <1>1, <1>2

(* What a dispatch makes of the queue. *)
LEMMA DispatchMoves ==
  ASSUME IInv, Dispatch
  PROVE  /\ BuffersOK(buffers') /\ refused' \subseteq Payloads
         /\ Buffered' \cup refused' = Buffered \cup refused \cup Queued
         /\ Buffered \subseteq Buffered' /\ refused \subseteq refused'
         /\ Queued' = {}
         /\ Before(Received \cup cleared, Buffered')
         /\ refused' \cap (Received \cup Buffered' \cup cleared) = {}
<1> DEFINE d == [buffers |-> buffers, refused |-> refused]
           e == AfterAll(d, queue)
<1>1. /\ buffers' = e.buffers /\ refused' = e.refused /\ queue' = <<>>
  BY DEF Dispatch
<1>2. In(buffers) = Buffered /\ In(buffers') = Buffered'
  BY DEF In, Buffered
<1>3. d.buffers = buffers /\ d.refused = refused
  OBVIOUS
<1>4. BuffersOK(buffers)
  BY DEF IInv, TypeOK, SortedInv, BuffersOK
<1>5. LoopOK(d, Queued)
  BY <1>2, <1>3, <1>4 DEF IInv, TypeOK, PlaceInv, LoopOK, Before
<1>6. queue \in Seq(Payloads) /\ InOrder(queue)
  BY DEF IInv, TypeOK, SortedInv
<1> HIDE DEF d
<1>7. /\ LoopOK(e, {})
      /\ In(e.buffers) \cup e.refused = In(d.buffers) \cup d.refused \cup Queued
      /\ d.refused \subseteq e.refused
      /\ In(d.buffers) \subseteq In(e.buffers)
  BY <1>5, <1>6, AfterAllOK DEF Queued
<1> HIDE DEF e
<1>8. Queued' = {}
  BY <1>1 DEF Queued, ToSet
<1> QED
  BY <1>1, <1>2, <1>3, <1>7, <1>8 DEF LoopOK

(* The head of a sequence is before all the others. *)
LEMMA HeadFirst ==
  ASSUME NEW s \in Seq(Payloads), s # <<>>, InOrder(s)
  PROVE  /\ ToSet(s) = ToSet(Tail(s)) \cup {Head(s)}
         /\ Before({Head(s)}, ToSet(Tail(s)))
         /\ InOrder(Tail(s))
<1> DEFINE t == Tail(s)
           p == Head(s)
<1>1. /\ Len(s) \in Nat \ {0} /\ DOMAIN s = 1..Len(s)
      /\ p = s[1]
      /\ DOMAIN t = 1..(Len(s) - 1)
      /\ \A k \in 1..(Len(s) - 1) : t[k] = s[k + 1]
  BY TailIndex
<1> HIDE DEF t, p
<1>2. \A k \in 1..Len(s) : k = 1 \/ (k - 1 \in 1..(Len(s) - 1) /\ (k - 1) + 1 = k)
  BY <1>1
<1>3. /\ 1 \in 1..Len(s)
      /\ \A k \in 1..(Len(s) - 1) : k + 1 \in 1..Len(s) /\ 1 < k + 1
      /\ \A j, k \in 1..(Len(s) - 1) : j < k => j + 1 < k + 1
  BY <1>1
<1>4. \A q : q \in ToSet(s) <=> \E k \in 1..Len(s) : q = s[k]
  BY <1>1 DEF ToSet
<1>5. \A q : q \in ToSet(t) <=> \E k \in 1..(Len(s) - 1) : q = s[k + 1]
  BY <1>1 DEF ToSet
<1>6. ToSet(s) = ToSet(t) \cup {p}
  <2>1. \A q \in ToSet(s) : q \in ToSet(t) \/ q = p
    <3> SUFFICES ASSUME NEW k \in 1..Len(s) PROVE s[k] \in ToSet(t) \/ s[k] = p
      BY <1>4
    <3> QED
      BY <1>1, <1>2, <1>5
  <2>2. \A q \in ToSet(t) : q \in ToSet(s)
    BY <1>3, <1>4, <1>5
  <2>3. p \in ToSet(s)
    BY <1>1, <1>3, <1>4
  <2> QED
    BY <2>1, <2>2, <2>3
<1>7. Before({p}, ToSet(t))
  BY <1>1, <1>3, <1>5 DEF Before, InOrder
<1>8. InOrder(t)
  <2> SUFFICES ASSUME NEW j \in 1..(Len(s) - 1), NEW k \in 1..(Len(s) - 1),
                      j < k, t[j].from = t[k].from
               PROVE  t[j].n < t[k].n
    BY <1>1 DEF InOrder
  <2>1. t[j] = s[j + 1] /\ t[k] = s[k + 1]
    BY <1>1
  <2>2. /\ j + 1 \in DOMAIN s /\ k + 1 \in DOMAIN s
        /\ j + 1 < k + 1
    BY <1>1, <1>3
  <2>3. s[j + 1].from = s[k + 1].from => s[j + 1].n < s[k + 1].n
    BY <2>2 DEF InOrder
  <2> QED
    BY <2>1, <2>3
<1> QED
  BY <1>6, <1>7, <1>8 DEF t, p

(* receive_payload takes the oldest payload of a channel. *)
LEMMA ReceiveMoves ==
  ASSUME IInv, NEW id \in 0..(MaxChannels - 1), Receive(id)
  PROVE  \E p \in Buffered :
           /\ buffers' = [buffers EXCEPT ![id + 1] = Tail(@)]
           /\ buffers[id + 1] # <<>> /\ id + 1 \in DOMAIN buffers
           /\ received' = [received EXCEPT ![p.from] = Append(@, p.n)]
           /\ Buffered = Buffered' \cup {p} /\ p \notin Buffered'
           /\ Before({p}, Buffered')
           /\ Received' = Received \cup {p}
           /\ p.from \in Sources /\ p.n \in Numbers(p.from)
<1> DEFINE i == id + 1
           p == Head(buffers[i])
           b == buffers[i]
<1>1. /\ i \in 1..Len(buffers) /\ Len(buffers) \in Nat /\ DOMAIN buffers = 1..Len(buffers)
      /\ b \in Seq(Payloads) /\ b # <<>>
      /\ buffers \in Seq(Seq(Payloads))
      /\ buffers' = [buffers EXCEPT ![i] = Tail(b)]
      /\ received' = [received EXCEPT ![p.from] = Append(@, p.n)]
  BY LenProperties, ElementOfSeq, LimitsAssumption
  DEF IInv, TypeOK, Receive, TakeOldest, Taken
<1>2. /\ Len(b) \in Nat \ {0} /\ DOMAIN b = 1..Len(b)
      /\ p = b[1] /\ p \in Payloads /\ Tail(b) \in Seq(Payloads)
      /\ DOMAIN Tail(b) = 1..(Len(b) - 1)
      /\ \A k \in 1..(Len(b) - 1) : Tail(b)[k] = b[k + 1]
      /\ \A k \in 1..Len(b) : b[k] \in Payloads
  BY <1>1, TailIndex
<1>3. /\ DOMAIN buffers' = DOMAIN buffers /\ buffers'[i] = Tail(b)
      /\ \A k \in DOMAIN buffers \ {i} : buffers'[k] = buffers[k]
  BY <1>1
<1>4. /\ InOrder(b) /\ \A q \in ToSet(b) : ChannelOf[q.from] + 1 = i
      /\ \A k \in DOMAIN buffers : \A q \in ToSet(buffers[k]) : ChannelOf[q.from] + 1 = k
  BY <1>1 DEF IInv, SortedInv
<1>5. /\ ToSet(b) = ToSet(Tail(b)) \cup {p}
      /\ Before({p}, ToSet(Tail(b)))
  BY <1>1, <1>4, HeadFirst
<1>6. p \in ToSet(b) /\ p \in Buffered /\ i \in DOMAIN buffers
  BY <1>1, <1>5 DEF Buffered
<1>7. /\ p.from \in Sources /\ p.n \in Numbers(p.from) /\ p.n \in Nat
      /\ p = Payload(p.from, p.n)
  BY <1>2, PayloadFacts
<1> HIDE DEF p, i
<1>8. Buffered = Buffered' \cup {p}
  <2>1. \A q : q \in Buffered <=> \E k \in DOMAIN buffers : q \in ToSet(buffers[k])
    BY DEF Buffered
  <2>2. \A q : q \in Buffered' <=> \E k \in DOMAIN buffers : q \in ToSet(buffers'[k])
    BY <1>3 DEF Buffered
  <2> HIDE DEF b
  <2> QED
    BY <1>3, <1>5, <1>6, <2>1, <2>2 DEF b
<1>9. Before({p}, Buffered')
  <2> SUFFICES ASSUME NEW q \in Buffered', q.from = p.from PROVE p.n < q.n
    BY DEF Before
  <2>1. PICK k \in DOMAIN buffers : q \in ToSet(buffers'[k])
    BY <1>3 DEF Buffered
  <2>2. CASE k = i
    BY <1>3, <1>5, <2>1, <2>2 DEF Before
  <2>3. CASE k # i
    <3>1. q \in ToSet(buffers[k])
      BY <1>3, <2>1, <2>3
    <3> QED
      BY <1>4, <1>6, <2>3, <3>1
  <2> QED
    BY <2>2, <2>3
<1>10. p \notin Buffered'
  BY <1>2, <1>9, BeforeApart
<1>11. Received' = Received \cup {p}
  <2>1. received \in [Sources -> Seq(Nat)] /\ received[p.from] \in Seq(Nat)
    BY <1>7 DEF IInv, TypeOK
  <2>2. ToSet(Append(received[p.from], p.n)) = ToSet(received[p.from]) \cup {p.n}
    <3> DEFINE r == received[p.from]
    <3>1. /\ Len(r) \in Nat /\ DOMAIN r = 1..Len(r)
          /\ DOMAIN Append(r, p.n) = 1..(Len(r) + 1)
          /\ \A k \in 1..Len(r) : Append(r, p.n)[k] = r[k]
          /\ Append(r, p.n)[Len(r) + 1] = p.n
      BY <1>7, <2>1, AppendIndex
    <3>2. \A k : k \in 1..(Len(r) + 1) <=> k \in 1..Len(r) \/ k = Len(r) + 1
      BY <3>1
    <3> HIDE DEF r
    <3> QED
      BY <3>1, <3>2 DEF ToSet, r
  <2>3. \A x \in Sources : ToSet(received'[x])
           = IF x = p.from THEN ToSet(received[x]) \cup {p.n} ELSE ToSet(received[x])
    BY <1>1, <2>1, <2>2
  <2>4. \A q : q \in Received' <=> \E x \in Sources : \E n \in ToSet(received'[x]) : q = Payload(x, n)
    BY DEF Received
  <2>5. \A q \in Received' : q \in Received \/ q = p
    BY <1>7, <2>3, <2>4, ReceivedOf
  <2>6. \A q \in Received : q \in Received'
    BY <1>7, <2>3, <2>4, ReceivedOf
  <2>7. p \in Received'
    BY <1>7, <2>3, <2>4
  <2> QED
    BY <2>5, <2>6, <2>7
<1> QED
  BY <1>1, <1>6, <1>7, <1>8, <1>9, <1>10, <1>11 DEF i

-----------------------------------------------------------------------------
(* The invariant: what each step keeps.                                    *)

(* The places of the payloads, as far as the queues and the history go.    *)
places == <<queue, buffers, received, refused, cleared>>

LEMMA SourceFacts ==
  /\ Streams \subseteq Sources /\ Datagrams \subseteq Sources
  /\ \A x \in Sources : x \in Streams \/ x \in Datagrams
  /\ \A s \in Streams : s \notin Datagrams /\ s # None
  /\ \A d \in Datagrams : d \notin Streams /\ d # None
  /\ \A s \in Streams : Lengths[s] \in Nat /\ Numbers(s) = 1..Lengths[s]
  /\ \A d \in Datagrams : Numbers(d) = {1}
BY SourcesAssumption, ChannelsAssumption DEF Sources, Numbers

LEMMA TypeStep == IInv /\ [Next]_vars => TypeOK'
<1> SUFFICES ASSUME IInv, [Next]_vars PROVE TypeOK'
  OBVIOUS
<1>0. TypeOK /\ CloseInv
  BY DEF IInv
<1> USE DEF network, async, history
<1>1. CASE UNCHANGED vars
  BY <1>0, <1>1 DEF TypeOK, vars, Payloads
<1>2. ASSUME NEW s \in Streams, PeerSends(s) PROVE TypeOK'
  <2>1. /\ peer' = [peer EXCEPT ![s] = @ + 1] /\ peer \in [Streams -> Nat]
        /\ read' = read /\ read \in [Streams -> Nat]
    BY <1>0, <1>2 DEF PeerSends, TypeOK
  <2>2. peer' \in [Streams -> Nat]
    BY <2>1
  <2>3. ASSUME NEW t \in Streams PROVE read'[t] <= peer'[t] /\ peer'[t] <= Lengths[t]
    <3>1. /\ peer[t] \in Nat /\ read[t] \in Nat /\ Lengths[t] \in Nat
          /\ read[t] <= peer[t] /\ peer[t] <= Lengths[t]
          /\ t = s => peer[t] < Lengths[t]
      BY <1>0, <1>2, <2>1, SourceFacts DEF PeerSends, TypeOK
    <3> QED
      BY <2>1, <3>1
  <2> QED
    BY <1>0, <1>2, <2>2, <2>3 DEF PeerSends, TypeOK, Payloads
<1>3. CASE ConnectionLost \/ ListenerEnds \/ DatagramTaskEnds \/ Disconnect
  BY <1>0, <1>3 DEF ConnectionLost, ListenerEnds, DatagramTaskEnds, Disconnect, TypeOK, Payloads
<1>4. ASSUME NEW s \in Streams, Accept(s) \/ StreamEnds(s) PROVE TypeOK'
  BY <1>0, <1>4 DEF Accept, StreamEnds, TypeOK, Payloads
<1>5. ASSUME NEW s \in Streams, Reads(s) PROVE TypeOK'
  <2>1. /\ read' \in {read, [read EXCEPT ![s] = @ + 1]} /\ peer \in [Streams -> Nat]
        /\ peer' = peer /\ read \in [Streams -> Nat]
    BY <1>0, <1>5 DEF Reads, TypeOK
  <2>2. read' \in [Streams -> Nat]
    BY <2>1
  <2>3. ASSUME NEW t \in Streams PROVE read'[t] <= peer'[t] /\ peer'[t] <= Lengths[t]
    <3>1. /\ peer[t] \in Nat /\ read[t] \in Nat
          /\ read[t] <= peer[t] /\ peer[t] <= Lengths[t]
          /\ t = s => read[t] < peer[t]
      BY <1>0, <1>5, <2>1 DEF Reads, TypeOK
    <3> QED
      BY <2>1, <3>1
  <2>4. task' \in [Streams -> {"none", "reading", "holding", "ended"}]
    BY <1>0, <1>5 DEF Reads, TypeOK
  <2> QED
    BY <1>0, <1>5, <2>2, <2>3, <2>4 DEF Reads, TypeOK, Payloads
<1>6. ASSUME NEW p \in Payloads, Len(queue) < QueueSize, queue' = Append(queue, p)
      PROVE  queue' \in Seq(Payloads) /\ Len(queue') <= QueueSize
  <2>1. queue \in Seq(Payloads) /\ Len(queue) \in Nat
    BY <1>0, LenProperties DEF TypeOK
  <2>2. Append(queue, p) \in Seq(Payloads) /\ Len(Append(queue, p)) = Len(queue) + 1
    BY <2>1, AppendProperties
  <2> QED
    BY <1>6, <2>1, <2>2, LimitsAssumption
<1>7. ASSUME NEW s \in Streams, Enqueues(s) PROVE TypeOK'
  <2>1. Payload(s, read[s]) \in AllHeld
    BY <1>7 DEF Enqueues, AllHeld, Held
  <2>2. Payload(s, read[s]) \in Payloads
    BY <1>0, <2>1, SetsOfPayloads
  <2>3. queue' \in Seq(Payloads) /\ Len(queue') <= QueueSize
    BY <1>6, <1>7, <2>2 DEF Enqueues
  <2> QED
    BY <1>0, <1>7, <2>3 DEF Enqueues, TypeOK, Payloads
<1>8. ASSUME NEW d \in Datagrams, ReadsDatagram(d) PROVE TypeOK'
  BY <1>0, <1>8 DEF ReadsDatagram, TypeOK, Payloads
<1>9. CASE EnqueuesDatagram
  <2>1. Payload(datagram, 1) \in AllHeld
    BY <1>0, <1>9 DEF EnqueuesDatagram, CloseInv, AllHeld
  <2>2. Payload(datagram, 1) \in Payloads
    BY <1>0, <2>1, SetsOfPayloads
  <2>3. queue' \in Seq(Payloads) /\ Len(queue') <= QueueSize
    BY <1>6, <1>9, <2>2 DEF EnqueuesDatagram
  <2> QED
    BY <1>0, <1>9, <2>3 DEF EnqueuesDatagram, TypeOK, Payloads
<1>10. CASE Dispatch
  <2>1. BuffersOK(buffers') /\ refused' \subseteq Payloads
    BY <1>10, DispatchMoves
  <2>2. queue' \in Seq(Payloads) /\ Len(queue') <= QueueSize
    BY <1>10, LimitsAssumption DEF Dispatch
  <2> QED
    BY <1>0, <1>10, <2>1, <2>2 DEF Dispatch, TypeOK, Payloads, BuffersOK
<1>11. ASSUME NEW id \in 0..(MaxChannels - 1), Receive(id) PROVE TypeOK'
  <2> DEFINE i == id + 1
  <2>1. PICK p \in Buffered :
           /\ buffers' = [buffers EXCEPT ![i] = Tail(@)]
           /\ buffers[i] # <<>> /\ i \in DOMAIN buffers
           /\ received' = [received EXCEPT ![p.from] = Append(@, p.n)]
           /\ p.from \in Sources /\ p.n \in Numbers(p.from)
    BY <1>11, ReceiveMoves
  <2>2. /\ buffers \in Seq(Seq(Payloads)) /\ Len(buffers) <= MaxChannels
        /\ DOMAIN buffers = 1..Len(buffers) /\ buffers[i] \in Seq(Payloads)
    BY <1>0, <2>1, LenProperties, ElementOfSeq DEF TypeOK
  <2>3. /\ Tail(buffers[i]) \in Seq(Payloads) /\ Len(buffers[i]) \in Nat \ {0}
        /\ Len(Tail(buffers[i])) = Len(buffers[i]) - 1
    BY <2>1, <2>2, HeadTailProperties, LenProperties, EmptySeq
  <2> HIDE DEF i
  <2>4. /\ buffers' \in Seq(Seq(Payloads)) /\ Len(buffers') = Len(buffers)
        /\ DOMAIN buffers' = DOMAIN buffers /\ buffers'[i] = Tail(buffers[i])
        /\ \A k \in DOMAIN buffers \ {i} : buffers'[k] = buffers[k]
    BY <2>1, <2>2, <2>3, ExceptSeq, LenProperties
  <2>5. \A k \in DOMAIN buffers' : Len(buffers'[k]) <= MaxBuffered \/ Len(buffers'[k]) = 1
    <3>1. Len(buffers'[i]) <= MaxBuffered \/ Len(buffers'[i]) = 1
      <4>1. Len(buffers[i]) <= MaxBuffered \/ Len(buffers[i]) = 1
        BY <1>0, <2>1 DEF TypeOK
      <4>2. Len(buffers'[i]) = Len(buffers[i]) - 1 /\ Len(buffers[i]) \in Nat \ {0}
        BY <2>3, <2>4
      <4>3. \A k, l \in Nat : k = l - 1 /\ (l <= MaxBuffered \/ l = 1) => k <= MaxBuffered
        BY LimitsAssumption
      <4>4. Len(buffers'[i]) \in Nat
        BY <2>3, <2>4
      <4> QED
        BY <4>1, <4>2, <4>3, <4>4
    <3> QED
      BY <1>0, <2>4, <3>1 DEF TypeOK
  <2>6. /\ received' \in [Sources -> Seq(Nat)]
        /\ \A x \in Sources : received'[x] \in Seq(Numbers(x))
    <3>1. p.n \in Nat /\ received \in [Sources -> Seq(Nat)]
      BY <1>0, <2>1, PayloadFacts DEF TypeOK
    <3>2. /\ Append(received[p.from], p.n) \in Seq(Nat)
          /\ Append(received[p.from], p.n) \in Seq(Numbers(p.from))
      BY <1>0, <2>1, <3>1, AppendProperties DEF TypeOK
    <3> QED
      BY <1>0, <2>1, <3>1, <3>2 DEF TypeOK
  <2> QED
    BY <1>0, <1>11, <2>2, <2>4, <2>5, <2>6 DEF Receive, TypeOK, Payloads
<1>12. CASE ClearReceivedPayloads
  <2>1. Buffered \subseteq Payloads
    BY <1>0, SetsOfPayloads
  <2>2. /\ buffers \in Seq(Seq(Payloads)) /\ Len(buffers) \in Nat
        /\ DOMAIN buffers = 1..Len(buffers)
        /\ buffers' = [i \in DOMAIN buffers |-> <<>>]
    BY <1>0, <1>12, LenProperties DEF TypeOK, ClearReceivedPayloads
  <2>3. buffers' \in [1..Len(buffers) -> Seq(Payloads)]
    BY <2>2
  <2>4. buffers' \in Seq(Seq(Payloads)) /\ Len(buffers') = Len(buffers)
    BY <2>2, <2>3, LenProperties
  <2>5. \A k \in DOMAIN buffers' : Len(buffers'[k]) <= MaxBuffered
    BY <2>2, LimitsAssumption
  <2>6. cleared' \subseteq Payloads
    BY <1>0, <1>12, <2>1 DEF ClearReceivedPayloads, TypeOK
  <2> QED
    BY <1>0, <1>12, <2>4, <2>5, <2>6 DEF ClearReceivedPayloads, TypeOK, Payloads
<1>13. CASE DropConnection
  BY <1>0, <1>13, LimitsAssumption DEF DropConnection, TypeOK, Payloads
<1> QED
  BY <1>1, <1>2, <1>3, <1>4, <1>5, <1>7, <1>8, <1>9, <1>10, <1>11, <1>12, <1>13
  DEF Next, NetworkNext, StreamNext, DatagramNext, ApplicationNext

LEMMA CloseStep == IInv /\ [Next]_vars => CloseInv'
<1> SUFFICES ASSUME TypeOK, CloseInv, [Next]_vars PROVE CloseInv'
  BY DEF IInv
<1> USE DEF network, async, history
<1>1. /\ (closed <=> state = "disconnected")'
      /\ (dropped => closed)'
  <2>1. CASE Disconnect
    BY <2>1 DEF CloseInv, Disconnect
  <2>2. CASE DropConnection
    BY <2>2 DEF CloseInv, DropConnection
  <2>3. CASE ~Disconnect /\ ~DropConnection
    <3>1. UNCHANGED <<closed, dropped, state>>
      BY <2>3 DEF Next, NetworkNext, StreamNext, DatagramNext, ApplicationNext,
       PeerSends, ConnectionLost, Accept, ListenerEnds, Reads, Enqueues, StreamEnds,
       ReadsDatagram, EnqueuesDatagram, DatagramTaskEnds, Dispatch, Receive,
       ClearReceivedPayloads, vars
    <3> QED
      BY <3>1 DEF CloseInv
  <2> QED
    BY <2>1, <2>2, <2>3
<1>2. /\ (datagramTask = "holding" <=> datagram # None)'
      /\ (datagram \notin flying)'
  <2>1. None \notin Datagrams
    BY SourceFacts
  <2> QED
    BY <2>1 DEF CloseInv, Next, NetworkNext, StreamNext, DatagramNext, ApplicationNext,
     PeerSends, ConnectionLost, Accept, ListenerEnds, Reads, Enqueues, StreamEnds,
     ReadsDatagram, EnqueuesDatagram, DatagramTaskEnds, Dispatch, Receive,
     ClearReceivedPayloads, Disconnect, DropConnection, vars, TypeOK
<1>3. ASSUME NEW t \in Streams, task'[t] = "holding" PROVE read'[t] > 0
  <2>1. ASSUME NEW s \in Streams, Reads(s) PROVE read'[t] > 0
    <3>1. read[t] \in Nat /\ read \in [Streams -> Nat]
      BY DEF TypeOK
    <3>2. CASE read' = [read EXCEPT ![s] = @ + 1]
      <4>1. t = s \/ task[t] = "holding"
        BY <1>3, <2>1 DEF Reads, TypeOK
      <4> QED
        BY <3>1, <3>2, <4>1 DEF CloseInv
    <3>3. CASE task' = [task EXCEPT ![s] = "ended"] /\ read' = read
      BY <1>3, <3>3 DEF CloseInv, TypeOK
    <3> QED
      BY <2>1, <3>2, <3>3 DEF Reads
  <2>2. CASE ~ \E s \in Streams : Reads(s)
    <3>1. read' = read /\ task[t] = "holding"
      BY <1>3, <2>2 DEF Next, NetworkNext, StreamNext, DatagramNext, ApplicationNext,
       PeerSends, ConnectionLost, Accept, ListenerEnds, Enqueues, StreamEnds,
       ReadsDatagram, EnqueuesDatagram, DatagramTaskEnds, Dispatch, Receive,
       ClearReceivedPayloads, Disconnect, DropConnection, vars, TypeOK
    <3> QED
      BY <3>1 DEF CloseInv
  <2> QED
    BY <2>1, <2>2
<1> QED
  BY <1>1, <1>2, <1>3 DEF CloseInv

(* Steps that move no payload at all. *)
LEMMA QuietMoves ==
  ASSUME IInv,
         \/ \E s \in Streams : PeerSends(s) \/ Accept(s)
         \/ ConnectionLost \/ ListenerEnds \/ Disconnect \/ UNCHANGED vars
  PROVE  UNCHANGED places /\ AllHeld' = AllHeld /\ \A x : Count(x)' = Count(x)
<1>1. UNCHANGED <<places, read, flying, datagram>>
  BY DEF PeerSends, Accept, ConnectionLost, ListenerEnds, Disconnect, vars, network, async,
         history, places
<1>2. \A s \in Streams : task'[s] = "holding" <=> task[s] = "holding"
  BY DEF IInv, TypeOK, PeerSends, Accept, ConnectionLost, ListenerEnds, Disconnect, vars, async
<1>3. AllHeld' = AllHeld
  BY <1>1, <1>2 DEF AllHeld, Held
<1> QED
  BY <1>1, <1>3 DEF Count, places

(* The end of a task: what it held is gone, but only after the close.      *)
LEMMA EndMoves ==
  ASSUME IInv, (\E s \in Streams : StreamEnds(s)) \/ DatagramTaskEnds
  PROVE  /\ UNCHANGED <<places, read, peer, closed>> /\ \A x : Count(x)' = Count(x)
         /\ AllHeld' \subseteq AllHeld
         /\ ~closed => AllHeld' = AllHeld
<1>0. TypeOK /\ CloseInv
  BY DEF IInv
<1>1. UNCHANGED <<places, read, peer, flying, closed>>
  BY DEF StreamEnds, DatagramTaskEnds, network, async, history, places
<1>2. \A x : Count(x)' = Count(x)
  BY <1>1 DEF Count
<1>3. ASSUME NEW s \in Streams, StreamEnds(s)
      PROVE  /\ AllHeld' \subseteq AllHeld
             /\ ~closed => AllHeld' = AllHeld
  <2>1. /\ \A t \in Streams : task'[t] = "holding" => task[t] = "holding"
        /\ ~closed => \A t \in Streams : task'[t] = "holding" <=> task[t] = "holding"
        /\ UNCHANGED <<read, datagram>>
    BY <1>0, <1>3 DEF StreamEnds, TypeOK, CloseInv
  <2> QED
    BY <2>1 DEF AllHeld, Held
<1>4. ASSUME DatagramTaskEnds
      PROVE  /\ AllHeld' \subseteq AllHeld
             /\ ~closed => AllHeld' = AllHeld
  <2>1. /\ UNCHANGED <<read, task>> /\ datagram' = None
        /\ ~closed => datagram = None
    BY <1>0, <1>4 DEF DatagramTaskEnds, TypeOK, CloseInv
  <2>2. AllHeld' = Held
    BY <2>1 DEF AllHeld, Held
  <2>3. Held \subseteq AllHeld /\ (datagram = None => AllHeld = Held)
    BY DEF AllHeld
  <2>4. AllHeld' \subseteq AllHeld
    BY <2>2, <2>3
  <2>5. ASSUME ~closed PROVE AllHeld' = AllHeld
    <3>1. datagram = None
      BY <2>1, <2>5
    <3> QED
      BY <2>2, <2>3, <3>1
  <2> QED
    BY <2>4, <2>5
<1> QED
  BY <1>1, <1>2, <1>3, <1>4

(* The next payload of a source is read, and held.                         *)
LEMMA ReadMoves ==
  ASSUME IInv,
         (\E s \in Streams : Reads(s)) \/ (\E d \in Datagrams : ReadsDatagram(d))
  PROVE  /\ UNCHANGED <<places, closed, peer>>
         /\ \/ AllHeld' = AllHeld /\ \A x : Count(x)' = Count(x)
            \/ \E x \in Sources :
                 /\ AllHeld' = AllHeld \cup {Payload(x, Count(x) + 1)}
                 /\ Count(x) \in Nat /\ Count(x)' = Count(x) + 1
                 /\ \A y \in Sources \ {x} : Count(y)' = Count(y)
<1>0. TypeOK /\ CloseInv
  BY DEF IInv
<1>1. UNCHANGED <<places, closed, peer>>
  BY DEF Reads, ReadsDatagram, history, places, network
<1>2. ASSUME NEW s \in Streams, Reads(s), <<s, read[s] + 1>> \in Refused
      PROVE  AllHeld' = AllHeld /\ \A x : Count(x)' = Count(x)
  <2>1. /\ \A t \in Streams : task'[t] = "holding" <=> task[t] = "holding"
        /\ UNCHANGED <<read, datagram, flying>>
    BY <1>0, <1>2 DEF Reads, TypeOK, network
  <2> QED
    BY <2>1 DEF AllHeld, Held, Count
<1>3. ASSUME NEW s \in Streams, Reads(s), <<s, read[s] + 1>> \notin Refused
      PROVE  /\ s \in Sources
             /\ AllHeld' = AllHeld \cup {Payload(s, Count(s) + 1)}
             /\ Count(s) \in Nat /\ Count(s)' = Count(s) + 1
             /\ \A y \in Sources \ {s} : Count(y)' = Count(y)
  <2>1. /\ task[s] = "reading" /\ read[s] \in Nat
        /\ task'[s] = "holding" /\ read'[s] = read[s] + 1
        /\ \A t \in Streams \ {s} : task'[t] = task[t] /\ read'[t] = read[t]
        /\ UNCHANGED <<datagram, flying>>
    BY <1>0, <1>3 DEF Reads, TypeOK, network
  <2>2. s \in Sources
    BY SourceFacts
  <2>3. Count(s) = read[s] /\ Count(s)' = read'[s]
    BY DEF Count
  <2>4. \A y \in Sources \ {s} : Count(y)' = Count(y)
    BY <2>1, SourceFacts DEF Count
  <2>5. AllHeld' = AllHeld \cup {Payload(s, Count(s) + 1)}
    BY <2>1, <2>3 DEF AllHeld, Held
  <2> QED
    BY <2>1, <2>2, <2>3, <2>4, <2>5
<1>4. ASSUME NEW d \in Datagrams, ReadsDatagram(d)
      PROVE  /\ d \in Sources
             /\ AllHeld' = AllHeld \cup {Payload(d, Count(d) + 1)}
             /\ Count(d) \in Nat /\ Count(d)' = Count(d) + 1
             /\ \A y \in Sources \ {d} : Count(y)' = Count(y)
  <2>1. /\ datagram = None /\ datagram' = d /\ d # None
        /\ d \in flying /\ flying' = flying \ {d}
        /\ UNCHANGED <<task, read>>
    BY <1>0, <1>4, SourceFacts DEF ReadsDatagram, CloseInv
  <2>2. d \in Sources /\ d \notin Streams
    BY SourceFacts
  <2>3. Count(d) = 0 /\ Count(d)' = 1
    BY <2>1, <2>2 DEF Count
  <2>4. \A y \in Sources \ {d} : Count(y)' = Count(y)
    BY <2>1 DEF Count
  <2>5. AllHeld' = AllHeld \cup {Payload(d, 1)}
    BY <2>1 DEF AllHeld, Held
  <2> QED
    BY <2>2, <2>3, <2>4, <2>5
<1> QED
  BY <1>1, <1>2, <1>3, <1>4

(* A task puts the payload it holds into the queue.                        *)
LEMMA EnqueueMoves ==
  ASSUME IInv, (\E s \in Streams : Enqueues(s)) \/ EnqueuesDatagram
  PROVE  /\ UNCHANGED <<buffers, received, refused, cleared, closed, peer, read>>
         /\ \A x : Count(x)' = Count(x)
         /\ \E p \in AllHeld : /\ queue' = Append(queue, p)
                               /\ AllHeld' = AllHeld \ {p}
                               /\ Queued' = Queued \cup {p}
                               /\ InOrder(queue')
<1>0. TypeOK /\ CloseInv
  BY DEF IInv
<1>1. UNCHANGED <<buffers, received, refused, cleared, closed, peer, read, flying>>
  BY DEF Enqueues, EnqueuesDatagram, network, async, history
<1>2. \A x : Count(x)' = Count(x)
  BY <1>1 DEF Count
<1>3. ASSUME NEW p \in AllHeld, queue' = Append(queue, p)
      PROVE  Queued' = Queued \cup {p} /\ InOrder(queue')
  <2>1. p \in Payloads /\ queue \in Seq(Payloads)
    BY <1>0, SetsOfPayloads DEF TypeOK
  <2>2. InOrder(queue) /\ Before(ToSet(queue), {p})
    BY DEF IInv, SortedInv, PlaceInv, Handed, Queued, Before
  <2> QED
    BY <1>3, <2>1, <2>2, AppendInOrder DEF Queued
<1>4. ASSUME NEW s \in Streams, Enqueues(s)
      PROVE  /\ Payload(s, read[s]) \in AllHeld
             /\ queue' = Append(queue, Payload(s, read[s]))
             /\ AllHeld' = AllHeld \ {Payload(s, read[s])}
  <2> DEFINE p == Payload(s, read[s])
  <2>1. /\ task[s] = "holding" /\ task'[s] # "holding"
        /\ \A t \in Streams \ {s} : task'[t] = task[t]
        /\ UNCHANGED <<read, datagram>> /\ queue' = Append(queue, p)
    BY <1>0, <1>4 DEF Enqueues, TypeOK
  <2>2. p \in AllHeld
    BY <2>1 DEF AllHeld, Held
  <2>3. AllHeld' = AllHeld \ {p}
    <3>1. \A t \in Streams \ {s} : Payload(t, read[t]) # p
      BY PayloadFacts
    <3>2. datagram # None => Payload(datagram, 1) # p
      BY <1>0, PayloadFacts, SourceFacts DEF TypeOK
    <3> QED
      BY <2>1, <3>1, <3>2 DEF AllHeld, Held
  <2> QED
    BY <2>1, <2>2, <2>3
<1>5. ASSUME EnqueuesDatagram
      PROVE  /\ Payload(datagram, 1) \in AllHeld
             /\ queue' = Append(queue, Payload(datagram, 1))
             /\ AllHeld' = AllHeld \ {Payload(datagram, 1)}
  <2> DEFINE p == Payload(datagram, 1)
  <2>1. /\ datagram \in Datagrams /\ datagram # None /\ datagram' = None
        /\ UNCHANGED <<read, task>> /\ queue' = Append(queue, p)
    BY <1>0, <1>5 DEF EnqueuesDatagram, TypeOK, CloseInv
  <2>2. \A s \in Streams : Payload(s, read[s]) # p
    BY <2>1, PayloadFacts, SourceFacts
  <2> QED
    BY <2>1, <2>2 DEF AllHeld, Held
<1> QED
  BY <1>1, <1>2, <1>3, <1>4, <1>5

(* The application's own steps leave the tasks alone.                      *)
LEMMA ApplicationMoves ==
  ASSUME \/ Dispatch \/ ClearReceivedPayloads \/ DropConnection
         \/ \E id \in 0..(MaxChannels - 1) : Receive(id)
  PROVE  /\ AllHeld' = AllHeld /\ \A x : Count(x)' = Count(x)
         /\ UNCHANGED <<closed, peer, read>>
<1>1. UNCHANGED <<task, read, datagram, flying, closed, peer>>
  BY DEF Dispatch, Receive, ClearReceivedPayloads, DropConnection, network, async
<1> QED
  BY <1>1 DEF AllHeld, Held, Count

(* A step after which nothing was queued, buffered or held that was not    *)
(* before, and no payload changed its place in any other way.              *)
LEMMA PlaceKept ==
  ASSUME PlaceInv, Queued' \subseteq Queued, Buffered' \subseteq Buffered,
         UNCHANGED <<received, refused, cleared>>, AllHeld' \subseteq AllHeld,
         \A x : Count(x)' = Count(x)
  PROVE  PlaceInv'
<1>1. Received' = Received
  BY DEF Received
<1>2. Handed' \subseteq Handed
  BY <1>1 DEF Handed
<1>3. \A p \in Handed' : p.n <= Count(p.from)'
  BY <1>2 DEF PlaceInv
<1>4. /\ Before(Handed', AllHeld')
      /\ Before(Received' \cup Buffered' \cup refused' \cup cleared', Queued')
      /\ Before(Received' \cup cleared', Buffered')
  BY <1>1, <1>2 DEF PlaceInv, Before
<1>5. /\ refused' \cap (Received' \cup Buffered' \cup cleared') = {}
      /\ Received' \cap cleared' = {}
  BY <1>1 DEF PlaceInv
<1> QED
  BY <1>3, <1>4, <1>5 DEF PlaceInv

LEMMA PlaceStep == IInv /\ [Next]_vars => PlaceInv'
<1> SUFFICES ASSUME IInv, [Next]_vars PROVE PlaceInv'
  OBVIOUS
<1>0. /\ PlaceInv /\ TypeOK /\ CloseInv
      /\ Queued \subseteq Payloads /\ Buffered \subseteq Payloads
      /\ Received \subseteq Payloads /\ refused \subseteq Payloads
      /\ cleared \subseteq Payloads /\ AllHeld \subseteq Payloads
      /\ Handed \subseteq Payloads
  BY SetsOfPayloads DEF IInv, Handed
<1>1. CASE \/ \E s \in Streams : PeerSends(s) \/ Accept(s)
           \/ ConnectionLost \/ ListenerEnds \/ Disconnect \/ UNCHANGED vars
  <2>1. UNCHANGED places /\ AllHeld' = AllHeld /\ \A x : Count(x)' = Count(x)
    BY <1>1, QuietMoves
  <2>2. Queued' = Queued /\ Buffered' = Buffered
    BY <2>1 DEF places, Queued, Buffered
  <2> QED
    BY <1>0, <2>1, <2>2, PlaceKept DEF places
<1>2. CASE (\E s \in Streams : StreamEnds(s)) \/ DatagramTaskEnds
  <2>1. UNCHANGED places /\ AllHeld' \subseteq AllHeld /\ \A x : Count(x)' = Count(x)
    BY <1>2, EndMoves
  <2>2. Queued' = Queued /\ Buffered' = Buffered
    BY <2>1 DEF places, Queued, Buffered
  <2> QED
    BY <1>0, <2>1, <2>2, PlaceKept DEF places
<1>3. CASE (\E s \in Streams : Reads(s)) \/ (\E d \in Datagrams : ReadsDatagram(d))
  <2>1. /\ UNCHANGED places
        /\ \/ AllHeld' = AllHeld /\ \A x : Count(x)' = Count(x)
           \/ \E x \in Sources :
                /\ AllHeld' = AllHeld \cup {Payload(x, Count(x) + 1)}
                /\ Count(x) \in Nat /\ Count(x)' = Count(x) + 1
                /\ \A y \in Sources \ {x} : Count(y)' = Count(y)
    BY <1>3, ReadMoves
  <2>2. /\ Queued' = Queued /\ Buffered' = Buffered /\ Received' = Received
        /\ Handed' = Handed /\ UNCHANGED <<received, refused, cleared>>
    BY <2>1 DEF places, Queued, Buffered, Received, Handed
  <2>3. CASE AllHeld' = AllHeld /\ \A x : Count(x)' = Count(x)
    BY <1>0, <2>2, <2>3, PlaceKept
  <2>4. ASSUME NEW x \in Sources,
               AllHeld' = AllHeld \cup {Payload(x, Count(x) + 1)},
               Count(x) \in Nat, Count(x)' = Count(x) + 1,
               \A y \in Sources \ {x} : Count(y)' = Count(y)
        PROVE  PlaceInv'
    <3>1. \A p \in Handed : p.from \in Sources /\ p.n \in Nat /\ p.n <= Count(p.from)
      BY <1>0, PayloadFacts DEF PlaceInv
    <3>2. \A p \in Handed : p.n <= Count(p.from)'
      <4> SUFFICES ASSUME NEW p \in Handed PROVE p.n <= Count(p.from)'
        OBVIOUS
      <4>1. CASE p.from = x
        BY <2>4, <3>1, <4>1
      <4>2. CASE p.from # x
        BY <2>4, <3>1, <4>2
      <4> QED
        BY <4>1, <4>2
    <3>3. \A p \in Handed : p.from = x => p.n < Count(x) + 1
      BY <2>4, <3>1
    <3>4. Before(Handed, AllHeld')
      <4>1. Payload(x, Count(x) + 1).from = x /\ Payload(x, Count(x) + 1).n = Count(x) + 1
        BY PayloadFacts
      <4> QED
        BY <1>0, <2>4, <3>3, <4>1 DEF PlaceInv, Before
    <3> QED
      BY <1>0, <2>2, <3>2, <3>4 DEF PlaceInv
  <2> QED
    BY <2>1, <2>3, <2>4
<1>4. CASE (\E s \in Streams : Enqueues(s)) \/ EnqueuesDatagram
  <2>1. PICK p \in AllHeld : AllHeld' = AllHeld \ {p} /\ Queued' = Queued \cup {p}
    BY <1>4, EnqueueMoves
  <2>2. /\ UNCHANGED <<buffers, received, refused, cleared>>
        /\ \A x : Count(x)' = Count(x)
    BY <1>4, EnqueueMoves
  <2>3. /\ Buffered' = Buffered /\ Received' = Received
        /\ UNCHANGED <<refused, cleared>> /\ Handed' = Handed \cup {p}
    BY <2>1, <2>2 DEF Buffered, Received, Handed
  <2>4. /\ p.n = Count(p.from) /\ p.n \in Nat
        /\ \A q \in AllHeld : q.from = p.from => q = p
    BY <1>0, HeldIsLast, PayloadFacts
  <2>5. \A q \in Handed' : q.n <= Count(q.from)'
    <3>1. p.n <= p.n
      BY <2>4
    <3> QED
      BY <1>0, <2>2, <2>3, <2>4, <3>1 DEF PlaceInv
  <2>6. Before(Handed', AllHeld')
    BY <1>0, <2>1, <2>3, <2>4 DEF PlaceInv, Before
  <2>7. Before(Received' \cup Buffered' \cup refused' \cup cleared', Queued')
    BY <1>0, <2>1, <2>3 DEF PlaceInv, Before, Handed
  <2> QED
    BY <1>0, <2>3, <2>5, <2>6, <2>7 DEF PlaceInv
<1>5. CASE Dispatch
  <2>1. /\ Buffered' \cup refused' = Buffered \cup refused \cup Queued
        /\ Queued' = {}
        /\ Before(Received \cup cleared, Buffered')
        /\ refused' \cap (Received \cup Buffered' \cup cleared) = {}
    BY <1>5, DispatchMoves
  <2>2. AllHeld' = AllHeld /\ \A x : Count(x)' = Count(x)
    BY <1>5, ApplicationMoves
  <2>3. Received' = Received /\ cleared' = cleared
    BY <1>5 DEF Dispatch, Received
  <2>4. Handed' = Handed
    BY <2>1, <2>3 DEF Handed
  <2>5. Before(Received' \cup Buffered' \cup refused' \cup cleared', Queued')
    BY <2>1 DEF Before
  <2> QED
    BY <1>0, <2>1, <2>2, <2>3, <2>4, <2>5 DEF PlaceInv
<1>6. ASSUME NEW id \in 0..(MaxChannels - 1), Receive(id) PROVE PlaceInv'
  <2>1. PICK p \in Buffered : /\ Buffered = Buffered' \cup {p}
                              /\ Before({p}, Buffered')
                              /\ Received' = Received \cup {p}
    BY <1>6, ReceiveMoves
  <2>2. AllHeld' = AllHeld /\ \A x : Count(x)' = Count(x)
    BY <1>6, ApplicationMoves
  <2>3. Queued' = Queued /\ UNCHANGED <<refused, cleared>>
    BY <1>6 DEF Receive, Queued
  <2>4. Handed' = Handed
    BY <2>1, <2>3 DEF Handed
  <2>5. Before(Received' \cup Buffered' \cup refused' \cup cleared', Queued')
    BY <1>0, <2>1, <2>3 DEF PlaceInv, Before
  <2>6. Before(Received' \cup cleared', Buffered')
    BY <1>0, <2>1, <2>3 DEF PlaceInv, Before
  <2>7. refused' \cap (Received' \cup Buffered' \cup cleared') = {}
    BY <1>0, <2>1, <2>3 DEF PlaceInv
  <2>8. Received' \cap cleared' = {}
    <3>1. cleared \cap Buffered = {}
      <4>1. Before(cleared, Buffered)
        BY <1>0 DEF PlaceInv, Before
      <4> QED
        BY <1>0, <4>1, BeforeApart
    <3> QED
      BY <1>0, <2>1, <2>3, <3>1 DEF PlaceInv
  <2> QED
    BY <1>0, <2>2, <2>4, <2>5, <2>6, <2>7, <2>8 DEF PlaceInv
<1>7. CASE ClearReceivedPayloads
  <2>1. /\ Buffered' = {} /\ cleared' = cleared \cup Buffered
        /\ Queued' = Queued /\ Received' = Received /\ refused' = refused
    <3>1. \A i \in DOMAIN buffers' : ToSet(buffers'[i]) = {}
      BY <1>7 DEF ClearReceivedPayloads, ToSet
    <3> QED
      BY <1>7, <3>1 DEF ClearReceivedPayloads, Buffered, Queued, Received
  <2>2. AllHeld' = AllHeld /\ \A x : Count(x)' = Count(x)
    BY <1>7, ApplicationMoves
  <2>3. Handed' = Handed
    BY <2>1 DEF Handed
  <2>4. Received \cap Buffered = {}
    <3>1. Before(Received, Buffered)
      BY <1>0 DEF PlaceInv, Before
    <3> QED
      BY <1>0, <3>1, BeforeApart
  <2>5. Before(Received' \cup Buffered' \cup refused' \cup cleared', Queued')
    BY <1>0, <2>1 DEF PlaceInv, Before
  <2>6. Before(Received' \cup cleared', Buffered')
    BY <2>1 DEF Before
  <2> QED
    BY <1>0, <2>1, <2>2, <2>3, <2>4, <2>5, <2>6 DEF PlaceInv
<1>8. CASE DropConnection
  <2>1. Queued' = {} /\ Buffered' = {}
    BY <1>8 DEF DropConnection, Queued, Buffered, ToSet
  <2>2. AllHeld' = AllHeld /\ \A x : Count(x)' = Count(x)
    BY <1>8, ApplicationMoves
  <2>3. UNCHANGED <<received, refused, cleared>>
    BY <1>8 DEF DropConnection, history
  <2> QED
    BY <1>0, <2>1, <2>2, <2>3, PlaceKept
<1> QED
  BY <1>1, <1>2, <1>3, <1>4, <1>5, <1>6, <1>7, <1>8
  DEF Next, NetworkNext, StreamNext, DatagramNext, ApplicationNext

LEMMA AccountedStep == IInv /\ [Next]_vars => AccountedInv'
<1> SUFFICES ASSUME IInv, [Next]_vars, ~closed', NEW x \in Sources, NEW n \in 1..Count(x)'
             PROVE  Payload(x, n) \in Handed' \cup AllHeld'
  BY DEF AccountedInv
<1>0. /\ TypeOK /\ CloseInv
      /\ ~closed => \A y \in Sources : \A m \in 1..Count(y) : Payload(y, m) \in Handed \cup AllHeld
  BY DEF IInv, AccountedInv
<1>1. CASE \/ \E s \in Streams : PeerSends(s) \/ Accept(s)
           \/ ConnectionLost \/ ListenerEnds \/ UNCHANGED vars
  <2>1. UNCHANGED places /\ AllHeld' = AllHeld /\ \A y : Count(y)' = Count(y)
    BY <1>1, QuietMoves
  <2>2. Handed' = Handed
    BY <2>1 DEF places, Handed, Queued, Buffered, Received
  <2>3. ~closed
    BY <1>1 DEF PeerSends, Accept, ConnectionLost, ListenerEnds, vars
  <2> QED
    BY <1>0, <2>1, <2>2, <2>3
<1>2. CASE (\E s \in Streams : StreamEnds(s)) \/ DatagramTaskEnds
  <2>1. /\ UNCHANGED places /\ \A y : Count(y)' = Count(y)
        /\ ~closed /\ AllHeld' = AllHeld
    BY <1>2, EndMoves
  <2>2. Handed' = Handed
    BY <2>1 DEF places, Handed, Queued, Buffered, Received
  <2> QED
    BY <1>0, <2>1, <2>2
<1>3. CASE (\E s \in Streams : Reads(s)) \/ (\E d \in Datagrams : ReadsDatagram(d))
  <2>1. /\ UNCHANGED <<places, closed>>
        /\ \/ AllHeld' = AllHeld /\ \A y : Count(y)' = Count(y)
           \/ \E y \in Sources :
                /\ AllHeld' = AllHeld \cup {Payload(y, Count(y) + 1)}
                /\ Count(y) \in Nat /\ Count(y)' = Count(y) + 1
                /\ \A z \in Sources \ {y} : Count(z)' = Count(z)
    BY <1>3, ReadMoves
  <2>2. Handed' = Handed /\ ~closed
    BY <2>1 DEF places, Handed, Queued, Buffered, Received
  <2>3. CASE AllHeld' = AllHeld /\ \A y : Count(y)' = Count(y)
    BY <1>0, <2>2, <2>3
  <2>4. ASSUME NEW y \in Sources,
               AllHeld' = AllHeld \cup {Payload(y, Count(y) + 1)},
               Count(y) \in Nat, Count(y)' = Count(y) + 1,
               \A z \in Sources \ {y} : Count(z)' = Count(z)
        PROVE  Payload(x, n) \in Handed' \cup AllHeld'
    <3>1. n \in 1..Count(x) \/ (x = y /\ n = Count(y) + 1)
      BY <2>4
    <3> QED
      BY <1>0, <2>2, <2>4, <3>1
  <2> QED
    BY <2>1, <2>3, <2>4
<1>4. CASE (\E s \in Streams : Enqueues(s)) \/ EnqueuesDatagram
  <2>1. PICK p \in AllHeld : AllHeld' = AllHeld \ {p} /\ Queued' = Queued \cup {p}
    BY <1>4, EnqueueMoves
  <2>2. /\ UNCHANGED <<buffers, received, refused, cleared, closed>>
        /\ \A y : Count(y)' = Count(y)
    BY <1>4, EnqueueMoves
  <2>3. Handed' = Handed \cup {p}
    BY <2>1, <2>2 DEF Buffered, Received, Handed
  <2> QED
    BY <1>0, <2>1, <2>2, <2>3
<1>5. CASE Dispatch
  <2>1. /\ Buffered' \cup refused' = Buffered \cup refused \cup Queued
        /\ Received' = Received /\ cleared' = cleared
    BY <1>5, DispatchMoves DEF Dispatch, Received
  <2>2. Handed \subseteq Handed'
    BY <2>1 DEF Handed
  <2> QED
    BY <1>0, <1>5, <2>2, ApplicationMoves
<1>6. ASSUME NEW id \in 0..(MaxChannels - 1), Receive(id)
      PROVE  Payload(x, n) \in Handed' \cup AllHeld'
  <2>1. PICK p \in Buffered : /\ Buffered = Buffered' \cup {p}
                              /\ Received' = Received \cup {p}
    BY <1>6, ReceiveMoves
  <2>2. Queued' = Queued /\ UNCHANGED <<refused, cleared>>
    BY <1>6 DEF Receive, Queued
  <2>3. Handed \subseteq Handed'
    BY <2>1, <2>2 DEF Handed
  <2> QED
    BY <1>0, <1>6, <2>3, ApplicationMoves
<1>7. CASE ClearReceivedPayloads
  <2>1. /\ cleared' = cleared \cup Buffered /\ Queued' = Queued
        /\ Received' = Received /\ refused' = refused
    BY <1>7 DEF ClearReceivedPayloads, Queued, Received
  <2>2. Handed \subseteq Handed'
    BY <2>1 DEF Handed
  <2> QED
    BY <1>0, <1>7, <2>2, ApplicationMoves
<1>8. CASE Disconnect \/ DropConnection
  BY <1>0, <1>8 DEF Disconnect, DropConnection, CloseInv
<1> QED
  BY <1>1, <1>2, <1>3, <1>4, <1>5, <1>6, <1>7, <1>8
  DEF Next, NetworkNext, StreamNext, DatagramNext, ApplicationNext

LEMMA SortedStep == IInv /\ [Next]_vars => SortedInv'
<1> SUFFICES ASSUME IInv, [Next]_vars PROVE SortedInv'
  OBVIOUS
<1>0. /\ SortedInv /\ PlaceInv /\ TypeOK /\ CloseInv
      /\ Buffered \subseteq Payloads /\ Received \subseteq Payloads
  BY SetsOfPayloads DEF IInv
<1>1. CASE \/ \E s \in Streams : PeerSends(s) \/ Accept(s)
           \/ ConnectionLost \/ ListenerEnds \/ Disconnect \/ UNCHANGED vars
  <2>1. UNCHANGED places
    BY <1>1, QuietMoves
  <2> QED
    BY <1>0, <2>1 DEF SortedInv, places, InOrder
<1>2. CASE (\E s \in Streams : StreamEnds(s)) \/ DatagramTaskEnds
  <2>1. UNCHANGED places
    BY <1>2, EndMoves
  <2> QED
    BY <1>0, <2>1 DEF SortedInv, places, InOrder
<1>3. CASE (\E s \in Streams : Reads(s)) \/ (\E d \in Datagrams : ReadsDatagram(d))
  <2>1. UNCHANGED places
    BY <1>3, ReadMoves
  <2> QED
    BY <1>0, <2>1 DEF SortedInv, places, InOrder
<1>4. CASE (\E s \in Streams : Enqueues(s)) \/ EnqueuesDatagram
  <2>1. InOrder(queue') /\ UNCHANGED <<buffers, received>>
    BY <1>4, EnqueueMoves
  <2> QED
    BY <1>0, <2>1 DEF SortedInv, InOrder
<1>5. CASE Dispatch
  <2>1. BuffersOK(buffers')
    BY <1>5, DispatchMoves
  <2>2. InOrder(queue') /\ received' = received
    BY <1>5 DEF Dispatch, InOrder
  <2> QED
    BY <1>0, <2>1, <2>2 DEF SortedInv, BuffersOK, InOrder
<1>6. ASSUME NEW id \in 0..(MaxChannels - 1), Receive(id) PROVE SortedInv'
  <2> DEFINE i == id + 1
  <2>1. PICK p \in Buffered :
           /\ buffers' = [buffers EXCEPT ![i] = Tail(@)]
           /\ buffers[i] # <<>> /\ i \in DOMAIN buffers
           /\ received' = [received EXCEPT ![p.from] = Append(@, p.n)]
           /\ p.from \in Sources /\ p.n \in Numbers(p.from)
    BY <1>6, ReceiveMoves
  <2> HIDE DEF i
  <2>2. ASSUME NEW k \in DOMAIN buffers'
        PROVE  /\ InOrder(buffers'[k])
               /\ \A q \in ToSet(buffers'[k]) : ChannelOf[q.from] + 1 = k
    <3>1. /\ k \in DOMAIN buffers /\ buffers[i] \in Seq(Payloads)
          /\ buffers'[k] = IF k = i THEN Tail(buffers[i]) ELSE buffers[k]
          /\ \A j \in DOMAIN buffers : 
               /\ InOrder(buffers[j])
               /\ \A q \in ToSet(buffers[j]) : ChannelOf[q.from] + 1 = j
      BY <1>0, <2>1, LenProperties, ElementOfSeq DEF TypeOK, SortedInv
    <3>2. InOrder(Tail(buffers[i])) /\ ToSet(Tail(buffers[i])) \subseteq ToSet(buffers[i])
      BY <2>1, <3>1, HeadFirst
    <3> QED
      BY <2>1, <3>1, <3>2
  <2>3. ASSUME NEW x \in Sources, NEW k \in DOMAIN received'[x], NEW l \in DOMAIN received'[x],
               k < l
        PROVE  received'[x][k] < received'[x][l]
    <3>1. /\ received \in [Sources -> Seq(Nat)] /\ received[x] \in Seq(Nat)
          /\ \A m, n \in DOMAIN received[x] : m < n => received[x][m] < received[x][n]
      BY <1>0 DEF TypeOK, SortedInv
    <3>2. CASE x # p.from
      BY <2>1, <2>3, <3>1, <3>2
    <3>3. CASE x = p.from
      <4> DEFINE r == received[x]
                 t == Append(r, p.n)
      <4>1. received'[x] = t /\ p.n \in Nat
        BY <2>1, <3>1, <3>3, PayloadFacts
      <4>2. /\ Len(r) \in Nat /\ DOMAIN r = 1..Len(r)
            /\ DOMAIN t = 1..(Len(r) + 1)
            /\ \A m \in 1..Len(r) : t[m] = r[m]
            /\ t[Len(r) + 1] = p.n
        BY <3>1, <4>1, AppendIndex
      <4>3. \A m \in DOMAIN r : r[m] < p.n
        <5> SUFFICES ASSUME NEW m \in DOMAIN r PROVE r[m] < p.n
          OBVIOUS
        <5>1. Payload(x, r[m]) \in Received
          BY ReceivedOf DEF ToSet
        <5>2. Before(Received, Buffered)
          BY <1>0 DEF PlaceInv, Before
        <5> QED
          BY <3>3, <5>1, <5>2, PayloadFacts DEF Before
      <4>4. k \in 1..Len(r) /\ (l \in 1..Len(r) \/ l = Len(r) + 1)
        BY <2>3, <4>1, <4>2
      <4> HIDE DEF r, t
      <4>5. r[k] < p.n /\ (l \in 1..Len(r) => r[k] < r[l])
        BY <2>3, <3>1, <4>2, <4>3, <4>4 DEF r
      <4> QED
        BY <4>1, <4>2, <4>4, <4>5
    <3> QED
      BY <3>2, <3>3
  <2>4. queue' = queue
    BY <1>6 DEF Receive
  <2> QED
    BY <1>0, <2>2, <2>3, <2>4 DEF SortedInv, InOrder
<1>7. CASE ClearReceivedPayloads
  <2>1. /\ \A i \in DOMAIN buffers' : buffers'[i] = <<>>
        /\ UNCHANGED <<queue, received>>
    BY <1>7 DEF ClearReceivedPayloads
  <2> QED
    BY <1>0, <2>1 DEF SortedInv, InOrder, ToSet
<1>8. CASE DropConnection
  <2>1. queue' = <<>> /\ buffers' = <<>> /\ received' = received
    BY <1>8 DEF DropConnection, history
  <2> QED
    BY <1>0, <2>1 DEF SortedInv, InOrder
<1> QED
  BY <1>1, <1>2, <1>3, <1>4, <1>5, <1>6, <1>7, <1>8
  DEF Next, NetworkNext, StreamNext, DatagramNext, ApplicationNext

(* A payload that the application takes while the connection lasts: those  *)
(* of its source that came before it were taken, refused or cleared.       *)
LEMMA NothingOlder ==
  ASSUME IInv, ~closed, NEW p \in Buffered, NEW B, Buffered = B \cup {p}, Before({p}, B),
         NEW k \in 1..(p.n - 1)
  PROVE  k \in ToSet(received[p.from]) \/ Payload(p.from, k) \in refused \cup cleared
<1> DEFINE q == Payload(p.from, k)
<1>0. /\ TypeOK /\ CloseInv /\ PlaceInv /\ p \in Payloads /\ p.from \in Sources
      /\ p.n \in Nat /\ q.from = p.from /\ q.n = k /\ k \in Nat /\ k < p.n
  BY SetsOfPayloads, PayloadFacts DEF IInv
<1>1. k \in 1..Count(p.from)
  <2>1. p.n <= Count(p.from)
    BY <1>0 DEF PlaceInv, Handed
  <2>2. Count(p.from) \in Nat
    BY <1>0, SourceFacts DEF Count, TypeOK
  <2> QED
    BY <1>0, <2>1, <2>2
<1>2. q \in Handed \cup AllHeld
  BY <1>0, <1>1 DEF IInv, AccountedInv
<1> HIDE DEF q
<1>3. ~(p.n < k) /\ k # p.n
  BY <1>0
<1>4. q \notin AllHeld /\ q \notin Queued
  BY <1>0, <1>3 DEF PlaceInv, Before, Handed
<1>5. q \notin Buffered
  BY <1>0, <1>3 DEF Before
<1>6. CASE q \in Received
  <2>1. PICK x \in Sources : \E n \in ToSet(received[x]) : q = Payload(x, n)
    BY <1>6, ReceivedOf
  <2> QED
    BY <1>0, <2>1, PayloadFacts
<1> QED
  BY <1>2, <1>4, <1>5, <1>6 DEF Handed, q

LEMMA OrderStep == IInv /\ [Next]_vars => OrderIsKept'
<1> SUFFICES ASSUME IInv, [Next]_vars, SortedInv' PROVE OrderIsKept'
  BY SortedStep
<1>0. TypeOK /\ CloseInv /\ PlaceInv /\ OrderIsKept
  BY DEF IInv
<1>1. refused \cup cleared \subseteq refused' \cup cleared'
  <2>1. CASE Dispatch
    BY <2>1, DispatchMoves DEF Dispatch
  <2>2. CASE ~Dispatch
    BY <2>2 DEF Next, NetworkNext, StreamNext, DatagramNext, ApplicationNext,
     PeerSends, ConnectionLost, Accept, ListenerEnds, Reads, Enqueues, StreamEnds,
     ReadsDatagram, EnqueuesDatagram, DatagramTaskEnds, Receive,
     ClearReceivedPayloads, Disconnect, DropConnection, history, vars
  <2> QED
    BY <2>1, <2>2
<1>2. CASE ~ \E id \in 0..(MaxChannels - 1) : Receive(id)
  <2>1. received' = received
    BY <1>2 DEF Next, NetworkNext, StreamNext, DatagramNext, ApplicationNext,
     PeerSends, ConnectionLost, Accept, ListenerEnds, Reads, Enqueues, StreamEnds,
     ReadsDatagram, EnqueuesDatagram, DatagramTaskEnds, Dispatch,
     ClearReceivedPayloads, Disconnect, DropConnection, history, vars
  <2> QED
    BY <1>0, <1>1, <2>1 DEF OrderIsKept
<1>3. ASSUME NEW id \in 0..(MaxChannels - 1), Receive(id),
             NEW x \in Sources, NEW j \in DOMAIN received'[x]
      PROVE  LET n == received'[x][j]
                 earlier == {received'[x][i] : i \in 1..(j - 1)}
             IN /\ \A k \in earlier : k < n
                /\ \A k \in 1..(n - 1) : k \in earlier \/ Payload(x, k) \in refused' \cup cleared'
  <2> DEFINE r == received[x]
             r1 == received'[x]
             earlier == {r1[i] : i \in 1..(j - 1)}
  <2>1. PICK p \in Buffered :
           /\ received' = [received EXCEPT ![p.from] = Append(@, p.n)]
           /\ Buffered = Buffered' \cup {p} /\ Before({p}, Buffered')
           /\ p.from \in Sources /\ p.n \in Numbers(p.from)
    BY <1>3, ReceiveMoves
  <2>2. /\ received \in [Sources -> Seq(Nat)] /\ r \in Seq(Nat) /\ p.n \in Nat
        /\ r1 = IF x = p.from THEN Append(r, p.n) ELSE r
    BY <1>0, <2>1, PayloadFacts DEF TypeOK
  <2>3. /\ Len(r) \in Nat /\ DOMAIN r = 1..Len(r) /\ r1 \in Seq(Nat)
        /\ \A m \in 1..Len(r) : r1[m] = r[m]
        /\ x # p.from => DOMAIN r1 = 1..Len(r)
        /\ x = p.from => DOMAIN r1 = 1..(Len(r) + 1) /\ r1[Len(r) + 1] = p.n
    BY <2>2, AppendIndex, LenProperties
  <2>4. \A k \in earlier : k < r1[j]
    <3> SUFFICES ASSUME NEW i \in 1..(j - 1) PROVE r1[i] < r1[j]
      OBVIOUS
    <3>1. i \in DOMAIN r1 /\ i < j
      BY <1>3, <2>3
    <3> QED
      BY <1>3, <3>1 DEF SortedInv
  <2>5. CASE j \in 1..Len(r)
    <3>1. earlier = {r[i] : i \in 1..(j - 1)} /\ r1[j] = r[j]
      <4>1. \A i \in 1..(j - 1) : i \in 1..Len(r)
        BY <2>3, <2>5
      <4> QED
        BY <2>3, <2>5, <4>1
    <3>2. \A k \in 1..(r[j] - 1) : k \in {r[i] : i \in 1..(j - 1)} \/ Payload(x, k) \in refused \cup cleared
      BY <1>0, <2>3, <2>5 DEF OrderIsKept
    <3> QED
      BY <1>1, <2>4, <3>1, <3>2
  <2>6. CASE x = p.from /\ j = Len(r) + 1
    <3>1. earlier = ToSet(r) /\ r1[j] = p.n
      <4>1. 1..(j - 1) = 1..Len(r)
        BY <2>3, <2>6
      <4> QED
        BY <2>3, <2>6, <4>1, SMTT(30) DEF ToSet
    <3>2. ~closed
      BY <1>0, <1>3 DEF Receive, CloseInv
    <3>3. \A k \in 1..(p.n - 1) : k \in ToSet(r) \/ Payload(x, k) \in refused \cup cleared
      BY <2>1, <2>6, <3>2, NothingOlder
    <3> QED
      BY <1>1, <2>4, <3>1, <3>3
  <2>7. j \in 1..Len(r) \/ (x = p.from /\ j = Len(r) + 1)
    BY <1>3, <2>3, SMTT(30)
  <2> QED
    BY <2>5, <2>6, <2>7
<1> QED
  BY <1>2, <1>3 DEF OrderIsKept

LEMMA InitInv == Init => IInv
<1> SUFFICES ASSUME Init PROVE IInv
  OBVIOUS
<1> USE DEF Init
<1>1. Queued = {} /\ Buffered = {} /\ Received = {} /\ AllHeld = {}
  BY DEF Queued, Buffered, Received, AllHeld, Held, ToSet
<1>2. TypeOK
  <2>1. /\ queue \in Seq(Payloads) /\ Len(queue) <= QueueSize
        /\ buffers \in Seq(Seq(Payloads)) /\ Len(buffers) <= MaxChannels
        /\ DOMAIN buffers = {}
    BY LimitsAssumption
  <2>2. /\ received \in [Sources -> Seq(Nat)]
        /\ \A x \in Sources : received[x] \in Seq(Numbers(x))
    OBVIOUS
  <2>3. /\ peer \in [Streams -> Nat] /\ read \in [Streams -> Nat]
        /\ \A s \in Streams : read[s] <= peer[s] /\ peer[s] <= Lengths[s]
    BY SourceFacts
  <2> QED
    BY <2>1, <2>2, <2>3 DEF TypeOK
<1>3. CloseInv
  BY SourcesAssumption DEF CloseInv, Sources
<1>4. PlaceInv
  BY <1>1 DEF PlaceInv, Handed, Before
<1>5. SortedInv
  BY DEF SortedInv, InOrder
<1>6. AccountedInv
  <2>1. \A x \in Sources : Count(x) = 0
    BY SourceFacts DEF Count
  <2> QED
    BY <2>1 DEF AccountedInv
<1>7. OrderIsKept
  BY DEF OrderIsKept
<1> QED
  BY <1>2, <1>3, <1>4, <1>5, <1>6, <1>7 DEF IInv

(* The invariant the other theorems follow from. *)
THEOREM Inductive == Spec => []IInv
<1>1. IInv /\ [Next]_vars => IInv'
  BY TypeStep, CloseStep, PlaceStep, SortedStep, AccountedStep, OrderStep DEF IInv
<1> QED
  BY <1>1, InitInv, PTL DEF Spec

(* Every reachable state is well-typed: the queue of received payloads     *)
(* and the buffers never grow beyond their limits, however many tasks fill *)
(* them (bytes_from_peer, max_receive_channels_count and                   *)
(* max_buffered_payloads_count_per_channel), but for the first payload of  *)
(* a buffer.                                                               *)
THEOREM TypeCorrect == Spec => []TypeOK
<1>1. IInv => TypeOK
  BY DEF IInv
<1> QED
  BY <1>1, Inductive, PTL

(* The application takes the payloads of each stream in the order of their *)
(* sending, with no gap that it was not told of or made itself.            *)
THEOREM InOrderOfSending == Spec => []OrderIsKept
<1>1. IInv => OrderIsKept
  BY DEF IInv
<1> QED
  BY <1>1, Inductive, PTL

-----------------------------------------------------------------------------
(* One place for each payload.                                             *)

(* In a sequence in order no payload is there twice.                       *)
LEMMA OrderedOnce ==
  ASSUME NEW q \in Seq(Payloads), InOrder(q), NEW i \in DOMAIN q, NEW j \in DOMAIN q,
         q[i] = q[j]
  PROVE  i = j
<1>1. i \in Int /\ j \in Int /\ q[i] \in Payloads /\ q[j] \in Payloads
  BY LenProperties, ElementOfSeq
<1>2. q[i].n \in Nat /\ q[j].n \in Nat
  BY <1>1, PayloadFacts
<1>3. ~(i < j) /\ ~(j < i)
  BY <1>1, <1>2 DEF InOrder
<1> QED
  BY <1>1, <1>3

(* The places have nothing in common. *)
LEMMA PlacesApart ==
  ASSUME IInv
  PROVE  /\ Handed \cap AllHeld = {}
         /\ (Received \cup Buffered \cup refused \cup cleared) \cap Queued = {}
         /\ (Received \cup cleared) \cap Buffered = {}
         /\ refused \cap (Received \cup Buffered \cup cleared) = {}
         /\ Received \cap cleared = {}
<1>1. /\ PlaceInv /\ Handed \subseteq Payloads
      /\ Received \cup Buffered \cup refused \cup cleared \subseteq Payloads
      /\ Received \cup cleared \subseteq Payloads
  BY SetsOfPayloads DEF IInv, Handed
<1>2. /\ Before(Handed, AllHeld)
      /\ Before(Received \cup Buffered \cup refused \cup cleared, Queued)
      /\ Before(Received \cup cleared, Buffered)
  BY <1>1 DEF PlaceInv
<1> QED
  BY <1>1, <1>2, BeforeApart DEF PlaceInv

LEMMA OnePlace ==
  ASSUME IInv, NEW s \in Streams, NEW n \in 1..read[s]
  PROVE  /\ \A a, b \in Places(Payload(s, n)) : a = b
         /\ ~closed => Places(Payload(s, n)) # {}
<1> DEFINE p == Payload(s, n)
<1>0. /\ TypeOK /\ CloseInv /\ PlaceInv /\ SortedInv
      /\ Queued \subseteq Payloads /\ Buffered \subseteq Payloads
      /\ Received \subseteq Payloads /\ refused \subseteq Payloads
      /\ cleared \subseteq Payloads /\ AllHeld \subseteq Payloads
      /\ Handed \subseteq Payloads
  BY SetsOfPayloads DEF IInv, Handed
<1>1. /\ p.from = s /\ p.n = n /\ s \in Sources /\ Held \subseteq AllHeld
      /\ \A d : datagram = d /\ d # None => Payload(d, 1) # p
  BY <1>0, PayloadFacts, SourceFacts DEF AllHeld, TypeOK
<1>2. /\ Handed \cap AllHeld = {}
      /\ (Received \cup Buffered \cup refused \cup cleared) \cap Queued = {}
      /\ (Received \cup cleared) \cap Buffered = {}
      /\ refused \cap (Received \cup Buffered \cup cleared) = {}
      /\ Received \cap cleared = {}
  BY PlacesApart
<1> DEFINE InQueue == {<<"queue", i>> : i \in {k \in DOMAIN queue : queue[k] = p}}
           Took == {<<"received", i>> : i \in {k \in DOMAIN received[p.from] : received[p.from][k] = p.n}}
           InBuffers == UNION {{<<"buffer", i, j>> : j \in {k \in DOMAIN buffers[i] : buffers[i][k] = p}}
                               : i \in DOMAIN buffers}
           WasRefused == {<<"refused">> : x \in refused \cap {p}}
           WasCleared == {<<"cleared">> : x \in cleared \cap {p}}
           IsHeld == {<<"held">> : x \in Held \cap {p}}
<1> HIDE DEF p
<1>3. Places(p) = InQueue \cup Took \cup InBuffers \cup WasRefused \cup WasCleared \cup IsHeld
  BY DEF Places
<1>4. /\ \A a, b \in InQueue : a = b
      /\ InQueue # {} <=> p \in Queued
  <2>1. queue \in Seq(Payloads) /\ InOrder(queue)
    BY <1>0 DEF TypeOK, SortedInv
  <2>2. \A a, b \in InQueue : a = b
    BY <2>1, OrderedOnce
  <2>3. InQueue # {} <=> p \in Queued
    BY DEF Queued, ToSet
  <2> QED
    BY <2>2, <2>3
<1>5. /\ \A a, b \in Took : a = b
      /\ Took # {} <=> p \in Received
  <2> DEFINE r == received[p.from]
  <2>1. /\ r \in Seq(Nat)
        /\ \A i, j \in DOMAIN r : i < j => r[i] < r[j]
    BY <1>0, <1>1 DEF TypeOK, SortedInv
  <2>2. ASSUME NEW i \in DOMAIN r, NEW j \in DOMAIN r, r[i] = r[j]
        PROVE  i = j
    <3>1. i \in Int /\ j \in Int /\ r[i] \in Nat /\ ~(r[i] < r[j]) /\ ~(r[j] < r[i])
      BY <2>1, <2>2, LenProperties, ElementOfSeq
    <3> HIDE DEF r
    <3>2. ~(i < j) /\ ~(j < i)
      BY <2>1, <2>2, <3>1
    <3> QED
      BY <3>1, <3>2
  <2>3. \A a, b \in Took : a = b
    BY <2>2
  <2>4. Took # {} <=> p.n \in ToSet(r)
    BY DEF ToSet
  <2>5. p \in Received <=> p.n \in ToSet(r)
    <3>1. ASSUME NEW x \in Sources, NEW m \in ToSet(received[x]), p = Payload(x, m)
          PROVE  p.n \in ToSet(r)
      BY <3>1, PayloadFacts
    <3>2. p = Payload(p.from, p.n) /\ p.from \in Sources
      BY <1>1 DEF p
    <3> QED
      BY <3>1, <3>2, ReceivedOf
  <2> QED
    BY <2>3, <2>4, <2>5
<1>6. /\ \A a, b \in InBuffers : a = b
      /\ InBuffers # {} <=> p \in Buffered
  <2>1. \A a : a \in InBuffers <=>
          \E i \in DOMAIN buffers : \E j \in DOMAIN buffers[i] :
            a = <<"buffer", i, j>> /\ buffers[i][j] = p
    OBVIOUS
  <2>2. ASSUME NEW i \in DOMAIN buffers, NEW j \in DOMAIN buffers[i], buffers[i][j] = p,
               NEW k \in DOMAIN buffers, NEW l \in DOMAIN buffers[k], buffers[k][l] = p
        PROVE  i = k /\ j = l
    <3>1. i = k
      BY <1>0, <2>2 DEF SortedInv, ToSet
    <3>2. buffers[i] \in Seq(Payloads) /\ InOrder(buffers[i])
      BY <1>0, LenProperties, ElementOfSeq DEF TypeOK, SortedInv
    <3> QED
      BY <2>2, <3>1, <3>2, OrderedOnce
  <2>3. \A a, b \in InBuffers : a = b
    <3> HIDE DEF InBuffers
    <3> QED
      BY <2>1, <2>2
  <2>4. InBuffers # {} <=> p \in Buffered
    <3>1. p \in Buffered <=> \E i \in DOMAIN buffers : p \in ToSet(buffers[i])
      BY DEF Buffered
    <3>2. \A i : p \in ToSet(buffers[i]) <=> \E j \in DOMAIN buffers[i] : buffers[i][j] = p
      BY DEF ToSet
    <3> HIDE DEF InBuffers
    <3>3. ASSUME InBuffers # {} PROVE p \in Buffered
      <4>1. PICK a : a \in InBuffers
        BY <3>3
      <4> QED
        BY <2>1, <3>1, <3>2, <4>1
    <3>4. ASSUME p \in Buffered PROVE InBuffers # {}
      <4>1. PICK i \in DOMAIN buffers : \E j \in DOMAIN buffers[i] : buffers[i][j] = p
        BY <3>1, <3>2, <3>4
      <4>2. PICK j \in DOMAIN buffers[i] : buffers[i][j] = p
        BY <4>1
      <4>3. <<"buffer", i, j>> \in InBuffers
        BY <2>1, <4>2
      <4> QED
        BY <4>3
    <3> QED
      BY <3>3, <3>4
  <2> QED
    BY <2>3, <2>4
<1>7. /\ \A a, b \in WasRefused : a = b
      /\ WasRefused # {} <=> p \in refused
      /\ \A a, b \in WasCleared : a = b
      /\ WasCleared # {} <=> p \in cleared
      /\ \A a, b \in IsHeld : a = b
      /\ IsHeld # {} <=> p \in Held
  OBVIOUS
<1> HIDE DEF InQueue, Took, InBuffers, WasRefused, WasCleared, IsHeld, p
<1>8. ASSUME NEW a \in Places(p), NEW b \in Places(p) PROVE a = b
  <2>1. ASSUME NEW c \in Places(p)
        PROVE  \/ c \in InQueue /\ p \in Queued
               \/ c \in Took /\ p \in Received
               \/ c \in InBuffers /\ p \in Buffered
               \/ c \in WasRefused /\ p \in refused
               \/ c \in WasCleared /\ p \in cleared
               \/ c \in IsHeld /\ p \in AllHeld
    BY <1>1, <1>3, <1>4, <1>5, <1>6, <1>7
  <2> QED
    BY <1>2, <1>4, <1>5, <1>6, <1>7, <2>1 DEF Handed
<1>9. ASSUME ~closed PROVE Places(p) # {}
  <2>1. p \in Handed \cup AllHeld
    <3>1. n \in 1..Count(s)
      BY DEF Count
    <3> QED
      BY <1>1, <1>9, <3>1 DEF IInv, AccountedInv, p
  <2>2. p \in AllHeld => p \in Held
    BY <1>1 DEF AllHeld
  <2> QED
    BY <1>3, <1>4, <1>5, <1>6, <1>7, <2>1, <2>2 DEF Handed
<1> QED
  BY <1>8, <1>9 DEF p

(* A payload that was read from a stream is in one place at most; and in   *)
(* one exactly, with the application or where it was told of it, until the *)
(* connection is closed: neither a full queue, nor a full buffer, nor any  *)
(* order of the tasks makes one vanish or doubles it.                      *)
THEOREM NothingVanishes == Spec => []EachInOnePlace
<1>1. ASSUME IInv PROVE EachInOnePlace
  <2> SUFFICES ASSUME NEW s \in Streams, NEW n \in 1..read[s]
               PROVE  /\ Cardinality(Places(Payload(s, n))) <= 1
                      /\ ~closed => Cardinality(Places(Payload(s, n))) = 1
    BY DEF EachInOnePlace
  <2> DEFINE P == Places(Payload(s, n))
  <2>1. /\ \A a, b \in P : a = b
        /\ ~closed => P # {}
    BY <1>1, OnePlace
  <2> HIDE DEF P
  <2>2. CASE P = {}
    <3>1. Cardinality(P) = 0 /\ closed
      BY <2>1, <2>2, FS_EmptySet
    <3> QED
      BY <3>1 DEF P
  <2>3. CASE P # {}
    <3>1. PICK a : a \in P
      BY <2>3
    <3>2. P = {a}
      BY <2>1, <3>1
    <3>3. Cardinality(P) = 1
      BY <3>2, FS_Singleton
    <3> QED
      BY <3>3 DEF P
  <2> QED
    BY <2>2, <2>3
<1> QED
  BY <1>1, Inductive, PTL

-----------------------------------------------------------------------------
(* The receiving half implements Transfer.                                 *)

Pending(s) == {n \in 1..peer[s] : n <= read[s] => Payload(s, n) \in Kept}

Told(s) == {n \in 1..peer[s] : Payload(s, n) \in refused \cup cleared}

Lost(s) == {n \in 1..read[s] : /\ Payload(s, n) \notin Kept \cup refused \cup cleared
                               /\ ~Contains(received[s], n)}

(* The payloads on their way, the datagram that is held too.               *)
OnTheWay == AllHeld \cup Queued \cup Buffered

(* Of a payload of a stream only its place matters.                        *)
StreamPlaces ==
  \A s \in Streams : \A n \in Int :
    /\ Payload(s, n) \in Kept <=> Payload(s, n) \in OnTheWay
    /\ Contains(received[s], n) <=> Payload(s, n) \in Received

LEMMA StreamPlacesNow == TypeOK => StreamPlaces
<1> SUFFICES ASSUME TypeOK, NEW s \in Streams, NEW n \in Int
             PROVE  /\ Payload(s, n) \in Kept <=> Payload(s, n) \in OnTheWay
                    /\ Contains(received[s], n) <=> Payload(s, n) \in Received
  BY DEF StreamPlaces
<1> DEFINE p == Payload(s, n)
<1>1. p \in Kept <=> p \in OnTheWay
  <2>1. datagram # None => Payload(datagram, 1) # p
    BY PayloadFacts, SourceFacts DEF TypeOK
  <2> QED
    BY <2>1 DEF Kept, OnTheWay, AllHeld, Queued
<1>2. Contains(received[s], n) <=> n \in ToSet(received[s])
  <2>1. received[s] \in Seq(Nat) /\ DOMAIN received[s] = 1..Len(received[s])
    BY SourceFacts, LenProperties DEF TypeOK
  <2> QED
    BY <2>1 DEF Contains, ToSet
<1>3. n \in ToSet(received[s]) <=> p \in Received
  <2>1. ASSUME NEW x \in Sources, NEW m \in ToSet(received[x]), p = Payload(x, m)
        PROVE  n \in ToSet(received[s])
    BY <2>1, PayloadFacts
  <2> QED
    BY <2>1, SourceFacts, ReceivedOf
<1> QED
  BY <1>1, <1>2, <1>3

LEMMA StreamPlacesNext == TypeOK' => StreamPlaces'
BY StreamPlacesNow, PTL

LEMMA StreamFacts ==
  ASSUME IInv, NEW s \in Streams
  PROVE  /\ read[s] \in Nat /\ peer[s] \in Nat /\ read[s] <= peer[s]
         /\ peer[s] <= Lengths[s]
         /\ \A n \in Int : Payload(s, n) \in Handed \cup AllHeld => n \in 1..read[s]
         /\ OnTheWay \cap (refused \cup cleared \cup Received) = {}
         /\ Pending(s) = {n \in 1..peer[s] : n <= read[s] => Payload(s, n) \in OnTheWay}
         /\ Lost(s) = {n \in 1..read[s] : Payload(s, n) \notin OnTheWay \cup refused \cup cleared \cup Received}
         /\ ~closed => Lost(s) = {}
<1>1. /\ read[s] \in Nat /\ peer[s] \in Nat /\ read[s] <= peer[s] /\ peer[s] <= Lengths[s]
      /\ TypeOK /\ CloseInv
  BY DEF IInv, TypeOK
<1>2. ASSUME NEW n \in Int, Payload(s, n) \in Handed \cup AllHeld PROVE n \in 1..read[s]
  <2> DEFINE p == Payload(s, n)
  <2>1. p \in Payloads
    BY <1>1, <1>2, SetsOfPayloads DEF Handed
  <2>2. p.from = s /\ p.n = n /\ n \in Nat \ {0}
    BY <2>1, PayloadFacts
  <2>3. Count(s) = read[s]
    BY DEF Count
  <2>4. CASE p \in Handed
    <3>1. p.n <= Count(p.from)
      BY <2>4 DEF IInv, PlaceInv
    <3> QED
      BY <1>1, <2>2, <2>3, <3>1
  <2>5. CASE p \in AllHeld
    <3>1. p.n = Count(p.from)
      BY <1>1, <2>5, HeldIsLast
    <3> QED
      BY <1>1, <2>2, <2>3, <3>1
  <2> QED
    BY <1>2, <2>4, <2>5
<1>3. OnTheWay \cap (refused \cup cleared \cup Received) = {}
  BY PlacesApart DEF OnTheWay, Handed
<1>4. /\ \A n \in 1..peer[s] : Payload(s, n) \in Kept <=> Payload(s, n) \in OnTheWay
      /\ \A n \in 1..read[s] : /\ Payload(s, n) \in Kept <=> Payload(s, n) \in OnTheWay
                               /\ Contains(received[s], n) <=> Payload(s, n) \in Received
  BY <1>1, StreamPlacesNow DEF StreamPlaces
<1>5. Pending(s) = {n \in 1..peer[s] : n <= read[s] => Payload(s, n) \in OnTheWay}
  BY <1>4 DEF Pending
<1>6. Lost(s) = {n \in 1..read[s] : Payload(s, n) \notin OnTheWay \cup refused \cup cleared \cup Received}
  BY <1>4 DEF Lost
<1>7. ASSUME ~closed PROVE Lost(s) = {}
  <2>1. \A n \in 1..read[s] : Payload(s, n) \in Handed \cup AllHeld
    BY <1>7, SourceFacts DEF IInv, AccountedInv, Count
  <2> QED
    BY <1>6, <2>1 DEF Handed, OnTheWay
<1> QED
  BY <1>1, <1>2, <1>3, <1>5, <1>6, <1>7

(* Steps of the transfer, in terms of what is pending, told and lost.      *)

LEMMA LoseStep ==
  ASSUME closed \in BOOLEAN, closed' \in BOOLEAN, closed => closed',
         \A s \in Streams :
           /\ received'[s] = received[s] /\ Told(s)' = Told(s)
           /\ Lost(s) \subseteq Lost(s)' /\ Lost(s)' \subseteq Lost(s) \cup Pending(s)
           /\ ~closed' => Lost(s)' = Lost(s)
           /\ Pending(s)' = Pending(s) \ Lost(s)'
  PROVE  ToApplication!Lose
<1> DEFINE P == [s \in Streams |-> Pending(s)]
           T == [s \in Streams |-> Told(s)]
           L == [s \in Streams |-> Lost(s)]
           R == [s \in Streams |-> received[s]]
           B == IF closed THEN Streams ELSE {}
<1>1. /\ P' = [s \in Streams |-> Pending(s) \ Lost(s)'] /\ T' = T /\ R' = R
  OBVIOUS
<1>2. B \subseteq B' /\ B' \subseteq Streams
  OBVIOUS
<1>3. \A s \in Streams : s \notin B' => Lost(s)' = Lost(s)
  OBVIOUS
<1>4. \A s \in Streams : /\ P[s] = Pending(s) /\ L[s] = Lost(s) /\ L'[s] = Lost(s)'
  OBVIOUS
<1>5. P' = [s \in Streams |-> P[s] \ L'[s]]
  BY <1>1, <1>4
<1>6. \A s \in Streams :
        /\ L[s] \subseteq L'[s] /\ L'[s] \subseteq L[s] \cup P[s]
        /\ s \notin B' => L'[s] = L[s]
  BY <1>3, <1>4
<1> QED
  BY <1>1, <1>2, <1>5, <1>6 DEF ToApplication!Lose, Pending, Told, Lost

LEMMA TellStep ==
  ASSUME closed' = closed,
         \A s \in Streams :
           /\ received'[s] = received[s] /\ Lost(s)' = Lost(s)
           /\ Told(s) \subseteq Told(s)' /\ Told(s)' \subseteq Told(s) \cup Pending(s)
           /\ Pending(s)' = Pending(s) \ Told(s)'
  PROVE  ToApplication!Tell
<1> DEFINE P == [s \in Streams |-> Pending(s)]
           T == [s \in Streams |-> Told(s)]
           L == [s \in Streams |-> Lost(s)]
           R == [s \in Streams |-> received[s]]
<1>1. L' = L /\ R' = R
  OBVIOUS
<1>2. \A s \in Streams : /\ P[s] = Pending(s) /\ T[s] = Told(s) /\ T'[s] = Told(s)'
  OBVIOUS
<1>3. P' = [s \in Streams |-> P[s] \ T'[s]]
  BY <1>2
<1>4. \A s \in Streams : T[s] \subseteq T'[s] /\ T'[s] \subseteq T[s] \cup P[s]
  BY <1>2
<1> QED
  BY <1>1, <1>3, <1>4 DEF ToApplication!Tell, Pending, Told, Lost

LEMMA DeliverStep ==
  ASSUME closed' = closed, NEW s \in Streams, NEW p \in Pending(s),
         received'[s] = Append(received[s], p), Pending(s)' = Pending(s) \ {p},
         \A t \in Streams \ {s} : received'[t] = received[t] /\ Pending(t)' = Pending(t),
         \A t \in Streams : Told(t)' = Told(t) /\ Lost(t)' = Lost(t),
         \A q \in Pending(s) \cup Lost(s) : p <= q
  PROVE  ToApplication!Deliver(s, p)
<1> DEFINE P == [t \in Streams |-> Pending(t)]
           T == [t \in Streams |-> Told(t)]
           L == [t \in Streams |-> Lost(t)]
           R == [t \in Streams |-> received[t]]
<1>1. L' = L /\ T' = T
  OBVIOUS
<1>2. P[s] = Pending(s) /\ L[s] = Lost(s) /\ R[s] = received[s]
  OBVIOUS
<1>3. P' = [P EXCEPT ![s] = @ \ {p}]
  OBVIOUS
<1>4. R' = [R EXCEPT ![s] = Append(@, p)]
  OBVIOUS
<1> QED
  BY <1>1, <1>2, <1>3, <1>4 DEF ToApplication!Deliver, Pending, Told, Lost

LEMMA AcceptStep ==
  ASSUME closed' = closed, NEW s \in Streams, NEW p \in Int,
         Pending(s)' = Pending(s) \cup {p},
         \A t \in Streams \ {s} : Pending(t)' = Pending(t),
         \A t \in Streams : /\ received'[t] = received[t] /\ Told(t)' = Told(t)
                            /\ Lost(t)' = Lost(t),
         \A q \in Pending(s) \cup ToSet(received[s]) \cup Told(s) \cup Lost(s) : q < p
  PROVE  ToApplication!Accept(s, p)
<1> DEFINE P == [t \in Streams |-> Pending(t)]
           T == [t \in Streams |-> Told(t)]
           L == [t \in Streams |-> Lost(t)]
           R == [t \in Streams |-> received[t]]
<1>1. L' = L /\ T' = T /\ R' = R
  OBVIOUS
<1>2. P[s] = Pending(s) /\ L[s] = Lost(s) /\ T[s] = Told(s)
  OBVIOUS
<1>3. P' = [P EXCEPT ![s] = @ \cup {p}]
  OBVIOUS
<1>4. ToApplication!Delivered(s) = ToSet(received[s])
  BY DEF ToApplication!Delivered, ToSet
<1>5. \A q \in P[s] \cup ToApplication!Delivered(s) \cup T[s] \cup L[s] : q < p
  BY <1>2, <1>4
<1> QED
  BY <1>1, <1>3, <1>5 DEF ToApplication!Accept, Pending, Told, Lost

StreamForm ==
  /\ OnTheWay \cap (refused \cup cleared) = {}
  /\ \A s \in Streams :
       /\ Pending(s) = {n \in 1..peer[s] : n <= read[s] => Payload(s, n) \in OnTheWay}
       /\ Lost(s) = {n \in 1..read[s] :
                       Payload(s, n) \notin OnTheWay \cup refused \cup cleared \cup Received}

LEMMA StreamFormNext == IInv' => StreamForm'
<1>1. IInv => StreamForm
  <2> SUFFICES ASSUME IInv PROVE StreamForm
    OBVIOUS
  <2>1. OnTheWay \cap (refused \cup cleared) = {}
    BY PlacesApart DEF OnTheWay, Handed
  <2> QED
    BY <2>1, StreamFacts DEF StreamForm
<1> QED
  BY <1>1, PTL

(* A step that takes nothing but, after the close, payloads off their way. *)
LEMMA KeepStep ==
  ASSUME IInv, IInv', closed => closed',
         UNCHANGED <<refused, cleared>>,
         \A s \in Streams : /\ peer'[s] = peer[s] /\ read'[s] = read[s]
                            /\ received'[s] = received[s],
         \A s \in Streams : \A n \in 1..read[s] :
           /\ Payload(s, n) \in OnTheWay' => Payload(s, n) \in OnTheWay
           /\ ~closed' => (Payload(s, n) \in OnTheWay => Payload(s, n) \in OnTheWay')
  PROVE  ToApplication!Lose
<1>1. closed \in BOOLEAN /\ closed' \in BOOLEAN
  BY DEF IInv, TypeOK
<1>2. ASSUME NEW s \in Streams
      PROVE  /\ received'[s] = received[s] /\ Told(s)' = Told(s)
             /\ Lost(s) \subseteq Lost(s)' /\ Lost(s)' \subseteq Lost(s) \cup Pending(s)
             /\ ~closed' => Lost(s)' = Lost(s)
             /\ Pending(s)' = Pending(s) \ Lost(s)'
  <2>1. Told(s)' = Told(s)
    BY DEF Told
  <2>2. /\ Pending(s) = {n \in 1..peer[s] : n <= read[s] => Payload(s, n) \in OnTheWay}
        /\ Pending(s)' = {n \in 1..peer[s] : n <= read[s] => Payload(s, n) \in OnTheWay'}
        /\ Lost(s) = {n \in 1..read[s] : Payload(s, n) \notin OnTheWay \cup refused \cup cleared \cup Received}
        /\ Lost(s)' = {n \in 1..read[s] : Payload(s, n) \notin OnTheWay' \cup refused \cup cleared \cup Received'}
        /\ OnTheWay \cap (refused \cup cleared \cup Received) = {}
        /\ read[s] \in Nat /\ peer[s] \in Nat /\ read[s] <= peer[s]
    BY StreamFacts, StreamFormNext DEF StreamForm
  <2>3. \A n \in 1..read[s] : Payload(s, n) \in Received' <=> Payload(s, n) \in Received
    <3>1. StreamPlaces /\ StreamPlaces'
      BY StreamPlacesNow, StreamPlacesNext DEF IInv
    <3>2. \A n \in 1..read[s] : n \in Int
      OBVIOUS
    <3> QED
      BY <3>1, <3>2 DEF StreamPlaces
  <2>4. \A n \in 1..peer[s] : n <= read[s] <=> n \in 1..read[s]
    BY <2>2
  <2>5. \A n \in 1..read[s] : n \in 1..peer[s]
    BY <2>2
  <2>6. Lost(s) \subseteq Lost(s)'
    BY <2>2, <2>3
  <2>7. Lost(s)' \subseteq Lost(s) \cup Pending(s)
    BY <2>2, <2>3, <2>5
  <2>8. ASSUME ~closed' PROVE Lost(s)' = Lost(s)
    BY <2>2, <2>3, <2>8
  <2>9. Pending(s)' = Pending(s) \ Lost(s)'
    <3> SUFFICES ASSUME NEW n \in 1..peer[s]
                 PROVE  n \in Pending(s)' <=> n \in Pending(s) /\ n \notin Lost(s)'
      BY <2>2
    <3>1. CASE n \in 1..read[s]
      BY <2>2, <2>3, <2>4, <3>1
    <3>2. CASE n \notin 1..read[s]
      BY <2>2, <2>4, <3>2
    <3> QED
      BY <3>1, <3>2
  <2> QED
    BY <2>1, <2>6, <2>7, <2>8, <2>9
<1> QED
  BY <1>1, <1>2, LoseStep

(* The application takes the oldest payload of a stream that is left.      *)
LEMMA ReceiveTransfers ==
  ASSUME IInv, IInv', NEW id \in 0..(MaxChannels - 1), Receive(id)
  PROVE  ToApplication!Next
<1>1. PICK p \in Buffered :
        /\ received' = [received EXCEPT ![p.from] = Append(@, p.n)]
        /\ Buffered = Buffered' \cup {p} /\ p \notin Buffered'
        /\ Before({p}, Buffered')
        /\ Received' = Received \cup {p}
        /\ p.from \in Sources /\ p.n \in Numbers(p.from)
  BY ReceiveMoves
<1>2. /\ UNCHANGED <<refused, cleared, closed, peer, read>> /\ Queued' = Queued
      /\ AllHeld' = AllHeld
  BY ApplicationMoves DEF Receive, Queued
<1>3. /\ p \in Payloads /\ p = Payload(p.from, p.n) /\ p.n \in Nat
      /\ received \in [Sources -> Seq(Nat)] /\ ~closed /\ TypeOK /\ CloseInv
      /\ PlaceInv
  BY SetsOfPayloads, PayloadFacts DEF IInv, TypeOK, CloseInv, Receive
<1>4. OnTheWay = OnTheWay' \cup {p} /\ p \notin OnTheWay'
  <2>1. p \notin AllHeld /\ p \notin Queued
    BY PlacesApart DEF Handed
  <2> QED
    BY <1>1, <1>2, <2>1 DEF OnTheWay
<1>5. CASE p.from \notin Streams
  <2>1. \A s \in Streams : received'[s] = received[s]
    BY <1>1, <1>3, <1>5, SourceFacts
  <2>2. \A s \in Streams : \A n : Payload(s, n) # p
    BY <1>5, PayloadFacts
  <2>3. ToApplication!Lose
    BY <1>2, <1>4, <2>1, <2>2, KeepStep
  <2> QED
    BY <2>3 DEF ToApplication!Next
<1>6. CASE p.from \in Streams
  <2> DEFINE s == p.from
             n == p.n
  <2>0. s \in Streams /\ n \in Nat /\ p = Payload(s, n)
    BY <1>3, <1>6
  <2>1. /\ received'[s] = Append(received[s], n)
        /\ \A t \in Streams \ {s} : received'[t] = received[t]
    BY <1>1, <1>3, <1>6, SourceFacts
  <2> HIDE DEF s, n
  <2>2. \A t \in Streams : \A k : Payload(t, k) = p <=> t = s /\ k = n
    BY <2>0, PayloadFacts
  <2>3. \A t \in Streams :
          /\ Pending(t) = {k \in 1..peer[t] : k <= read[t] => Payload(t, k) \in OnTheWay}
          /\ Pending(t)' = {k \in 1..peer[t] : k <= read[t] => Payload(t, k) \in OnTheWay'}
          /\ Lost(t) = {k \in 1..read[t] : Payload(t, k) \notin OnTheWay \cup refused \cup cleared \cup Received}
          /\ Lost(t)' = {k \in 1..read[t] : Payload(t, k) \notin OnTheWay' \cup refused \cup cleared \cup Received'}
    BY <1>2, StreamFacts, StreamFormNext DEF StreamForm
  <2>4. n \in 1..read[s] /\ read[s] \in Nat /\ peer[s] \in Nat /\ read[s] <= peer[s]
    <3>1. Payload(s, n) \in Handed
      BY <2>0 DEF Handed
    <3> QED
      BY <2>0, <3>1, StreamFacts
  <2>5. n \in Pending(s) /\ n \in 1..peer[s] /\ n <= read[s]
    <3>1. n \in 1..peer[s] /\ n <= read[s]
      BY <2>4
    <3>2. Payload(s, n) \in OnTheWay
      BY <1>4, <2>0
    <3> QED
      BY <2>0, <2>3, <3>1, <3>2
  <2>6. Pending(s)' = Pending(s) \ {n}
    BY <1>4, <2>0, <2>2, <2>3, <2>5
  <2>7. ASSUME NEW t \in Streams \ {s} PROVE Pending(t)' = Pending(t)
    <3>1. \A k : Payload(t, k) \in OnTheWay <=> Payload(t, k) \in OnTheWay'
      BY <1>4, <2>2
    <3> QED
      BY <2>3, <3>1, ZenonT(60)
  <2>8. \A t \in Streams : Told(t)' = Told(t) /\ Lost(t)' = Lost(t)
    BY <1>1, <1>2, <1>4, <2>3 DEF Told
  <2>9. Lost(s) = {}
    BY <1>3, <2>0, StreamFacts
  <2>10. \A q \in Pending(s) : n <= q
    <3> SUFFICES ASSUME NEW q \in Pending(s) PROVE n <= q
      OBVIOUS
    <3>1. q \in Nat /\ (q <= read[s] => Payload(s, q) \in OnTheWay)
      BY <2>0, <2>3, <2>4
    <3>2. CASE ~(q <= read[s])
      BY <2>4, <3>1, <3>2
    <3>3. CASE Payload(s, q) = p
      BY <2>0, <2>2, <3>1, <3>3
    <3>4. CASE Payload(s, q) \in OnTheWay'
      <4>1. Before({p}, OnTheWay')
        <5>1. Before({p}, AllHeld) /\ Before({p}, Queued)
          BY <1>3 DEF PlaceInv, Handed, Before
        <5> QED
          BY <1>1, <1>2, <5>1 DEF OnTheWay, Before
      <4>2. Payload(s, q).from = p.from /\ Payload(s, q).n = q /\ p.n = n
        BY PayloadFacts DEF s, n
      <4>3. n < q
        BY <3>4, <4>1, <4>2 DEF Before
      <4> QED
        BY <2>0, <3>1, <4>3
    <3> QED
      BY <1>4, <3>1, <3>2, <3>3, <3>4
  <2>11. ToApplication!Deliver(s, n)
    BY <1>2, <2>0, <2>1, <2>5, <2>6, <2>7, <2>8, <2>9, <2>10, DeliverStep
  <2>12. n \in UNION {Numbers(t) : t \in Streams}
    BY <1>1, <2>0 DEF s, n
  <2> QED
    BY <2>0, <2>11, <2>12 DEF ToApplication!Next
<1> QED
  BY <1>5, <1>6

(* What the application is told of was pending.                            *)
LEMMA ToldTransfers ==
  ASSUME IInv, IInv', closed' = closed, peer' = peer, read' = read, received' = received,
         OnTheWay' \cup refused' \cup cleared' = OnTheWay \cup refused \cup cleared,
         refused \cup cleared \subseteq refused' \cup cleared'
  PROVE  ToApplication!Tell
<1>1. ASSUME NEW s \in Streams
      PROVE  /\ received'[s] = received[s] /\ Lost(s)' = Lost(s)
             /\ Told(s) \subseteq Told(s)' /\ Told(s)' \subseteq Told(s) \cup Pending(s)
             /\ Pending(s)' = Pending(s) \ Told(s)'
  <2> DEFINE K == refused \cup cleared
             K1 == refused' \cup cleared'
             O1 == OnTheWay'
  <2>1. Received' = Received
    BY DEF Received
  <2>2. /\ Pending(s) = {n \in 1..peer[s] : n <= read[s] => Payload(s, n) \in OnTheWay}
        /\ Pending(s)' = {n \in 1..peer[s] : n <= read[s] => Payload(s, n) \in O1}
        /\ Lost(s) = {n \in 1..read[s] : Payload(s, n) \notin OnTheWay \cup K \cup Received}
        /\ Lost(s)' = {n \in 1..read[s] : Payload(s, n) \notin O1 \cup K1 \cup Received}
        /\ Told(s) = {n \in 1..peer[s] : Payload(s, n) \in K}
        /\ Told(s)' = {n \in 1..peer[s] : Payload(s, n) \in K1}
    <3>1. /\ Pending(s) = {n \in 1..peer[s] : n <= read[s] => Payload(s, n) \in OnTheWay}
          /\ Lost(s) = {n \in 1..read[s] : Payload(s, n) \notin OnTheWay \cup refused \cup cleared \cup Received}
      BY StreamFacts
    <3>2. /\ Pending(s)' = {n \in 1..peer[s] : n <= read[s] => Payload(s, n) \in OnTheWay'}
          /\ Lost(s)' = {n \in 1..read[s] : Payload(s, n) \notin OnTheWay' \cup refused' \cup cleared' \cup Received}
      BY <2>1, StreamFormNext DEF StreamForm
    <3> QED
      BY <3>1, <3>2 DEF Told
  <2>3. /\ read[s] \in Nat /\ peer[s] \in Nat /\ read[s] <= peer[s]
        /\ \A n \in Int : Payload(s, n) \in Handed \cup AllHeld => n \in 1..read[s]
    BY StreamFacts
  <2>4. (refused' \cup cleared') \cap OnTheWay' = {}
    BY StreamFormNext DEF StreamForm
  <2>5. K \subseteq K1 /\ O1 \cup K1 = OnTheWay \cup K /\ K1 \cap O1 = {}
    BY <2>4
  <2>6. \A n \in Int : Payload(s, n) \in OnTheWay \cup K => n \in 1..read[s]
    BY <2>3 DEF OnTheWay, Handed
  <2>7. \A n \in 1..peer[s] : n \in Int /\ (n \in 1..read[s] <=> n <= read[s])
    BY <2>3
  <2> HIDE DEF K, K1, O1
  <2>8. \A n \in 1..peer[s] : Payload(s, n) \in OnTheWay \cup K => n <= read[s]
    BY <2>6, <2>7
  <2>9. Lost(s)' = Lost(s)
    BY <2>2, <2>5
  <2>10. Told(s) \subseteq Told(s)' /\ Told(s)' \subseteq Told(s) \cup Pending(s)
    BY <2>2, <2>5
  <2>11. Pending(s)' = Pending(s) \ Told(s)'
    BY <2>2, <2>5, <2>8
  <2> QED
    BY <2>9, <2>10, <2>11
<1> QED
  BY <1>1, TellStep

(* Each step of the receiving half is a step of the transfer, or none.     *)
LEMMA TransferStep ==
  ASSUME IInv, IInv', [Next]_vars
  PROVE  ToApplication!Next
<1>0. TypeOK /\ CloseInv
  BY DEF IInv
<1>1. ASSUME NEW s \in Streams, PeerSends(s) PROVE ToApplication!Next
  <2>0. PICK p \in Nat : p = peer[s] + 1
    BY <1>0 DEF TypeOK
  <2>1. /\ peer'[s] = p /\ \A t \in Streams \ {s} : peer'[t] = peer[t]
        /\ p \in Numbers(s)
        /\ UNCHANGED <<read, closed, received, refused, cleared, queue, buffers, task, datagram>>
    BY <1>0, <1>1, <2>0, SourceFacts DEF PeerSends, TypeOK, async, history
  <2>2. /\ Kept' = Kept
        /\ \A t \in Streams : received'[t] = received[t] /\ Lost(t)' = Lost(t)
    BY <2>1 DEF Lost, Kept, Held, Buffered
  <2>3. \A t \in Streams \ {s} : Pending(t)' = Pending(t) /\ Told(t)' = Told(t)
    BY <2>1, <2>2 DEF Pending, Told
  <2>4. /\ read[s] \in Nat /\ peer[s] \in Nat /\ read[s] <= peer[s]
        /\ \A n \in Int : Payload(s, n) \in Handed \cup AllHeld => n \in 1..read[s]
        /\ Lost(s) \subseteq 1..read[s]
    BY StreamFacts
  <2>5. \A n : n \in 1..peer'[s] <=> n \in 1..peer[s] \/ n = p
    BY <2>0, <2>1, <2>4
  <2>6. Payload(s, p) \notin refused \cup cleared
    <3>1. p \in Int /\ p \notin 1..read[s]
      BY <2>0, <2>4
    <3> QED
      BY <2>4, <3>1 DEF Handed
  <2>7. ~(p <= read[s])
    BY <2>0, <2>4
  <2>8. Pending(s)' = Pending(s) \cup {p} /\ Told(s)' = Told(s)
    <3>1. Pending(s)' = {n \in 1..peer'[s] : n <= read[s] => Payload(s, n) \in Kept}
      BY <2>1, <2>2 DEF Pending
    <3>2. Told(s)' = {n \in 1..peer'[s] : Payload(s, n) \in refused \cup cleared}
      BY <2>1 DEF Told
    <3> QED
      BY <2>5, <2>6, <2>7, <3>1, <3>2 DEF Pending, Told
  <2>9. ASSUME NEW q \in Pending(s) \cup ToSet(received[s]) \cup Told(s) \cup Lost(s)
        PROVE  q < p
    <3>1. q \in 1..peer[s] \/ q \in 1..read[s] => q < p
      BY <2>0, <2>4
    <3>2. q \in ToSet(received[s]) => q \in 1..read[s]
      <4> SUFFICES ASSUME q \in ToSet(received[s]) PROVE q \in 1..read[s]
        OBVIOUS
      <4>1. Payload(s, q) \in Received
        BY SourceFacts, ReceivedOf
      <4>2. q \in Int
        BY <1>0, SourceFacts, LenProperties, ElementOfSeq DEF TypeOK, ToSet
      <4> QED
        BY <2>4, <4>1, <4>2 DEF Handed
    <3> QED
      BY <2>4, <3>1, <3>2 DEF Pending, Told
  <2>10. ToApplication!Accept(s, p)
    <3>1. closed' = closed /\ p \in Int
      BY <2>1
    <3>2. \A t \in Streams : /\ received'[t] = received[t] /\ Told(t)' = Told(t)
                              /\ Lost(t)' = Lost(t)
      BY <2>2, <2>3, <2>8
    <3>3. \A t \in Streams \ {s} : Pending(t)' = Pending(t)
      BY <2>3
    <3> QED
      BY <2>8, <2>9, <3>1, <3>2, <3>3, AcceptStep
  <2>11. p \in UNION {Numbers(t) : t \in Streams}
    BY <2>1
  <2> QED
    BY <2>10, <2>11 DEF ToApplication!Next
<1>2. CASE \/ \E s \in Streams : Accept(s)
           \/ ConnectionLost \/ ListenerEnds \/ Disconnect \/ UNCHANGED vars
  <2>1. UNCHANGED places /\ AllHeld' = AllHeld
    BY <1>2, QuietMoves
  <2>2. OnTheWay' = OnTheWay
    BY <2>1 DEF OnTheWay, Queued, Buffered, places
  <2>3. (closed => closed') /\ UNCHANGED <<peer, read>>
    BY <1>2 DEF Accept, ConnectionLost, ListenerEnds, Disconnect, vars, network, async
  <2>4. ToApplication!Lose
    BY <2>1, <2>2, <2>3, KeepStep DEF places
  <2> QED
    BY <2>4 DEF ToApplication!Next
<1>3. CASE (\E s \in Streams : StreamEnds(s)) \/ DatagramTaskEnds
  <2>1. /\ UNCHANGED <<places, read, peer, closed>>
        /\ AllHeld' \subseteq AllHeld
        /\ ~closed => AllHeld' = AllHeld
    BY <1>3, EndMoves
  <2>2. Queued' = Queued /\ Buffered' = Buffered
    BY <2>1 DEF Queued, Buffered, places
  <2>3. OnTheWay' \subseteq OnTheWay
    BY <2>1, <2>2 DEF OnTheWay
  <2>4. ~closed => OnTheWay' = OnTheWay
    <3> SUFFICES ASSUME ~closed PROVE OnTheWay' = OnTheWay
      OBVIOUS
    <3>1. AllHeld' = AllHeld
      BY <2>1
    <3> QED
      BY <2>2, <3>1 DEF OnTheWay
  <2>5. ToApplication!Lose
    BY <2>1, <2>3, <2>4, KeepStep DEF places
  <2> QED
    BY <2>5 DEF ToApplication!Next
<1>4. CASE (\E s \in Streams : Reads(s)) \/ (\E d \in Datagrams : ReadsDatagram(d))
  <2>1. /\ UNCHANGED <<places, closed, peer>>
        /\ \/ AllHeld' = AllHeld /\ \A x : Count(x)' = Count(x)
           \/ \E x \in Sources :
                /\ AllHeld' = AllHeld \cup {Payload(x, Count(x) + 1)}
                /\ Count(x) \in Nat /\ Count(x)' = Count(x) + 1
                /\ \A y \in Sources \ {x} : Count(y)' = Count(y)
    BY <1>4, ReadMoves
  <2>2. /\ Queued' = Queued /\ Buffered' = Buffered /\ Received' = Received
        /\ UNCHANGED <<received, refused, cleared>>
    BY <2>1 DEF Queued, Buffered, Received, places
  <2>3. \A s \in Streams : Count(s) = read[s] /\ Count(s)' = read'[s] /\ s \in Sources
    BY SourceFacts DEF Count
  <2>4. CASE AllHeld' = AllHeld /\ \A x : Count(x)' = Count(x)
    <3>1. OnTheWay' = OnTheWay
      BY <2>2, <2>4 DEF OnTheWay
    <3>2. \A s \in Streams : read'[s] = read[s]
      BY <2>3, <2>4
    <3>3. ToApplication!Lose
      BY <2>1, <2>2, <3>1, <3>2, KeepStep
    <3> QED
      BY <3>3 DEF ToApplication!Next
  <2>5. ASSUME NEW x \in Sources,
               AllHeld' = AllHeld \cup {Payload(x, Count(x) + 1)},
               Count(x) \in Nat, Count(x)' = Count(x) + 1,
               \A y \in Sources \ {x} : Count(y)' = Count(y)
        PROVE  ToApplication!Next
    <3>1. OnTheWay' = OnTheWay \cup {Payload(x, Count(x) + 1)}
      BY <2>2, <2>5 DEF OnTheWay
    <3>2. ASSUME NEW s \in Streams
          PROVE  Pending(s)' = Pending(s) /\ Lost(s)' = Lost(s) /\ Told(s)' = Told(s)
      <4>1. /\ Pending(s) = {n \in 1..peer[s] : n <= read[s] => Payload(s, n) \in OnTheWay}
            /\ Pending(s)' = {n \in 1..peer[s] : n <= read'[s] => Payload(s, n) \in OnTheWay'}
            /\ Lost(s) = {n \in 1..read[s] : Payload(s, n) \notin OnTheWay \cup refused \cup cleared \cup Received}
            /\ Lost(s)' = {n \in 1..read'[s] : Payload(s, n) \notin OnTheWay' \cup refused \cup cleared \cup Received}
            /\ read[s] \in Nat /\ peer[s] \in Nat
        BY <2>1, <2>2, StreamFacts, StreamFormNext DEF StreamForm
      <4>2. Told(s)' = Told(s)
        BY <2>1, <2>2 DEF Told
      <4>3. CASE s # x
        <5>1. read'[s] = read[s]
          BY <2>3, <2>5, <4>3
        <5>2. \A n : Payload(s, n) \in OnTheWay' <=> Payload(s, n) \in OnTheWay
          BY <3>1, <4>3, PayloadFacts
        <5> QED
          BY <4>1, <4>2, <5>1, <5>2
      <4>4. CASE s = x
        <5> DEFINE m == read[s] + 1
        <5>1. read'[s] = m /\ m \in Nat
          BY <2>3, <2>5, <4>4
        <5>2. \A n : Payload(s, n) \in OnTheWay' <=> Payload(s, n) \in OnTheWay \/ n = m
          BY <2>3, <3>1, <4>4, PayloadFacts
        <5>3. \A n \in 1..peer[s] : n <= m <=> n <= read[s] \/ n = m
          BY <4>1
        <5>4. \A n : n \in 1..m <=> n \in 1..read[s] \/ n = m
          BY <4>1
        <5>5. ~(m <= read[s])
          BY <4>1
        <5> HIDE DEF m
        <5>6. Pending(s)' = Pending(s)
          BY <4>1, <5>1, <5>2, <5>3, <5>5
        <5>7. \A n \in 1..read[s] : n # m
          BY <4>1, <5>1, <5>5
        <5>8. Lost(s)' = Lost(s)
          BY <4>1, <5>1, <5>2, <5>4, <5>7
        <5> QED
          BY <4>2, <5>6, <5>8
      <4> QED
        BY <4>3, <4>4
    <3>3. \A s \in Streams : Pending(s) \cap Lost(s) = {}
      <4> SUFFICES ASSUME NEW s \in Streams, NEW n \in Lost(s) PROVE n \notin Pending(s)
        OBVIOUS
      <4>1. read[s] \in Nat /\ n \in 1..read[s] /\ Payload(s, n) \notin Kept
        BY <1>0 DEF Lost, TypeOK
      <4>2. n <= read[s]
        BY <4>1
      <4> QED
        BY <4>1, <4>2 DEF Pending
    <3>4. /\ closed \in BOOLEAN /\ closed' \in BOOLEAN /\ closed' = closed
          /\ \A s \in Streams : received'[s] = received[s]
      BY <1>0, <2>1, <2>2 DEF TypeOK
    <3>5. \A s \in Streams : 
            /\ Lost(s) \subseteq Lost(s)' /\ Lost(s)' \subseteq Lost(s) \cup Pending(s)
            /\ Pending(s)' = Pending(s) \ Lost(s)'
      BY <3>2, <3>3
    <3>6. ToApplication!Lose
      BY <3>2, <3>4, <3>5, LoseStep
    <3> QED
      BY <3>6 DEF ToApplication!Next
  <2> QED
    BY <2>1, <2>4, <2>5
<1>5. CASE (\E s \in Streams : Enqueues(s)) \/ EnqueuesDatagram
  <2>1. PICK p \in AllHeld : AllHeld' = AllHeld \ {p} /\ Queued' = Queued \cup {p}
    BY <1>5, EnqueueMoves
  <2>2. UNCHANGED <<buffers, received, refused, cleared, closed, peer, read>>
    BY <1>5, EnqueueMoves
  <2>3. OnTheWay' = OnTheWay
    BY <2>1, <2>2 DEF OnTheWay, Buffered
  <2>4. ToApplication!Lose
    BY <2>2, <2>3, KeepStep
  <2> QED
    BY <2>4 DEF ToApplication!Next
<1>6. CASE Dispatch
  <2>1. /\ Buffered' \cup refused' = Buffered \cup refused \cup Queued
        /\ refused \subseteq refused' /\ Queued' = {}
    BY <1>6, DispatchMoves
  <2>2. AllHeld' = AllHeld /\ UNCHANGED <<closed, peer, read>>
    BY <1>6, ApplicationMoves
  <2>3. received' = received /\ cleared' = cleared
    BY <1>6 DEF Dispatch
  <2>4. OnTheWay' \cup refused' \cup cleared' = OnTheWay \cup refused \cup cleared
    BY <2>1, <2>2, <2>3 DEF OnTheWay
  <2>5. ToApplication!Tell
    BY <2>1, <2>2, <2>3, <2>4, ToldTransfers
  <2> QED
    BY <2>5 DEF ToApplication!Next
<1>7. CASE ClearReceivedPayloads
  <2>1. /\ cleared' = cleared \cup Buffered /\ Queued' = Queued
        /\ received' = received /\ refused' = refused
        /\ Buffered' = {}
    <3>1. \A i \in DOMAIN buffers' : ToSet(buffers'[i]) = {}
      BY <1>7 DEF ClearReceivedPayloads, ToSet
    <3> QED
      BY <1>7, <3>1 DEF ClearReceivedPayloads, Buffered, Queued
  <2>2. AllHeld' = AllHeld /\ UNCHANGED <<closed, peer, read>>
    BY <1>7, ApplicationMoves
  <2>3. OnTheWay' \cup refused' \cup cleared' = OnTheWay \cup refused \cup cleared
    BY <2>1, <2>2 DEF OnTheWay
  <2>4. ToApplication!Tell
    BY <2>1, <2>2, <2>3, ToldTransfers
  <2> QED
    BY <2>4 DEF ToApplication!Next
<1>8. CASE DropConnection
  <2>1. Queued' = {} /\ Buffered' = {} /\ UNCHANGED <<received, refused, cleared>>
    BY <1>8 DEF DropConnection, Queued, Buffered, ToSet, history
  <2>2. AllHeld' = AllHeld /\ UNCHANGED <<closed, peer, read>>
    BY <1>8, ApplicationMoves
  <2>3. OnTheWay' \subseteq OnTheWay
    BY <2>1, <2>2 DEF OnTheWay
  <2>4. closed /\ closed'
    BY <1>0, <1>8, <2>2 DEF DropConnection, CloseInv
  <2>5. ToApplication!Lose
    BY <2>1, <2>2, <2>3, <2>4, KeepStep
  <2> QED
    BY <2>5 DEF ToApplication!Next
<1> QED
  BY <1>1, <1>2, <1>3, <1>4, <1>5, <1>6, <1>7, <1>8, ReceiveTransfers
  DEF Next, NetworkNext, StreamNext, DatagramNext, ApplicationNext

(* The receiving half transfers the payloads of each stream to the         *)
(* application: each once, the oldest that is left first; a payload that   *)
(* does not come is one the application was told of, or was lost after it  *)
(* closed the connection.                                                  *)
THEOREM ImplementsTransfer == Spec => Transfers
<1>1. Init => ToApplication!Init
  <2> SUFFICES ASSUME Init PROVE ToApplication!Init
    OBVIOUS
  <2>1. \A s \in Streams : /\ Pending(s) = {} /\ Told(s) = {} /\ Lost(s) = {}
                           /\ received[s] = <<>>
    BY SourceFacts DEF Init, Pending, Told, Lost
  <2>2. /\ [s \in Streams |-> Pending(s)] = [s \in Streams |-> {}]
        /\ [s \in Streams |-> Told(s)] = [s \in Streams |-> {}]
        /\ [s \in Streams |-> Lost(s)] = [s \in Streams |-> {}]
        /\ [s \in Streams |-> received[s]] = [s \in Streams |-> <<>>]
    BY <2>1
  <2>3. ~closed
    BY DEF Init
  <2> QED
    BY <2>2, <2>3 DEF ToApplication!Init, Pending, Told, Lost
<1>2. IInv /\ IInv' /\ [Next]_vars => [ToApplication!Next]_(ToApplication!vars)
  BY TransferStep
<1> QED
  BY <1>1, <1>2, Inductive, PTL DEF Spec, Transfers, ToApplication!Spec

=============================================================================
