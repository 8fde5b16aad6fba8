----------------------------- MODULE DataFacts -----------------------------
(***************************************************************************)
(* Facts about numbers and sequences, in the form in which the proofs of   *)
(* this project use them.  An induction is stated with a set, the numbers  *)
(* for which the claim holds, so that it can be cited.                     *)
(***************************************************************************)
EXTENDS Integers, Sequences, SequenceTheorems, WellFoundedInduction, TLAPS

(* Every non-empty set of natural numbers has a least element.             *)
LEMMA Least ==
  ASSUME NEW T, T \subseteq Nat, T # {}
  PROVE  \E x \in T : \A y \in T : x <= y
<1> DEFINE R == OpToRel(<, Nat)
<1>1. IsWellFoundedOn(R, Nat)
  BY NatLessThanWellFounded
<1>2. \A x, y \in Nat : x < y => <<x, y>> \in R
  BY DEF OpToRel
<1> HIDE DEF R
<1>3. PICK x \in T : \A y \in T : ~ (<<y, x>> \in R)
  BY <1>1, WFMin
<1>4. x \in Nat
  OBVIOUS
<1>5. ASSUME NEW y \in T PROVE x <= y
  <2>1. y \in Nat /\ ~(y < x)
    BY <1>2, <1>3, <1>4
  <2> QED
    BY <1>4, <2>1
<1> QED
  BY <1>5

(* Every non-empty bounded set of natural numbers has a greatest element.  *)
LEMMA Greatest ==
  ASSUME NEW T, T \subseteq Nat, T # {}, NEW n \in Nat, \A x \in T : x <= n
  PROVE  \E x \in T : \A y \in T : x >= y
<1> DEFINE D == {n - x : x \in T}
<1>1. \A x \in T : x \in Nat /\ n - x \in Nat
  OBVIOUS
<1>2. D \subseteq Nat /\ D # {}
  BY <1>1
<1> HIDE DEF D
<1>3. PICK d \in D : \A e \in D : d <= e
  BY <1>2, Least
<1>4. PICK x \in T : d = n - x
  BY DEF D
<1>5. \A y \in T : n - y \in D
  BY DEF D
<1>6. \A y \in T : x >= y
  BY <1>1, <1>3, <1>4, <1>5
<1> QED
  BY <1>6

(* Induction: a set of numbers with 0 and the successor of each.           *)
LEMMA Induction ==
  ASSUME NEW S, 0 \in S, \A n \in Nat : n \in S => n + 1 \in S
  PROVE  Nat \subseteq S
<1> SUFFICES ASSUME Nat \ S # {} PROVE FALSE
  OBVIOUS
<1>1. PICK x \in Nat \ S : \A y \in Nat \ S : x <= y
  BY Least
<1>2. x # 0 /\ x - 1 \in Nat
  BY <1>1
<1>3. x - 1 \in S
  BY <1>1, <1>2
<1> QED
  BY <1>1, <1>2, <1>3

(* A function that goes on from its last value exists.                     *)
LEMMA Recursion ==
  ASSUME NEW T, NEW b \in T, NEW n \in Nat, NEW next \in [1..n -> [T -> T]]
  PROVE  \E f \in [0..n -> T] :
           f[0] = b /\ \A k \in 1..n : f[k] = next[k][f[k - 1]]
<1> DEFINE Goes(f, m) ==
             /\ f \in [0..n -> T]
             /\ f[0] = b
             /\ \A k \in 1..n : k <= m => f[k] = next[k][f[k - 1]]
           S == {m \in Nat : m <= n => \E f : Goes(f, m)}
<1>1. 0 \in S
  <2>1. Goes([k \in 0..n |-> b], 0)
    OBVIOUS
  <2> QED
    BY <2>1
<1>2. ASSUME NEW m \in Nat, m \in S PROVE m + 1 \in S
  <2> SUFFICES ASSUME m + 1 <= n PROVE \E g : Goes(g, m + 1)
    OBVIOUS
  <2>1. PICK f : Goes(f, m)
    BY <1>2
  <2> DEFINE g == [f EXCEPT ![m + 1] = next[m + 1][f[m]]]
  <2>2. f[m] \in T /\ m + 1 \in 1..n /\ m \in 0..n
    BY <2>1
  <2>3. next[m + 1][f[m]] \in T
    BY <2>2
  <2>4. g \in [0..n -> T] /\ g[0] = b /\ g[m + 1] = next[m + 1][f[m]]
    BY <2>1, <2>2, <2>3
  <2>5. \A k \in 0..n : k # m + 1 => g[k] = f[k]
    BY <2>1
  <2> HIDE DEF g
  <2>6. ASSUME NEW k \in 1..n, k <= m + 1 PROVE g[k] = next[k][g[k - 1]]
    <3>1. k - 1 \in 0..n /\ k \in 0..n /\ k - 1 # m + 1
      BY <2>6
    <3>2. CASE k = m + 1
      BY <2>4, <2>5, <3>1, <3>2
    <3>3. CASE k # m + 1
      BY <2>1, <2>5, <2>6, <3>1, <3>3
    <3> QED
      BY <3>2, <3>3
  <2> QED
    BY <2>4, <2>6
<1>3. n \in S
  <2> HIDE DEF S
  <2> QED
    BY <1>1, <1>2, Induction
<1>4. PICK f : Goes(f, n)
  BY <1>3
<1> QED
  BY <1>4

(* Division with a remainder, and by one factor after the other.          *)
LEMMA Division ==
  ASSUME NEW n \in Nat, NEW d \in Nat \ {0}
  PROVE  n = d * (n \div d) + (n % d) /\ (n % d) \in 0..(d - 1) /\ n \div d \in Nat
OBVIOUS

LEMMA DivisionTwice ==
  ASSUME NEW n \in Nat, NEW d \in Nat \ {0}, NEW b \in Nat \ {0}
  PROVE  n \div (b * d) = (n \div d) \div b
OBVIOUS

(* Concatenation, the first two of three pieces being a whole.             *)
LEMMA Regroup ==
  ASSUME NEW S, NEW a \in Seq(S), NEW b \in Seq(S), NEW c \in Seq(S), NEW s, s = a \o b
  PROVE  s \o c = a \o (b \o c)
BY ConcatAssociative

(* Appending to a sequence: one more position, the others as before.       *)
LEMMA AppendIndex ==
  ASSUME NEW S, NEW s \in Seq(S), NEW x \in S
  PROVE  /\ Len(s) \in Nat
         /\ DOMAIN s = 1..Len(s)
         /\ Append(s, x) \in Seq(S)
         /\ DOMAIN Append(s, x) = 1..(Len(s) + 1)
         /\ \A i \in 1..Len(s) : Append(s, x)[i] = s[i] /\ s[i] \in S
         /\ Append(s, x)[Len(s) + 1] = x
BY AppendProperties, LenProperties, ElementOfSeq

(* Taking the head of a sequence: every other position moves down by one.  *)
LEMMA TailIndex ==
  ASSUME NEW S, NEW s \in Seq(S), s # <<>>
  PROVE  /\ Len(s) \in Nat \ {0}
         /\ DOMAIN s = 1..Len(s)
         /\ Head(s) = s[1] /\ Head(s) \in S
         /\ Tail(s) \in Seq(S)
         /\ DOMAIN Tail(s) = 1..(Len(s) - 1)
         /\ \A i \in 1..(Len(s) - 1) : Tail(s)[i] = s[i + 1]
         /\ \A i \in 1..Len(s) : s[i] \in S
BY HeadTailProperties, LenProperties, ElementOfSeq, EmptySeq

=============================================================================
