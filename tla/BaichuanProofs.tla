--------------------------- MODULE BaichuanProofs ---------------------------
(***************************************************************************)
(* Proofs about the native client, for streams of any length and any       *)
(* content that is made of whole records, any number of connections,       *)
(* packets and keepalives, and any number of frames of the opening: that   *)
(* each keepalive is answered once and in order, and that the demuxer gets *)
(* the video of its connection, each piece once and in order.              *)
(***************************************************************************)
EXTENDS Baichuan, SequenceTheorems, TLAPS

IsSeq(s) == \E S : s \in Seq(S)

(* Two sequences have a set of elements in common.                         *)
LEMMA InOneSet ==
  ASSUME NEW s, NEW t, IsSeq(s), IsSeq(t)
  PROVE  \E S : s \in Seq(S) /\ t \in Seq(S)
<1>1. PICK S : s \in Seq(S)
  BY DEF IsSeq
<1>2. PICK T : t \in Seq(T)
  BY DEF IsSeq
<1>3. s \in Seq(S \union T) /\ t \in Seq(S \union T)
  BY <1>1, <1>2, SeqMonotonic, Zenon
<1> QED
  BY <1>3

LEMMA ConcatIs ==
  ASSUME NEW s, NEW t, IsSeq(s), IsSeq(t)
  PROVE  /\ IsSeq(s \o t)
         /\ Len(s) \in Nat /\ Len(t) \in Nat
         /\ Len(s \o t) = Len(s) + Len(t)
         /\ \A i \in 1..(Len(s) + Len(t)) :
              (s \o t)[i] = IF i <= Len(s) THEN s[i] ELSE t[i - Len(s)]
         /\ s \o <<>> = s /\ <<>> \o s = s
<1>1. PICK S : s \in Seq(S) /\ t \in Seq(S)
  BY InOneSet
<1>2. s \o t \in Seq(S) /\ Len(s) \in Nat /\ Len(t) \in Nat
  BY <1>1, ConcatProperties, LenProperties
<1>3. s \o <<>> = s /\ <<>> \o s = s
  BY <1>1, ConcatEmptySeq
<1> QED
  BY <1>1, <1>2, <1>3, ConcatProperties DEF IsSeq

LEMMA SameSequence ==
  ASSUME NEW s, NEW t, IsSeq(s), IsSeq(t), Len(s) = Len(t),
         \A i \in 1..Len(s) : s[i] = t[i]
  PROVE  s = t
<1>1. PICK S : s \in Seq(S) /\ t \in Seq(S)
  BY InOneSet
<1> QED
  BY <1>1, SeqEqual

LEMMA PartIs ==
  ASSUME NEW s, IsSeq(s), NEW m \in Nat \ {0}, NEW n \in 0..Len(s)
  PROVE  /\ IsSeq(SubSeq(s, m, n))
         /\ Len(SubSeq(s, m, n)) = IF m <= n THEN n - m + 1 ELSE 0
         /\ \A i \in 1..(n - m + 1) : SubSeq(s, m, n)[i] = s[m + i - 1]
<1>1. PICK S : s \in Seq(S)
  BY DEF IsSeq
<1>2. Len(s) \in Nat /\ m \in Int /\ n \in Int
  BY <1>1, LenProperties
<1>3. /\ SubSeq(s, m, n) \in Seq(S)
      /\ Len(SubSeq(s, m, n)) = IF m <= n THEN n - m + 1 ELSE 0
      /\ \A i \in 1..(n - m + 1) : SubSeq(s, m, n)[i] = s[m + i - 1]
  BY <1>1, <1>2
<1> QED
  BY <1>3 DEF IsSeq

LEMMA AppendIs ==
  ASSUME NEW s, IsSeq(s), NEW e
  PROVE  /\ IsSeq(Append(s, e))
         /\ Len(s) \in Nat
         /\ Len(Append(s, e)) = Len(s) + 1
         /\ \A i \in 1..Len(s) : Append(s, e)[i] = s[i]
         /\ Append(s, e)[Len(s) + 1] = e
<1>1. PICK S : s \in Seq(S)
  BY DEF IsSeq
<1>2. s \in Seq(S \union {e}) /\ e \in S \union {e}
  BY <1>1, SeqMonotonic, Zenon
<1> QED
  BY <1>2, AppendProperties, LenProperties DEF IsSeq

LEMMA TailIs ==
  ASSUME NEW s, IsSeq(s), s # <<>>
  PROVE  /\ IsSeq(Tail(s))
         /\ Len(s) \in Nat \ {0}
         /\ Len(Tail(s)) = Len(s) - 1
         /\ \A i \in 1..(Len(s) - 1) : Tail(s)[i] = s[i + 1]
         /\ Head(s) = s[1]
<1>1. PICK S : s \in Seq(S)
  BY DEF IsSeq
<1> QED
  BY <1>1, HeadTailProperties, EmptySeq DEF IsSeq

LEMMA EmptyIs == /\ IsSeq(<<>>) /\ Len(<<>>) = 0
                 /\ \A s : IsSeq(s) => Len(s) \in Nat /\ (Len(s) = 0 <=> s = <<>>)
<1>1. <<>> \in Seq({})
  OBVIOUS
<1>2. ASSUME NEW s, IsSeq(s)
      PROVE  Len(s) \in Nat /\ (Len(s) = 0 <=> s = <<>>)
  <2>1. PICK S : s \in Seq(S)
    BY <1>2 DEF IsSeq
  <2> QED
    BY <2>1, EmptySeq
<1> QED
  BY <1>1, <1>2 DEF IsSeq

LEMMA ConcatThree ==
  ASSUME NEW s, NEW t, NEW u, IsSeq(s), IsSeq(t), IsSeq(u)
  PROVE  (s \o t) \o u = s \o (t \o u)
<1>1. PICK S : s \in Seq(S) /\ t \in Seq(S)
  BY InOneSet
<1>2. PICK T : u \in Seq(T)
  BY DEF IsSeq
<1>3. s \in Seq(S \union T) /\ t \in Seq(S \union T) /\ u \in Seq(S \union T)
  BY <1>1, <1>2, SeqMonotonic, Zenon
<1> QED
  BY <1>3, ConcatAssociative

(* A function over the first numbers is a sequence.                        *)
LEMMA RowIs ==
  ASSUME NEW n \in Nat, NEW f, f = [i \in 1..n |-> f[i]]
  PROVE  IsSeq(f) /\ Len(f) = n
<1>1. f \in [1..n -> {f[i] : i \in 1..n}]
  OBVIOUS
<1>2. f \in Seq({f[i] : i \in 1..n})
  BY <1>1
<1>3. Len(f) \in Nat /\ DOMAIN f = 1..Len(f) /\ DOMAIN f = 1..n
  BY <1>1, <1>2, LenProperties
<1> QED
  BY <1>2, <1>3, SMTT(60) DEF IsSeq

-----------------------------------------------------------------------------
(* Packets in halves.                                                      *)

Halved(packets) ==
  [i \in 1..(2 * Len(packets)) |-> [packet |-> packets[(i + 1) \div 2], half |-> 2 - (i % 2)]]
Halves == client.wire \o air
HalvesAre(P) == IsSeq(client.wire) /\ IsSeq(air) /\ IsSeq(P) /\ Halves = Halved(P)

LEMMA HalvedIs ==
  ASSUME NEW P, IsSeq(P)
  PROVE  /\ IsSeq(Halved(P)) /\ Len(Halved(P)) = 2 * Len(P) /\ Len(P) \in Nat
         /\ \A k \in 1..Len(P) :
              /\ Halved(P)[2 * k - 1] = [packet |-> P[k], half |-> 1]
              /\ Halved(P)[2 * k] = [packet |-> P[k], half |-> 2]
         /\ \A i \in 1..(2 * Len(P)) : \E k \in 1..Len(P) : i = 2 * k - 1 \/ i = 2 * k
<1>1. Len(P) \in Nat
  BY EmptyIs
<1>2. IsSeq(Halved(P)) /\ Len(Halved(P)) = 2 * Len(P)
  BY <1>1, RowIs, 2 * Len(P) \in Nat,
     Halved(P) = [i \in 1..(2 * Len(P)) |-> Halved(P)[i]]
  DEF Halved
<1>3. ASSUME NEW k \in 1..Len(P)
      PROVE  /\ Halved(P)[2 * k - 1] = [packet |-> P[k], half |-> 1]
             /\ Halved(P)[2 * k] = [packet |-> P[k], half |-> 2]
  <2>1. /\ 2 * k - 1 \in 1..(2 * Len(P)) /\ 2 * k \in 1..(2 * Len(P))
        /\ (2 * k - 1 + 1) \div 2 = k /\ (2 * k - 1) % 2 = 1
        /\ (2 * k + 1) \div 2 = k /\ (2 * k) % 2 = 0
    BY <1>1
  <2> QED
    BY <2>1 DEF Halved
<1>4. ASSUME NEW i \in 1..(2 * Len(P))
      PROVE  \E k \in 1..Len(P) : i = 2 * k - 1 \/ i = 2 * k
  <2>1. /\ (i + 1) \div 2 \in 1..Len(P)
        /\ i = 2 * ((i + 1) \div 2) - 1 \/ i = 2 * ((i + 1) \div 2)
    BY <1>1
  <2> QED
    BY <2>1
<1> QED
  BY <1>1, <1>2, <1>3, <1>4

(* Two rows of halves that agree on both halves of each packet agree.      *)
LEMMA HalvedSame ==
  ASSUME NEW P, NEW s, IsSeq(P), IsSeq(s), Len(s) = 2 * Len(P),
         \A k \in 1..Len(P) : s[2 * k - 1] = [packet |-> P[k], half |-> 1]
                              /\ s[2 * k] = [packet |-> P[k], half |-> 2]
  PROVE  s = Halved(P)
<1>1. /\ IsSeq(Halved(P)) /\ Len(Halved(P)) = 2 * Len(P) /\ Len(P) \in Nat
      /\ \A k \in 1..Len(P) :
           /\ Halved(P)[2 * k - 1] = [packet |-> P[k], half |-> 1]
           /\ Halved(P)[2 * k] = [packet |-> P[k], half |-> 2]
      /\ \A i \in 1..(2 * Len(P)) : \E k \in 1..Len(P) : i = 2 * k - 1 \/ i = 2 * k
  BY HalvedIs
<1>2. ASSUME NEW i \in 1..Len(s)
      PROVE  s[i] = Halved(P)[i]
  <2>1. PICK k \in 1..Len(P) : i = 2 * k - 1 \/ i = 2 * k
    BY <1>1
  <2>2. /\ s[2 * k - 1] = Halved(P)[2 * k - 1]
        /\ s[2 * k] = Halved(P)[2 * k]
    BY <1>1, Zenon
  <2> QED
    BY <2>1, <2>2
<1> QED
  BY <1>1, <1>2, SameSequence

LEMMA HalvedAppend ==
  ASSUME NEW P, IsSeq(P), NEW p
  PROVE  Halved(P) \o InHalves(p) = Halved(Append(P, p))
<1> DEFINE s == Halved(P) \o InHalves(p)
           Q == Append(P, p)
<1>1. /\ IsSeq(Halved(P)) /\ Len(Halved(P)) = 2 * Len(P) /\ Len(P) \in Nat
      /\ \A k \in 1..Len(P) :
           /\ Halved(P)[2 * k - 1] = [packet |-> P[k], half |-> 1]
           /\ Halved(P)[2 * k] = [packet |-> P[k], half |-> 2]
  BY HalvedIs
<1>2. /\ InHalves(p) \in Seq({[packet |-> p, half |-> 1], [packet |-> p, half |-> 2]})
      /\ Len(InHalves(p)) = 2
      /\ InHalves(p)[1] = [packet |-> p, half |-> 1]
      /\ InHalves(p)[2] = [packet |-> p, half |-> 2]
  BY DEF InHalves
<1>3. IsSeq(InHalves(p))
  BY <1>2 DEF IsSeq
<1>4. /\ IsSeq(s) /\ Len(s) = 2 * Len(P) + 2
      /\ \A i \in 1..(2 * Len(P) + 2) :
           s[i] = IF i <= 2 * Len(P) THEN Halved(P)[i] ELSE InHalves(p)[i - 2 * Len(P)]
  <2> DEFINE h == Halved(P)
             t == InHalves(p)
  <2>1. IsSeq(h) /\ IsSeq(t) /\ Len(h) = 2 * Len(P) /\ Len(t) = 2
    BY <1>1, <1>2, <1>3
  <2> HIDE DEF h, t
  <2>2. /\ IsSeq(h \o t) /\ Len(h \o t) = Len(h) + Len(t)
        /\ \A i \in 1..(Len(h) + Len(t)) :
             (h \o t)[i] = IF i <= Len(h) THEN h[i] ELSE t[i - Len(h)]
    BY <2>1, ConcatIs
  <2>3. /\ IsSeq(h \o t) /\ Len(h \o t) = 2 * Len(P) + 2
        /\ \A i \in 1..(2 * Len(P) + 2) :
             (h \o t)[i] = IF i <= 2 * Len(P) THEN h[i] ELSE t[i - 2 * Len(P)]
    BY <2>1, <2>2
  <2> QED
    BY <2>3 DEF h, t
<1>5. /\ IsSeq(Q) /\ Len(Q) = Len(P) + 1 /\ Q[Len(P) + 1] = p
      /\ \A k \in 1..Len(P) : Q[k] = P[k]
  BY AppendIs
<1> HIDE DEF s, Q
<1>6. ASSUME NEW k \in 1..Len(Q)
      PROVE  s[2 * k - 1] = [packet |-> Q[k], half |-> 1] /\ s[2 * k] = [packet |-> Q[k], half |-> 2]
  <2>1. CASE k <= Len(P)
    BY <1>1, <1>4, <1>5, <1>6, <2>1
  <2>2. CASE k = Len(P) + 1
    BY <1>1, <1>2, <1>4, <1>5, <1>6, <2>2
  <2> QED
    BY <1>1, <1>5, <2>1, <2>2
<1>7. s = Halved(Q)
  BY <1>1, <1>4, <1>5, <1>6, HalvedSame
<1> QED
  BY <1>7 DEF s, Q

(* The first packet leaves with its two halves.                            *)
LEMMA HalvedTail ==
  ASSUME NEW P, IsSeq(P), P # <<>>
  PROVE  SubSeq(Halved(P), 3, Len(Halved(P))) = Halved(Tail(P))
<1> DEFINE s == SubSeq(Halved(P), 3, Len(Halved(P)))
           Q == Tail(P)
<1>1. /\ IsSeq(Halved(P)) /\ Len(Halved(P)) = 2 * Len(P) /\ Len(P) \in Nat
      /\ \A k \in 1..Len(P) :
           /\ Halved(P)[2 * k - 1] = [packet |-> P[k], half |-> 1]
           /\ Halved(P)[2 * k] = [packet |-> P[k], half |-> 2]
  BY HalvedIs
<1>2. /\ IsSeq(Q) /\ Len(P) \in Nat \ {0} /\ Len(Q) = Len(P) - 1
      /\ \A k \in 1..(Len(P) - 1) : Q[k] = P[k + 1]
  BY TailIs
<1>3. 2 * Len(P) \in 0..Len(Halved(P)) /\ 3 \in Nat \ {0}
  BY <1>1
<1>4. /\ IsSeq(s) /\ Len(s) = IF 3 <= 2 * Len(P) THEN 2 * Len(P) - 3 + 1 ELSE 0
      /\ \A i \in 1..(2 * Len(P) - 3 + 1) : s[i] = Halved(P)[3 + i - 1]
  BY <1>1, <1>3, PartIs
<1> HIDE DEF s, Q
<1>5. Len(s) = 2 * Len(Q) /\ \A i \in 1..(2 * Len(Q)) : s[i] = Halved(P)[i + 2]
  BY <1>1, <1>2, <1>4
<1>6. ASSUME NEW k \in 1..Len(Q)
      PROVE  s[2 * k - 1] = [packet |-> Q[k], half |-> 1] /\ s[2 * k] = [packet |-> Q[k], half |-> 2]
  <2>1. /\ s[2 * k - 1] = Halved(P)[2 * (k + 1) - 1] /\ s[2 * k] = Halved(P)[2 * (k + 1)]
        /\ k + 1 \in 1..Len(P) /\ Q[k] = P[k + 1]
    <3>1. /\ 2 * k - 1 \in 1..(2 * Len(Q)) /\ 2 * k \in 1..(2 * Len(Q))
          /\ 2 * k - 1 + 2 = 2 * (k + 1) - 1 /\ 2 * k + 2 = 2 * (k + 1)
          /\ k \in 1..(Len(P) - 1) /\ k + 1 \in 1..Len(P)
      BY <1>2
    <3> QED
      BY <1>2, <1>5, <3>1
  <2> QED
    BY <1>1, <2>1
<1>7. s = Halved(Q)
  BY <1>2, <1>4, <1>5, <1>6, HalvedSame
<1> QED
  BY <1>7 DEF s, Q

(* TCP brings the next halves, whatever their packets.                     *)
LEMMA WireReceives ==
  ASSUME NEW w, NEW a, IsSeq(w), IsSeq(a), NEW c \in 1..Len(a)
  PROVE  /\ IsSeq(w \o SubSeq(a, 1, c)) /\ IsSeq(SubSeq(a, c + 1, Len(a)))
         /\ (w \o SubSeq(a, 1, c)) \o SubSeq(a, c + 1, Len(a)) = w \o a
<1> DEFINE x == SubSeq(a, 1, c)
           y == SubSeq(a, c + 1, Len(a))
<1>0. \A u, v : IsSeq(u) /\ IsSeq(v) => (w \o u) \o v = w \o (u \o v)
  BY ConcatThree, SMTT(60)
<1>1. Len(a) \in Nat /\ c \in 0..Len(a) /\ c + 1 \in Nat \ {0} /\ Len(a) \in 0..Len(a) /\ 1 \in Nat \ {0}
  BY EmptyIs
<1>2. IsSeq(x) /\ Len(x) = c /\ \A i \in 1..c : x[i] = a[i]
  <2>1. /\ IsSeq(x) /\ Len(x) = IF 1 <= c THEN c - 1 + 1 ELSE 0
        /\ \A i \in 1..(c - 1 + 1) : x[i] = a[1 + i - 1]
    BY <1>1, PartIs
  <2> QED
    BY <1>1, <2>1
<1>3. IsSeq(y) /\ Len(y) = Len(a) - c /\ \A i \in 1..(Len(a) - c) : y[i] = a[c + i]
  <2>1. /\ IsSeq(y) /\ Len(y) = IF c + 1 <= Len(a) THEN Len(a) - (c + 1) + 1 ELSE 0
        /\ \A i \in 1..(Len(a) - (c + 1) + 1) : y[i] = a[c + 1 + i - 1]
    BY <1>1, PartIs
  <2> HIDE DEF y
  <2> QED
    BY <1>1, <2>1
<1> HIDE DEF x, y
<1>4. x \o y = a
  <2>1. /\ IsSeq(x \o y) /\ Len(x \o y) = Len(x) + Len(y)
        /\ \A i \in 1..(Len(x) + Len(y)) : (x \o y)[i] = IF i <= Len(x) THEN x[i] ELSE y[i - Len(x)]
    BY <1>2, <1>3, ConcatIs
  <2>2. ASSUME NEW i \in 1..Len(x \o y)
        PROVE  (x \o y)[i] = a[i]
    BY <1>1, <1>2, <1>3, <2>1
  <2>3. Len(x \o y) = Len(a)
    BY <1>1, <1>2, <1>3, <2>1
  <2> QED
    BY <2>1, <2>2, <2>3, SameSequence
<1>5. IsSeq(w \o x) /\ (w \o x) \o y = w \o (x \o y)
  <2>1. IsSeq(w \o x)
    BY <1>2, ConcatIs
  <2>2. IsSeq(w) /\ IsSeq(x) /\ IsSeq(y)
    BY <1>2, <1>3
  <2>3. (w \o x) \o y = w \o (x \o y)
    BY <1>0, <2>2, Zenon
  <2> QED
    BY <2>1, <2>3
<1> QED
  BY <1>3, <1>4, <1>5 DEF x, y

LEMMA WireDrops ==
  ASSUME NEW w, NEW a, IsSeq(w), IsSeq(a), Len(w) >= 2
  PROVE  /\ IsSeq(SubSeq(w, 3, Len(w)))
         /\ SubSeq(w, 3, Len(w)) \o a = SubSeq(w \o a, 3, Len(w \o a))
         /\ Head(w) = (w \o a)[1] /\ Len(w \o a) >= 2
<1> DEFINE x == SubSeq(w, 3, Len(w))
           wa == w \o a
           y == SubSeq(wa, 3, Len(wa))
<1>1. /\ Len(w) \in Nat /\ Len(a) \in Nat /\ 3 \in Nat \ {0}
      /\ IsSeq(wa) /\ Len(wa) = Len(w) + Len(a)
      /\ \A i \in 1..(Len(w) + Len(a)) : wa[i] = IF i <= Len(w) THEN w[i] ELSE a[i - Len(w)]
  BY ConcatIs
<1>2. Head(w) = w[1]
  BY TailIs, EmptyIs
<1> HIDE DEF wa
<1>3. IsSeq(x) /\ Len(x) = Len(w) - 2 /\ \A i \in 1..(Len(w) - 2) : x[i] = w[i + 2]
  <2>1. /\ IsSeq(x) /\ Len(x) = IF 3 <= Len(w) THEN Len(w) - 3 + 1 ELSE 0
        /\ \A i \in 1..(Len(w) - 3 + 1) : x[i] = w[3 + i - 1]
    BY <1>1, PartIs, Len(w) \in 0..Len(w)
  <2> HIDE DEF x
  <2>2. Len(x) = Len(w) - 2
    <3>1. Len(w) \in Nat
      BY <1>1
    <3>2. Len(x) = IF 3 <= Len(w) THEN Len(w) - 3 + 1 ELSE 0
      BY <2>1
    <3> DEFINE n == Len(w)
    <3> HIDE DEF n
    <3>3. n \in Nat /\ n >= 2 /\ Len(x) = IF 3 <= n THEN n - 3 + 1 ELSE 0
      BY <3>1, <3>2 DEF n
    <3>4. Len(x) = n - 2
      BY <3>3
    <3> QED
      BY <3>4 DEF n
  <2>3. ASSUME NEW i \in 1..(Len(w) - 2)
        PROVE  x[i] = w[i + 2]
    <3>1. i \in 1..(Len(w) - 3 + 1) /\ 3 + i - 1 = i + 2
      BY <1>1
    <3> QED
      BY <2>1, <3>1
  <2> QED
    BY <2>1, <2>2, <2>3
<1>4. IsSeq(y) /\ Len(y) = Len(wa) - 2 /\ \A i \in 1..(Len(wa) - 2) : y[i] = wa[i + 2]
  <2>1. /\ IsSeq(y) /\ Len(y) = IF 3 <= Len(wa) THEN Len(wa) - 3 + 1 ELSE 0
        /\ \A i \in 1..(Len(wa) - 3 + 1) : y[i] = wa[3 + i - 1]
    BY <1>1, PartIs, Len(wa) \in 0..Len(wa)
  <2> HIDE DEF y
  <2> QED
    BY <1>1, <2>1
<1> HIDE DEF x, y
<1>5. /\ IsSeq(x \o a) /\ Len(x \o a) = Len(x) + Len(a)
      /\ \A i \in 1..(Len(x) + Len(a)) : (x \o a)[i] = IF i <= Len(x) THEN x[i] ELSE a[i - Len(x)]
  BY <1>3, ConcatIs
<1>6. Len(x \o a) = Len(y)
  BY <1>1, <1>3, <1>4, <1>5
<1>7. ASSUME NEW i \in 1..Len(x \o a)
      PROVE  (x \o a)[i] = y[i]
  <2>1. i \in 1..(Len(x) + Len(a)) /\ i \in 1..(Len(wa) - 2) /\ i + 2 \in 1..(Len(w) + Len(a))
    BY <1>1, <1>3, <1>5
  <2>2. y[i] = IF i + 2 <= Len(w) THEN w[i + 2] ELSE a[i + 2 - Len(w)]
    BY <1>1, <1>4, <2>1
  <2>3. CASE i <= Len(x)
    BY <1>1, <1>3, <1>5, <2>1, <2>2, <2>3
  <2>4. CASE i > Len(x)
    <3>1. i - Len(x) = i + 2 - Len(w) /\ i + 2 > Len(w)
      BY <1>1, <1>3, <2>1, <2>4
    <3> QED
      BY <1>1, <1>3, <1>5, <2>1, <2>2, <2>4, <3>1
  <2> QED
    BY <1>1, <1>3, <2>1, <2>3, <2>4
<1>8. x \o a = y
  BY <1>4, <1>5, <1>6, <1>7, SameSequence
<1>9. Head(w) = wa[1] /\ Len(wa) >= 2
  BY <1>1, <1>2
<1> QED
  BY <1>3, <1>8, <1>9 DEF x, y, wa

LEMMA HalvesReceived ==
  ASSUME NEW P, HalvesAre(P), NEW c \in 1..Len(air),
         client'.wire = client.wire \o SubSeq(air, 1, c),
         air' = SubSeq(air, c + 1, Len(air))
  PROVE  HalvesAre(P)'
<1>1. IsSeq(client.wire) /\ IsSeq(air) /\ IsSeq(P) /\ client.wire \o air = Halved(P)
  BY DEF HalvesAre, Halves
<1>2. IsSeq(client'.wire) /\ IsSeq(air') /\ client'.wire \o air' = client.wire \o air
  BY <1>1, WireReceives
<1> QED
  BY <1>1, <1>2 DEF HalvesAre, Halves

LEMMA HalvesSent ==
  ASSUME NEW P, HalvesAre(P), NEW p, client'.wire = client.wire, air' = air \o InHalves(p)
  PROVE  HalvesAre(Append(P, p))'
<1>1. IsSeq(client.wire) /\ IsSeq(air) /\ IsSeq(P) /\ client.wire \o air = Halved(P)
  BY DEF HalvesAre, Halves
<1>2. IsSeq(InHalves(p))
  <2>1. InHalves(p) \in Seq({[packet |-> p, half |-> 1], [packet |-> p, half |-> 2]})
    BY DEF InHalves
  <2> QED
    BY <2>1 DEF IsSeq
<1>3. IsSeq(air') /\ client.wire \o air' = (client.wire \o air) \o InHalves(p)
  <2>1. IsSeq(air')
    BY <1>1, <1>2, ConcatIs
  <2>2. \A w, a, h : IsSeq(w) /\ IsSeq(a) /\ IsSeq(h) => (w \o a) \o h = w \o (a \o h)
    BY ConcatThree, SMTT(60)
  <2>3. (client.wire \o air) \o InHalves(p) = client.wire \o (air \o InHalves(p))
    <3> DEFINE w == client.wire
               h == InHalves(p)
    <3>1. IsSeq(w) /\ IsSeq(air) /\ IsSeq(h)
      BY <1>1, <1>2
    <3> HIDE DEF w, h
    <3>2. (w \o air) \o h = w \o (air \o h)
      BY <2>2, <3>1
    <3> QED
      BY <3>2 DEF w, h
  <2> QED
    BY <2>1, <2>3
<1>4. IsSeq(Append(P, p)) /\ client'.wire \o air' = Halved(Append(P, p))
  BY <1>1, <1>3, AppendIs, HalvedAppend
<1> QED
  BY <1>1, <1>3, <1>4 DEF HalvesAre, Halves

LEMMA HalvesTaken ==
  ASSUME NEW P, HalvesAre(P), Len(client.wire) >= 2
  PROVE  /\ P # <<>> /\ First = P[1]
         /\ client'.wire = Rest /\ air' = air => HalvesAre(Tail(P))'
<1>1. IsSeq(client.wire) /\ IsSeq(air) /\ IsSeq(P) /\ client.wire \o air = Halved(P)
  BY DEF HalvesAre, Halves
<1>2. /\ IsSeq(Rest) /\ Rest \o air = SubSeq(Halved(P), 3, Len(Halved(P)))
      /\ Head(client.wire) = Halved(P)[1] /\ Len(Halved(P)) >= 2
  BY <1>1, WireDrops, ZenonT(60) DEF Rest
<1>3. /\ Len(Halved(P)) = 2 * Len(P) /\ Len(P) \in Nat
      /\ \A k \in 1..Len(P) : Halved(P)[2 * k - 1] = [packet |-> P[k], half |-> 1]
  BY <1>1, HalvedIs
<1>4. 1 \in 1..Len(P) /\ P # <<>>
  BY <1>1, <1>2, <1>3, EmptyIs
<1>5. Halved(P)[2 * 1 - 1] = [packet |-> P[1], half |-> 1]
  BY <1>3, <1>4
<1>6. First = P[1]
  BY <1>2, <1>5 DEF First
<1>7. IsSeq(Tail(P)) /\ Rest \o air = Halved(Tail(P))
  BY <1>1, <1>2, <1>4, TailIs, HalvedTail
<1> QED
  BY <1>1, <1>2, <1>4, <1>6, <1>7 DEF HalvesAre, Halves

LEMMA HalvesGone ==
  ASSUME client'.wire = <<>>, air' = <<>>
  PROVE  HalvesAre(<<>>)'
<1>1. Len(<<>>) = 0 /\ IsSeq(<<>>) /\ <<>> \o <<>> = <<>>
  BY EmptyIs, ConcatIs
<1>2. IsSeq(Halved(<<>>)) /\ Len(Halved(<<>>)) = 0
  BY <1>1, HalvedIs
<1>3. Halved(<<>>) = <<>>
  BY <1>2, EmptyIs
<1> QED
  BY <1>1, <1>3 DEF HalvesAre, Halves

-----------------------------------------------------------------------------
(* Keepalives.                                                             *)

(* The fields of the four records.                                         *)
Records ==
  /\ client = [pc |-> client.pc, goal |-> client.goal, wire |-> client.wire,
               parser |-> client.parser, binary |-> client.binary, codec |-> client.codec,
               pending |-> client.pending, current |-> client.current]
  /\ camera = [alive |-> camera.alive, request |-> camera.request,
               streaming |-> camera.streaming, begun |-> camera.begun, rest |-> camera.rest]
  /\ used = [keepalives |-> used.keepalives, others |-> used.others,
             sessions |-> used.sessions]
  /\ story = [stream |-> story.stream, fed |-> story.fed, asked |-> story.asked,
              answered |-> story.answered]

LEMMA RecordsInit == Init => Records
BY DEF Init, Records, ClosedClient, NoCamera, NoStory

LEMMA RecordsNext == Records /\ [Next]_vars => Records'
<1> SUFFICES ASSUME Records, [Next]_vars
             PROVE  Records'
  OBVIOUS
<1>1. CASE Close
  BY <1>1 DEF Close, Records, ClosedClient, NoCamera, NoStory
<1>2. CASE Answer \/ SendKeepalive \/ SendOther \/ HangUp
  BY <1>2 DEF Answer, SendKeepalive, SendOther, HangUp, Records, NoCamera
<1>3. CASE \E count \in 1..3 : SendMedia(count)
  BY <1>3 DEF SendMedia, Records
<1>4. CASE \E goal \in {"stream", "probe"} : Open(goal)
  BY <1>4 DEF Open, Records, ClosedClient, NoCamera, NoStory
<1>5. CASE \E count \in 1..Len(air) : Receive(count)
  BY <1>5 DEF Receive, Records
<1>6. CASE TimeOut \/ Lose \/ Keepalive \/ Skip
  BY <1>1, <1>6 DEF TimeOut, Lose, Keepalive, Skip, Records
<1>7. CASE Upgraded \/ LoggedIn
  BY <1>1, <1>7 DEF Upgraded, LoggedIn, Records
<1>8. CASE Started \/ MediaPacket \/ StepOver
  BY <1>1, <1>8 DEF Started, MediaPacket, StepOver, Appended, Records
<1>9. CASE Collect
  BY <1>1, <1>9 DEF Collect, Records
<1>10. CASE Read \/ ReadRecord \/ Disconnect
  BY <1>1, <1>10 DEF Read, ReadRecord, Disconnect, Records
<1>11. CASE \E count \in 1..2 : Feed(count)
  BY <1>11 DEF Feed, Records
<1>12. CASE UNCHANGED vars
  BY <1>12 DEF vars, Records
<1> QED
  BY <1>2, <1>3, <1>4, <1>5, <1>6, <1>7, <1>8, <1>9, <1>10, <1>11, <1>12 DEF Next

(* A connection that is closed has nothing on its way.                     *)
ClosedOK == client.pc = "closed" => client.wire = <<>> /\ air = <<>> /\ ~camera.alive

LEMMA ClosedInit == Init => ClosedOK
BY DEF Init, ClosedOK, ClosedClient, NoCamera

LEMMA ClosedNext == Records /\ ClosedOK /\ [Next]_vars => ClosedOK'
<1> SUFFICES ASSUME Records, ClosedOK, [Next]_vars
             PROVE  ClosedOK'
  OBVIOUS
<1>1. CASE Close
  BY <1>1 DEF Close, ClosedOK, ClosedClient, NoCamera
<1>2. CASE Answer \/ SendKeepalive \/ SendOther \/ HangUp
  BY <1>2 DEF Answer, SendKeepalive, SendOther, HangUp, ClosedOK, MaySend, NoCamera
<1>3. CASE \E count \in 1..3 : SendMedia(count)
  BY <1>3 DEF SendMedia, ClosedOK, MaySend
<1>4. CASE \E goal \in {"stream", "probe"} : Open(goal)
  BY <1>4 DEF Open, ClosedOK, ClosedClient
<1>5. CASE \E count \in 1..Len(air) : Receive(count)
  BY <1>5 DEF Receive, ClosedOK, Records, Waits, Listens, Media, Handshake
<1>6. CASE TimeOut \/ Lose \/ Keepalive \/ Skip
  BY <1>1, <1>6 DEF TimeOut, Lose, Keepalive, Skip, ClosedOK, Records, HasPacket, Waits, Listens,
     Media, Handshake
<1>7. CASE Upgraded \/ LoggedIn
  BY <1>1, <1>7 DEF Upgraded, LoggedIn, ClosedOK, Records
<1>8. CASE Started \/ MediaPacket \/ StepOver
  BY <1>1, <1>8 DEF Started, MediaPacket, StepOver, Appended, ClosedOK, Records, Media, GoesOn
<1>9. CASE Collect
  BY <1>1, <1>9 DEF Collect, ClosedOK, Records
<1>10. CASE Read \/ Disconnect
  BY <1>1, <1>10 DEF Read, Disconnect, ClosedOK, Records
<1>13. CASE ReadRecord
  <2>1. client.pc = "reading" /\ (Close \/ client'.pc \in {"reading", "open"})
    BY <1>13 DEF ReadRecord, Records
  <2> QED
    BY <1>1, <2>1 DEF ClosedOK
<1>11. CASE \E count \in 1..2 : Feed(count)
  BY <1>11 DEF Feed, ClosedOK, Records
<1>12. CASE UNCHANGED vars
  BY <1>12 DEF vars, ClosedOK
<1> QED
  BY <1>2, <1>3, <1>4, <1>5, <1>6, <1>7, <1>8, <1>9, <1>10, <1>11, <1>12, <1>13 DEF Next

(* The packets on their way, of which one or none is half received, hold   *)
(* the keepalives that have no answer yet, in order; count have been sent. *)
Keepalives(P) == {k \in 1..Len(P) : P[k].id = "keepalive"}
Unanswered(asked, answered) == (Len(answered) + 1)..Len(asked)
KeepIs(P, asked, answered, count) ==
  /\ count \in Nat
  /\ asked \in Seq(Nat) /\ answered \in Seq(Nat)
  /\ Len(answered) <= Len(asked)
  /\ \A i \in 1..Len(answered) : answered[i] = asked[i]
  /\ \A i \in 1..Len(asked) : asked[i] \in 0..count
  /\ \A i, j \in 1..Len(asked) : i < j => asked[i] < asked[j]
  /\ \A k \in Keepalives(P) : \E i \in Unanswered(asked, answered) : P[k].body = asked[i]
  /\ \A i \in Unanswered(asked, answered) : \E k \in Keepalives(P) : P[k].body = asked[i]
  /\ \A k, l \in Keepalives(P) : k < l => P[k].body < P[l].body
KeepOK(P) == KeepIs(P, story.asked, story.answered, used.keepalives)

LEMMA KeepNone ==
  ASSUME NEW count \in Nat
  PROVE  KeepIs(<<>>, <<>>, <<>>, count)
<1>1. <<>> \in Seq(Nat) /\ Len(<<>>) = 0
  OBVIOUS
<1> QED
  BY <1>1 DEF KeepIs, Keepalives, Unanswered

(* Another packet is sent.                                                 *)
LEMMA KeepOther ==
  ASSUME NEW P, IsSeq(P), NEW asked, NEW answered, NEW count,
         KeepIs(P, asked, answered, count), NEW p, p.id # "keepalive"
  PROVE  KeepIs(Append(P, p), asked, answered, count)
<1> DEFINE Q == Append(P, p)
<1>1. /\ Len(P) \in Nat /\ Len(Q) = Len(P) + 1 /\ Q[Len(P) + 1] = p
      /\ \A k \in 1..Len(P) : Q[k] = P[k]
  BY AppendIs
<1> HIDE DEF Q
<1>2. Keepalives(Q) = Keepalives(P) /\ \A k \in Keepalives(P) : Q[k] = P[k]
  BY <1>1 DEF Keepalives
<1>3. KeepIs(Q, asked, answered, count)
  BY <1>2, ZenonT(60) DEF KeepIs
<1> QED
  BY <1>3 DEF Q

(* A keepalive is sent.                                                    *)
LEMMA KeepAsks ==
  ASSUME NEW P, IsSeq(P), NEW asked, NEW answered, NEW count,
         KeepIs(P, asked, answered, count),
         NEW p, p.id = "keepalive", p.body = count + 1
  PROVE  KeepIs(Append(P, p), Append(asked, count + 1), answered, count + 1)
<1> DEFINE Q == Append(P, p)
           n == count + 1
           more == Append(asked, n)
           c == Len(asked)
           U == Unanswered(asked, answered)
           V == Unanswered(more, answered)
<1>1. /\ Len(P) \in Nat /\ Len(Q) = Len(P) + 1 /\ Q[Len(P) + 1] = p
      /\ \A k \in 1..Len(P) : Q[k] = P[k]
  BY AppendIs
<1>2. /\ count \in Nat /\ asked \in Seq(Nat) /\ answered \in Seq(Nat)
      /\ Len(answered) <= Len(asked)
      /\ \A i \in 1..Len(answered) : answered[i] = asked[i]
      /\ \A i \in 1..Len(asked) : asked[i] \in 0..count
      /\ \A i, j \in 1..Len(asked) : i < j => asked[i] < asked[j]
      /\ \A k \in Keepalives(P) : \E i \in U : P[k].body = asked[i]
      /\ \A i \in U : \E k \in Keepalives(P) : P[k].body = asked[i]
      /\ \A k, l \in Keepalives(P) : k < l => P[k].body < P[l].body
  BY DEF KeepIs
<1>3. /\ more \in Seq(Nat) /\ n \in Nat /\ c \in Nat /\ Len(more) = c + 1
      /\ more[c + 1] = n /\ \A i \in 1..c : more[i] = asked[i]
      /\ Len(answered) \in Nat
  BY <1>2
<1>0. U = (Len(answered) + 1)..c /\ V = (Len(answered) + 1)..Len(more) /\ n = count + 1
  BY DEF Unanswered
<1> HIDE DEF Q, more, n, U, V
<1>4. V = U \union {c + 1} /\ U \subseteq 1..c
  <2>1. Len(answered) \in Nat /\ c \in Nat /\ Len(answered) <= c /\ Len(more) = c + 1
    BY <1>2, <1>3
  <2> DEFINE d == Len(answered)
  <2> HIDE DEF d, c
  <2>2. d \in Nat /\ c \in Nat /\ d <= c /\ U = (d + 1)..c /\ V = (d + 1)..(c + 1)
    BY <2>1, <1>0 DEF d
  <2> QED
    BY <2>2
<1> HIDE DEF c
<1>5. /\ Keepalives(Q) = Keepalives(P) \union {Len(P) + 1}
      /\ \A k \in Keepalives(P) : Q[k] = P[k] /\ k \in 1..Len(P)
  BY <1>1 DEF Keepalives
<1>6. \A i \in 1..c : asked[i] \in Nat /\ asked[i] < n
  <2>1. \A i \in 1..c : asked[i] \in 0..count
    BY <1>2 DEF c
  <2> QED
    BY <1>0, <1>2, <2>1
<1>7. /\ \A i \in 1..Len(more) : more[i] \in 0..n
      /\ \A i, j \in 1..Len(more) : i < j => more[i] < more[j]
  <2>1. ASSUME NEW i \in 1..(c + 1)
        PROVE  more[i] \in 0..n
    BY <1>3, <1>6, <2>1
  <2>2. ASSUME NEW i \in 1..(c + 1), NEW j \in 1..(c + 1), i < j
        PROVE  more[i] < more[j]
    <3>1. i \in 1..c /\ (j \in 1..c \/ j = c + 1)
      BY <1>3, <2>2
    <3>2. j \in 1..c => asked[i] < asked[j]
      BY <1>2, <2>2, <3>1 DEF c
    <3> QED
      BY <1>3, <1>6, <3>1, <3>2
  <2> QED
    BY <1>3, <2>1, <2>2
<1>8. /\ Len(answered) <= Len(more)
      /\ \A i \in 1..Len(answered) : answered[i] = more[i]
  <2>1. Len(answered) <= c /\ \A i \in 1..Len(answered) : answered[i] = asked[i]
    BY <1>2 DEF c
  <2>2. PICK d : d = Len(answered) /\ d \in Nat /\ d <= c
    BY <1>3, <2>1
  <2>3. \A i \in 1..d : i \in 1..c
    BY <1>3, <2>2
  <2>4. d <= Len(more)
    BY <1>3, <2>2
  <2> QED
    BY <1>3, <2>1, <2>2, <2>3, <2>4, Zenon
<1>9. p.body = n
  BY <1>0
<1>10. \A k \in Keepalives(Q) : \E i \in V : Q[k].body = more[i]
  <2>1. ASSUME NEW k \in Keepalives(P)
        PROVE  \E i \in V : Q[k].body = more[i]
    <3>1. PICK i \in U : P[k].body = asked[i]
      BY <1>2
    <3>2. i \in V /\ i \in 1..c /\ more[i] = asked[i] /\ Q[k] = P[k]
      BY <1>3, <1>4, <1>5
    <3> QED
      BY <3>1, <3>2
  <2>2. Q[Len(P) + 1].body = more[c + 1] /\ c + 1 \in V
    BY <1>1, <1>3, <1>4, <1>9
  <2> QED
    BY <1>5, <2>1, <2>2
<1>11. \A i \in V : \E k \in Keepalives(Q) : Q[k].body = more[i]
  <2>1. ASSUME NEW i \in U
        PROVE  \E k \in Keepalives(Q) : Q[k].body = more[i]
    <3>1. PICK k \in Keepalives(P) : P[k].body = asked[i]
      BY <1>2
    <3>2. k \in Keepalives(Q) /\ i \in 1..c /\ more[i] = asked[i] /\ Q[k] = P[k]
      BY <1>3, <1>4, <1>5
    <3> QED
      BY <3>1, <3>2
  <2>2. Q[Len(P) + 1].body = more[c + 1] /\ Len(P) + 1 \in Keepalives(Q)
    BY <1>1, <1>3, <1>5, <1>9
  <2> QED
    BY <1>4, <2>1, <2>2
<1>12. \A k, l \in Keepalives(Q) : k < l => Q[k].body < Q[l].body
  <2>1. \A k \in Keepalives(P) : P[k].body < n
    BY <1>2, <1>4, <1>6
  <2>2. SUFFICES ASSUME NEW k \in Keepalives(Q), NEW l \in Keepalives(Q), k < l
                 PROVE  Q[k].body < Q[l].body
    OBVIOUS
  <2>3. k \in Keepalives(P)
    BY <1>1, <1>5, <2>2
  <2>4. CASE l \in Keepalives(P)
    BY <1>2, <1>5, <2>2, <2>3, <2>4
  <2>5. CASE l = Len(P) + 1
    BY <1>1, <1>5, <1>9, <2>1, <2>3, <2>5
  <2> QED
    BY <1>5, <2>2, <2>4, <2>5
<1>13. KeepIs(Q, more, answered, n)
  BY <1>2, <1>3, <1>7, <1>8, <1>10, <1>11, <1>12 DEF KeepIs, V
<1> QED
  BY <1>13 DEF Q, more, n

(* A packet that is no keepalive leaves.                                   *)
LEMMA KeepSkips ==
  ASSUME NEW P, IsSeq(P), P # <<>>, NEW asked, NEW answered, NEW count,
         KeepIs(P, asked, answered, count), P[1].id # "keepalive"
  PROVE  KeepIs(Tail(P), asked, answered, count)
<1> DEFINE Q == Tail(P)
           U == Unanswered(asked, answered)
<1>1. /\ Len(P) \in Nat \ {0} /\ Len(Q) = Len(P) - 1
      /\ \A k \in 1..(Len(P) - 1) : Q[k] = P[k + 1]
  BY TailIs
<1> HIDE DEF Q, U
<1>2. /\ \A k \in Keepalives(Q) : k \in Nat /\ k + 1 \in Keepalives(P) /\ Q[k] = P[k + 1]
      /\ \A k \in Keepalives(P) : k \in Nat /\ k - 1 \in Keepalives(Q) /\ P[k] = Q[k - 1]
  BY <1>1 DEF Keepalives
<1>3. /\ \A k \in Keepalives(P) : \E i \in U : P[k].body = asked[i]
      /\ \A i \in U : \E k \in Keepalives(P) : P[k].body = asked[i]
      /\ \A k, l \in Keepalives(P) : k < l => P[k].body < P[l].body
  BY DEF KeepIs, U
<1>4. /\ \A k \in Keepalives(Q) : \E i \in U : Q[k].body = asked[i]
      /\ \A i \in U : \E k \in Keepalives(Q) : Q[k].body = asked[i]
  <2>1. ASSUME NEW k \in Keepalives(Q)
        PROVE  \E i \in U : Q[k].body = asked[i]
    <3>1. k + 1 \in Keepalives(P) /\ Q[k] = P[k + 1]
      BY <1>2
    <3>2. PICK i \in U : P[k + 1].body = asked[i]
      BY <1>3, <3>1
    <3> QED
      BY <3>1, <3>2
  <2>2. ASSUME NEW i \in U
        PROVE  \E k \in Keepalives(Q) : Q[k].body = asked[i]
    <3>1. PICK k \in Keepalives(P) : P[k].body = asked[i]
      BY <1>3
    <3>2. k - 1 \in Keepalives(Q) /\ P[k] = Q[k - 1]
      BY <1>2
    <3> QED
      BY <3>1, <3>2
  <2> QED
    BY <2>1, <2>2
<1>5. \A k, l \in Keepalives(Q) : k < l => Q[k].body < Q[l].body
  <2>1. SUFFICES ASSUME NEW k \in Keepalives(Q), NEW l \in Keepalives(Q), k < l
                 PROVE  Q[k].body < Q[l].body
    OBVIOUS
  <2>2. k + 1 \in Keepalives(P) /\ l + 1 \in Keepalives(P) /\ k + 1 < l + 1
    BY <1>2, <2>1
  <2> QED
    BY <1>2, <1>3, <2>2
<1>6. KeepIs(Q, asked, answered, count)
  BY <1>4, <1>5 DEF KeepIs, U
<1> QED
  BY <1>6 DEF Q

(* A keepalive leaves with its answer.                                     *)
LEMMA KeepAnswers ==
  ASSUME NEW P, IsSeq(P), P # <<>>, NEW asked, NEW answered, NEW count,
         KeepIs(P, asked, answered, count), P[1].id = "keepalive"
  PROVE  KeepIs(Tail(P), asked, Append(answered, P[1].body), count)
<1> DEFINE Q == Tail(P)
           d == Len(answered)
           body == P[1].body
           more == Append(answered, body)
           U == Unanswered(asked, answered)
           V == Unanswered(asked, more)
<1>1. /\ Len(P) \in Nat \ {0} /\ Len(Q) = Len(P) - 1
      /\ \A k \in 1..(Len(P) - 1) : Q[k] = P[k + 1]
  BY TailIs
<1>2. /\ count \in Nat /\ asked \in Seq(Nat) /\ answered \in Seq(Nat)
      /\ d \in Nat /\ Len(asked) \in Nat /\ d <= Len(asked)
      /\ \A i \in 1..d : answered[i] = asked[i]
      /\ \A i \in 1..Len(asked) : asked[i] \in 0..count
      /\ \A i, j \in 1..Len(asked) : i < j => asked[i] < asked[j]
      /\ \A k \in Keepalives(P) : \E i \in U : P[k].body = asked[i]
      /\ \A i \in U : \E k \in Keepalives(P) : P[k].body = asked[i]
      /\ \A k, l \in Keepalives(P) : k < l => P[k].body < P[l].body
      /\ U = (d + 1)..Len(asked)
  BY DEF KeepIs, Unanswered
<1> HIDE DEF Q, U, V, d, body, more
<1>3. /\ 1 \in Keepalives(P)
      /\ \A k \in Keepalives(Q) : k \in Nat \ {0} /\ k + 1 \in Keepalives(P) /\ Q[k] = P[k + 1]
      /\ \A k \in Keepalives(P) \ {1} :
           k \in Nat /\ 1 < k /\ k - 1 \in Keepalives(Q) /\ P[k] = Q[k - 1]
  BY <1>1 DEF Keepalives
<1>4. \A i \in U : i \in 1..Len(asked) /\ d + 1 <= i /\ asked[i] \in Nat
  BY <1>2
<1>5. \A l \in Keepalives(P) \ {1} : body < P[l].body
  BY <1>2, <1>3 DEF body
<1>6. PICK i \in U : body = asked[i]
  BY <1>2, <1>3 DEF body
<1>7. d + 1 \in U
  BY <1>2, <1>4
<1>8. body = asked[d + 1]
  <2>1. PICK k \in Keepalives(P) : P[k].body = asked[d + 1]
    BY <1>2, <1>7
  <2>2. k # 1 => asked[i] < asked[d + 1]
    BY <1>5, <1>6, <2>1
  <2>3. k = 1 => body = asked[d + 1]
    BY <2>1 DEF body
  <2>4. d + 1 < i => asked[d + 1] < asked[i]
    BY <1>2, <1>4, <1>7
  <2>5. asked[i] \in Nat /\ asked[d + 1] \in Nat /\ i \in Nat /\ d + 1 <= i
    BY <1>2, <1>4, <1>7
  <2>6. k \in {1} \/ k \in Keepalives(P) \ {1}
    OBVIOUS
  <2>7. CASE k # 1
    <3>1. asked[i] < asked[d + 1]
      BY <2>2, <2>7
    <3>2. ~(d + 1 < i)
      BY <2>4, <2>5, <3>1
    <3>3. i = d + 1
      BY <1>2, <2>5, <3>2
    <3> QED
      BY <2>5, <3>1, <3>3
  <2> QED
    BY <2>3, <2>7
<1>9. /\ more \in Seq(Nat) /\ Len(more) = d + 1 /\ more[d + 1] = asked[d + 1]
      /\ \A a \in 1..d : more[a] = answered[a]
  <2>1. body \in Nat
    BY <1>4, <1>6
  <2> QED
    BY <1>2, <1>8, <2>1 DEF more, d
<1>10. V = U \ {d + 1}
  <2>1. V = (Len(more) + 1)..Len(asked)
    BY DEF Unanswered, V
  <2> DEFINE c == Len(asked)
  <2> HIDE DEF c
  <2>2. c \in Nat /\ d \in Nat /\ U = (d + 1)..c /\ V = (d + 1 + 1)..c
    BY <1>2, <1>9, <2>1 DEF c
  <2> QED
    BY <2>2
<1>11. Len(more) <= Len(asked) /\ \A a \in 1..Len(more) : more[a] = asked[a]
  <2>1. d + 1 \in 1..Len(asked)
    BY <1>4, <1>7
  <2>2. ASSUME NEW a \in 1..(d + 1)
        PROVE  more[a] = asked[a]
    <3>1. a \in 1..d \/ a = d + 1
      BY <1>2
    <3> QED
      BY <1>2, <1>9, <3>1
  <2> QED
    BY <1>2, <1>9, <2>1, <2>2
<1>12. \A l \in Keepalives(Q) : \E a \in V : Q[l].body = asked[a]
  <2>1. SUFFICES ASSUME NEW l \in Keepalives(Q)
                 PROVE  \E a \in V : Q[l].body = asked[a]
    OBVIOUS
  <2>2. l + 1 \in Keepalives(P) /\ Q[l] = P[l + 1] /\ l + 1 # 1
    BY <1>3
  <2>3. PICK a \in U : P[l + 1].body = asked[a]
    BY <1>2, <2>2
  <2>4. asked[d + 1] < asked[a]
    BY <1>5, <1>8, <2>2, <2>3
  <2>5. a # d + 1
    BY <1>4, <1>7, <2>4
  <2> QED
    BY <1>10, <2>2, <2>3, <2>5
<1>13. \A a \in V : \E l \in Keepalives(Q) : Q[l].body = asked[a]
  <2>1. SUFFICES ASSUME NEW a \in V
                 PROVE  \E l \in Keepalives(Q) : Q[l].body = asked[a]
    OBVIOUS
  <2>2. a \in U /\ a # d + 1
    BY <1>10
  <2>3. PICK l \in Keepalives(P) : P[l].body = asked[a]
    BY <1>2, <2>2
  <2>4. asked[d + 1] < asked[a]
    BY <1>2, <1>4, <1>7, <2>2
  <2>5. l # 1
    BY <1>4, <1>7, <1>8, <2>2, <2>3, <2>4 DEF body
  <2> QED
    BY <1>3, <2>3, <2>5
<1>14. \A l, m \in Keepalives(Q) : l < m => Q[l].body < Q[m].body
  <2>1. SUFFICES ASSUME NEW k \in Keepalives(Q), NEW l \in Keepalives(Q), k < l
                 PROVE  Q[k].body < Q[l].body
    OBVIOUS
  <2>2. k + 1 \in Keepalives(P) /\ l + 1 \in Keepalives(P) /\ k + 1 < l + 1
    BY <1>3, <2>1
  <2> QED
    BY <1>2, <1>3, <2>2
<1>15. KeepIs(Q, asked, more, count)
  BY <1>2, <1>9, <1>11, <1>12, <1>13, <1>14 DEF KeepIs, V
<1> QED
  BY <1>15 DEF Q, more, body

(* What a step does to the packets on their way.                           *)
Quiet == client'.wire = client.wire /\ air' = air
Gone == client'.wire = <<>> /\ air' = <<>>

LEMMA HalvesQuiet ==
  ASSUME NEW P, HalvesAre(P), Quiet
  PROVE  HalvesAre(P)'
BY DEF HalvesAre, Halves, Quiet

KeepInv == Records /\ ClosedOK /\ \E P : HalvesAre(P) /\ KeepOK(P)

LEMMA KeepInit == Init => KeepInv
<1> SUFFICES ASSUME Init
             PROVE  KeepInv
  OBVIOUS
<1>1. client.wire = <<>> /\ air = <<>>
  BY DEF Init, ClosedClient
<1>2. HalvesAre(<<>>)
  <2>1. Len(<<>>) = 0 /\ IsSeq(<<>>) /\ <<>> \o <<>> = <<>>
    BY EmptyIs, ConcatIs
  <2>2. IsSeq(Halved(<<>>)) /\ Len(Halved(<<>>)) = 0
    BY <2>1, HalvedIs
  <2>3. Halved(<<>>) = <<>>
    BY <2>2, EmptyIs
  <2> QED
    BY <1>1, <2>1, <2>3 DEF HalvesAre, Halves
<1>3. KeepOK(<<>>)
  <2>1. story.asked = <<>> /\ story.answered = <<>> /\ used.keepalives = 0
    BY DEF Init, NoStory
  <2> QED
    BY <2>1, KeepNone DEF KeepOK
<1> QED
  BY <1>2, <1>3, RecordsInit, ClosedInit DEF KeepInv

LEMMA KeepClosed ==
  ASSUME Gone, story'.asked = <<>>, story'.answered = <<>>, used'.keepalives \in Nat
  PROVE  \E P : (HalvesAre(P) /\ KeepOK(P))'
<1>1. HalvesAre(<<>>)'
  BY HalvesGone DEF Gone
<1>2. KeepOK(<<>>)'
  BY KeepNone DEF KeepOK
<1> QED
  BY <1>1, <1>2

(* The keepalives of the story are those of before.                        *)
SameKeep ==
  /\ story'.asked = story.asked /\ story'.answered = story.answered
  /\ used'.keepalives = used.keepalives

LEMMA KeepNext == KeepInv /\ [Next]_vars => KeepInv'
<1> SUFFICES ASSUME KeepInv, [Next]_vars
             PROVE  KeepInv'
  OBVIOUS
<1>0. Records /\ ClosedOK /\ Records' /\ ClosedOK'
  BY RecordsNext, ClosedNext DEF KeepInv
<1> SUFFICES \E P : (HalvesAre(P) /\ KeepOK(P))'
  BY <1>0 DEF KeepInv
<1>1. PICK P : HalvesAre(P) /\ KeepOK(P)
  BY DEF KeepInv
<1>2. used.keepalives \in Nat /\ IsSeq(P)
  BY <1>1 DEF KeepOK, KeepIs, HalvesAre
<1>3. CASE Close
  BY <1>2, <1>3, KeepClosed DEF Close, Gone, ClosedClient, NoStory
<1>4. CASE Quiet /\ SameKeep
  <2>1. HalvesAre(P)'
    BY <1>1, <1>4, HalvesQuiet
  <2> QED
    BY <1>1, <1>4, <2>1 DEF KeepOK, SameKeep
<1>5. ASSUME NEW p, p.id # "keepalive", client'.wire = client.wire, air' = air \o InHalves(p),
             SameKeep
      PROVE  \E R : (HalvesAre(R) /\ KeepOK(R))'
  <2>1. HalvesAre(Append(P, p))'
    BY <1>1, <1>5, HalvesSent
  <2>2. KeepOK(Append(P, p))'
    BY <1>1, <1>2, <1>5, KeepOther DEF KeepOK, SameKeep
  <2> QED
    BY <2>1, <2>2
<1>6. ASSUME HasPacket, First.id # "keepalive", client'.wire = Rest, air' = air, SameKeep
      PROVE  \E R : (HalvesAre(R) /\ KeepOK(R))'
  <2>1. P # <<>> /\ First = P[1] /\ HalvesAre(Tail(P))'
    BY <1>1, <1>6, HalvesTaken DEF HasPacket
  <2>2. KeepOK(Tail(P))'
    BY <1>1, <1>2, <1>6, <2>1, KeepSkips DEF KeepOK, SameKeep
  <2> QED
    BY <2>1, <2>2
<1>7. CASE Answer
  <2>1. PICK ok, extension, body :
               air' = air \o InHalves(Packet(IF camera.request = "start" THEN "video" ELSE "login",
                                             ok, extension, body))
    BY <1>7 DEF Answer
  <2>2. client' = client /\ SameKeep
    BY <1>7 DEF Answer, SameKeep
  <2> QED
    BY <1>5, <2>1, <2>2 DEF Packet
<1>8. CASE \E count \in 1..3 : SendMedia(count)
  <2>1. PICK extension, body : air' = air \o InHalves(Packet("video", TRUE, extension, body))
    BY <1>8 DEF SendMedia
  <2>2. client' = client /\ SameKeep
    BY <1>8 DEF SendMedia, SameKeep
  <2> QED
    BY <1>5, <2>1, <2>2 DEF Packet
<1>9. CASE SendKeepalive
  <2>1. PICK n : n = used.keepalives + 1
    OBVIOUS
  <2>2. PICK p : p = Packet("keepalive", TRUE, "none", n)
    OBVIOUS
  <2>3. /\ client'.wire = client.wire /\ air' = air \o InHalves(p) /\ used'.keepalives = n
        /\ story'.asked = Append(story.asked, n) /\ story'.answered = story.answered
    BY <1>0, <1>9, <2>1, <2>2 DEF SendKeepalive, Records
  <2>4. p.id = "keepalive" /\ p.body = n
    BY <2>2 DEF Packet
  <2>5. HalvesAre(Append(P, p))'
    BY <1>1, <2>3, HalvesSent
  <2>6. KeepOK(Append(P, p))'
    BY <1>1, <1>2, <2>1, <2>3, <2>4, KeepAsks DEF KeepOK
  <2> QED
    BY <2>5, <2>6
<1>10. CASE SendOther
  <2>1. PICK id, extension :
          id # "keepalive" /\ air' = air \o InHalves(Packet(id, TRUE, extension, <<>>))
    BY <1>10 DEF SendOther
  <2>2. client' = client /\ SameKeep
    BY <1>0, <1>10 DEF SendOther, SameKeep, Records
  <2> QED
    BY <1>5, <2>1, <2>2 DEF Packet
<1>11. CASE HangUp
  BY <1>4, <1>11 DEF HangUp, Quiet, SameKeep
<1>12. CASE \E goal \in {"stream", "probe"} : Open(goal)
  <2>1. client.pc = "closed" /\ Gone
    BY <1>0, <1>12 DEF Open, ClosedOK, Gone, ClosedClient
  <2>2. story'.asked = <<>> /\ story'.answered = <<>> /\ used'.keepalives = used.keepalives
    BY <1>0, <1>12 DEF Open, NoStory, Records
  <2> QED
    BY <1>2, <2>1, <2>2, KeepClosed
<1>13. CASE \E count \in 1..Len(air) : Receive(count)
  <2>1. PICK count \in 1..Len(air) : Receive(count)
    BY <1>13
  <2>2. HalvesAre(P)'
    BY <1>0, <1>1, <2>1, HalvesReceived DEF Receive, Records
  <2> QED
    BY <1>1, <2>1, <2>2 DEF Receive, KeepOK
<1>14. CASE TimeOut \/ Lose
  <2>1. Close \/ (Quiet /\ SameKeep)
    BY <1>0, <1>14 DEF TimeOut, Lose, Quiet, SameKeep, Records
  <2> QED
    BY <1>3, <1>4, <2>1
<1>15. CASE Keepalive
  <2>1. CASE /\ HasPacket /\ First.id = "keepalive"
             /\ client' = [client EXCEPT !.wire = Rest]
             /\ story' = [story EXCEPT !.answered = Append(@, First.body)]
             /\ UNCHANGED <<camera, air, used>>
    <3>1. client'.wire = Rest /\ air' = air
      BY <1>0, <2>1 DEF Records
    <3>2. P # <<>> /\ First = P[1] /\ HalvesAre(Tail(P))'
      BY <1>1, <2>1, <3>1, HalvesTaken DEF HasPacket
    <3>3. /\ story'.asked = story.asked /\ story'.answered = Append(story.answered, P[1].body)
          /\ used'.keepalives = used.keepalives
      BY <1>0, <2>1, <3>2 DEF Records
    <3>4. KeepOK(Tail(P))'
      BY <1>1, <1>2, <2>1, <3>2, <3>3, KeepAnswers DEF KeepOK
    <3> QED
      BY <3>2, <3>4
  <2> QED
    BY <1>3, <1>15, <2>1 DEF Keepalive
<1>16. CASE Skip
  <2>1. HasPacket /\ First.id # "keepalive" /\ client'.wire = Rest /\ air' = air /\ SameKeep
    BY <1>0, <1>16 DEF Skip, SameKeep, Records
  <2> QED
    BY <1>6, <2>1
<1>17. CASE Upgraded \/ LoggedIn \/ Started \/ MediaPacket
  <2>1. \/ Close
        \/ HasPacket /\ First.id # "keepalive" /\ client'.wire = Rest /\ air' = air /\ SameKeep
    <3>1. CASE Upgraded
      BY <1>0, <3>1 DEF Upgraded, SameKeep, Records
    <3>2. CASE LoggedIn
      BY <1>0, <3>2 DEF LoggedIn, SameKeep, Records
    <3>3. CASE Started
      BY <1>0, <3>3 DEF Started, Appended, SameKeep, Records
    <3>4. CASE MediaPacket
      BY <1>0, <3>4 DEF MediaPacket, Appended, SameKeep, Records
    <3> QED
      BY <1>17, <3>1, <3>2, <3>3, <3>4
  <2> QED
    BY <1>3, <1>6, <2>1
<1>18. CASE StepOver \/ Collect \/ Read \/ ReadRecord \/ Disconnect
  <2>1. Close \/ (Quiet /\ SameKeep)
    <3>1. CASE StepOver
      BY <1>0, <3>1 DEF StepOver, Quiet, SameKeep, Records
    <3>2. CASE Collect
      BY <1>0, <3>2 DEF Collect, Quiet, SameKeep, Records
    <3>3. CASE Read
      BY <1>0, <3>3 DEF Read, Quiet, SameKeep, Records
    <3>4. CASE ReadRecord
      BY <1>0, <3>4 DEF ReadRecord, Quiet, SameKeep, Records
    <3>5. CASE Disconnect
      BY <3>5 DEF Disconnect
    <3> QED
      BY <1>18, <3>1, <3>2, <3>3, <3>4, <3>5
  <2> QED
    BY <1>3, <1>4, <2>1
<1>19. CASE \E count \in 1..2 : Feed(count)
  BY <1>0, <1>4, <1>19 DEF Feed, Quiet, SameKeep, Records
<1>20. CASE UNCHANGED vars
  BY <1>4, <1>20 DEF vars, Quiet, SameKeep
<1> QED
  BY <1>7, <1>8, <1>9, <1>10, <1>11, <1>12, <1>13, <1>14, <1>15, <1>16, <1>17, <1>18, <1>19, <1>20
  DEF Next

(* Which halves of the packets bring a keepalive.                          *)
LEMMA KeepaliveHalves ==
  ASSUME NEW P, HalvesAre(P)
  PROVE  LET halves == Halves
             coming == {h \in 1..Len(halves) : halves[h].half = 1 /\ halves[h].packet.id = "keepalive"}
         IN /\ coming = {2 * k - 1 : k \in Keepalives(P)}
            /\ \A k \in Keepalives(P) : k \in Nat /\ halves[2 * k - 1].packet = P[k]
<1> DEFINE halves == Halves
           coming == {h \in 1..Len(halves) : halves[h].half = 1 /\ halves[h].packet.id = "keepalive"}
<1>1. /\ IsSeq(P) /\ halves = Halved(P) /\ Len(halves) = 2 * Len(P) /\ Len(P) \in Nat
      /\ \A k \in 1..Len(P) :
           /\ halves[2 * k - 1] = [packet |-> P[k], half |-> 1]
           /\ halves[2 * k] = [packet |-> P[k], half |-> 2]
      /\ \A i \in 1..(2 * Len(P)) : \E k \in 1..Len(P) : i = 2 * k - 1 \/ i = 2 * k
  BY HalvedIs DEF HalvesAre
<1> HIDE DEF halves
<1>2. ASSUME NEW h \in coming
      PROVE  h \in {2 * k - 1 : k \in Keepalives(P)}
  <2>1. PICK k \in 1..Len(P) : h = 2 * k - 1 \/ h = 2 * k
    BY <1>1, <1>2
  <2>4. /\ halves[2 * k - 1] = [packet |-> P[k], half |-> 1]
        /\ halves[2 * k] = [packet |-> P[k], half |-> 2]
    BY <1>1, Zenon
  <2>5. halves[h].half = 1 /\ halves[h].packet.id = "keepalive"
    BY <1>2
  <2> HIDE DEF coming
  <2>2. h # 2 * k
    BY <2>4, <2>5
  <2>3. P[k].id = "keepalive"
    BY <2>1, <2>2, <2>4, <2>5
  <2> QED
    BY <2>1, <2>2, <2>3 DEF Keepalives
<1>3. ASSUME NEW k \in Keepalives(P)
      PROVE  2 * k - 1 \in coming /\ k \in Nat /\ halves[2 * k - 1].packet = P[k]
  <2>1. k \in 1..Len(P) /\ P[k].id = "keepalive"
    BY DEF Keepalives
  <2>2. halves[2 * k - 1] = [packet |-> P[k], half |-> 1]
    BY <1>1, <2>1, Zenon
  <2>3. 2 * k - 1 \in 1..Len(halves)
    BY <1>1, <2>1
  <2> QED
    BY <2>1, <2>2, <2>3
<1>4. coming = {2 * k - 1 : k \in Keepalives(P)}
  <2> HIDE DEF coming
  <2> QED
    BY <1>2, <1>3
<1> QED
  BY <1>3, <1>4 DEF halves

LEMMA KeepFollows == KeepInv => KeepalivesAnswered
<1> SUFFICES ASSUME KeepInv
             PROVE  KeepalivesAnswered
  OBVIOUS
<1> DEFINE halves == Halves
           coming == {h \in 1..Len(halves) : halves[h].half = 1 /\ halves[h].packet.id = "keepalive"}
           done == Len(story.answered)
           U == Unanswered(story.asked, story.answered)
<1>1. PICK P : HalvesAre(P) /\ KeepOK(P)
  BY DEF KeepInv
<1>2. /\ coming = {2 * k - 1 : k \in Keepalives(P)}
      /\ \A k \in Keepalives(P) : k \in Nat /\ halves[2 * k - 1].packet = P[k]
  BY <1>1, KeepaliveHalves
<1>3. /\ story.asked \in Seq(Nat) /\ story.answered \in Seq(Nat)
      /\ Len(story.answered) <= Len(story.asked)
      /\ \A i \in 1..Len(story.answered) : story.answered[i] = story.asked[i]
      /\ \A k \in Keepalives(P) : \E i \in U : P[k].body = story.asked[i]
      /\ \A i \in U : \E k \in Keepalives(P) : P[k].body = story.asked[i]
      /\ \A k, l \in Keepalives(P) : k < l => P[k].body < P[l].body
      /\ U = (done + 1)..Len(story.asked)
  BY <1>1 DEF KeepOK, KeepIs, Unanswered
<1> HIDE DEF halves, coming, done, U
<1>4. story.answered = SubSeq(story.asked, 1, done)
  <2> DEFINE s == SubSeq(story.asked, 1, done)
  <2>1. /\ IsSeq(story.asked) /\ IsSeq(story.answered) /\ done \in Nat
        /\ Len(story.asked) \in Nat /\ done = Len(story.answered) /\ done \in 0..Len(story.asked)
    BY <1>3 DEF IsSeq, done
  <2>2. /\ IsSeq(s) /\ Len(s) = IF 1 <= done THEN done - 1 + 1 ELSE 0
        /\ \A i \in 1..(done - 1 + 1) : s[i] = story.asked[1 + i - 1]
    BY <2>1, PartIs
  <2> HIDE DEF s
  <2>3. Len(s) = done /\ \A i \in 1..done : s[i] = story.asked[i]
    BY <2>1, <2>2
  <2>4. story.answered = s
    BY <1>3, <2>1, <2>2, <2>3, SameSequence, SMTT(60)
  <2> QED
    BY <2>4 DEF s
<1>5. {halves[h].packet.body : h \in coming} = {story.asked[i] : i \in (done + 1)..Len(story.asked)}
  <2>1. ASSUME NEW h \in coming
        PROVE  \E i \in U : halves[h].packet.body = story.asked[i]
    <3>1. PICK k \in Keepalives(P) : h = 2 * k - 1
      BY <1>2
    <3>2. PICK i \in U : P[k].body = story.asked[i]
      BY <1>3
    <3>3. halves[h].packet = P[k]
      BY <1>2, <3>1
    <3> QED
      BY <3>2, <3>3
  <2>2. ASSUME NEW i \in U
        PROVE  \E h \in coming : halves[h].packet.body = story.asked[i]
    <3>1. PICK k \in Keepalives(P) : P[k].body = story.asked[i]
      BY <1>3
    <3> QED
      BY <1>2, <3>1
  <2>3. {halves[h].packet.body : h \in coming} = {story.asked[i] : i \in U}
    BY <2>1, <2>2
  <2> QED
    BY <1>3, <2>3
<1>6. \A g, h \in coming : g < h => halves[g].packet.body < halves[h].packet.body
  <2>1. SUFFICES ASSUME NEW g \in coming, NEW h \in coming, g < h
                 PROVE  halves[g].packet.body < halves[h].packet.body
    OBVIOUS
  <2>2. PICK k \in Keepalives(P) : g = 2 * k - 1
    BY <1>2
  <2>3. PICK l \in Keepalives(P) : h = 2 * l - 1
    BY <1>2
  <2>4. k < l
    BY <1>2, <2>1, <2>2, <2>3
  <2> QED
    BY <1>2, <1>3, <2>2, <2>3, <2>4
<1> QED
  BY <1>4, <1>5, <1>6 DEF KeepalivesAnswered, halves, coming, done, Halves

(* While a connection lasts, each of the camera's keepalives is answered   *)
(* once and in order (wait_for, receive_media).                            *)
THEOREM EveryKeepaliveAnswered == Spec => []KeepalivesAnswered
<1>1. KeepInv /\ [Next]_vars => KeepInv'
  BY KeepNext
<1>2. Spec => []KeepInv
  BY <1>1, KeepInit, PTL DEF Spec
<1> QED
  BY <1>2, KeepFollows, PTL

-----------------------------------------------------------------------------
(* Parts of a stream.                                                      *)

(* The pieces of S behind the first a, up to the first b.                  *)
Stretch(S, a, b) == SubSeq(S, a + 1, b)

LEMMA StretchIs ==
  ASSUME NEW S, IsSeq(S), NEW a \in Nat, NEW b \in a..Len(S)
  PROVE  /\ IsSeq(Stretch(S, a, b)) /\ Len(Stretch(S, a, b)) = b - a
         /\ \A i \in 1..(b - a) : Stretch(S, a, b)[i] = S[a + i]
         /\ Stretch(S, a, b) = <<>> <=> a = b
<1> DEFINE t == Stretch(S, a, b)
<1>1. Len(S) \in Nat /\ b \in 0..Len(S) /\ a + 1 \in Nat \ {0}
  BY EmptyIs
<1>2. /\ IsSeq(t) /\ Len(t) = IF a + 1 <= b THEN b - (a + 1) + 1 ELSE 0
      /\ \A i \in 1..(b - (a + 1) + 1) : t[i] = S[a + 1 + i - 1]
  BY <1>1, PartIs DEF Stretch
<1> HIDE DEF t
<1>3. Len(t) = b - a
  BY <1>1, <1>2
<1>4. ASSUME NEW i \in 1..(b - a)
      PROVE  t[i] = S[a + i]
  <2>1. i \in 1..(b - (a + 1) + 1) /\ a + 1 + i - 1 = a + i
    BY <1>1
  <2> QED
    BY <1>2, <2>1
<1>5. t = <<>> <=> a = b
  BY <1>1, <1>2, <1>3, EmptyIs
<1> QED
  BY <1>2, <1>3, <1>4, <1>5 DEF t

LEMMA StretchJoins ==
  ASSUME NEW S, IsSeq(S), NEW a \in Nat, NEW b \in a..Len(S), NEW c \in b..Len(S)
  PROVE  Stretch(S, a, b) \o Stretch(S, b, c) = Stretch(S, a, c)
<1> DEFINE t == Stretch(S, a, b)
           u == Stretch(S, b, c)
           v == Stretch(S, a, c)
<1>0. Len(S) \in Nat /\ b \in Nat /\ c \in Nat /\ c \in a..Len(S) /\ a <= b /\ b <= c
  BY EmptyIs
<1>1. IsSeq(t) /\ Len(t) = b - a /\ \A i \in 1..(b - a) : t[i] = S[a + i]
  BY <1>0, StretchIs
<1>2. IsSeq(u) /\ Len(u) = c - b /\ \A i \in 1..(c - b) : u[i] = S[b + i]
  BY <1>0, StretchIs
<1>3. IsSeq(v) /\ Len(v) = c - a /\ \A i \in 1..(c - a) : v[i] = S[a + i]
  BY <1>0, StretchIs
<1> HIDE DEF t, u, v
<1>4. /\ IsSeq(t \o u) /\ Len(t \o u) = Len(t) + Len(u)
      /\ \A i \in 1..(Len(t) + Len(u)) :
           (t \o u)[i] = IF i <= Len(t) THEN t[i] ELSE u[i - Len(t)]
  BY <1>1, <1>2, ConcatIs
<1>5. Len(t \o u) = Len(v)
  BY <1>0, <1>1, <1>2, <1>3, <1>4
<1>6. ASSUME NEW i \in 1..Len(t \o u)
      PROVE  (t \o u)[i] = v[i]
  <2>1. i \in 1..(c - a) /\ i \in 1..(Len(t) + Len(u))
    BY <1>0, <1>1, <1>2, <1>4
  <2>2. CASE i <= b - a
    <3>1. i \in 1..(b - a)
      BY <1>0, <2>1, <2>2
    <3> QED
      BY <1>1, <1>3, <1>4, <2>1, <2>2, <3>1
  <2>3. CASE i > b - a
    <3>1. i - (b - a) \in 1..(c - b) /\ b + (i - (b - a)) = a + i
      BY <1>0, <2>1, <2>3
    <3>2. u[i - (b - a)] = S[a + i]
      BY <1>2, <3>1
    <3>3. ~(i <= Len(t))
      BY <1>0, <1>1, <2>1, <2>3
    <3> QED
      BY <1>1, <1>3, <1>4, <2>1, <3>2, <3>3
  <2> QED
    BY <1>0, <2>1, <2>2, <2>3
<1>7. t \o u = v
  BY <1>3, <1>4, <1>5, <1>6, SameSequence
<1> QED
  BY <1>7 DEF t, u, v

LEMMA StretchSplits ==
  ASSUME NEW S, IsSeq(S), NEW a \in Nat, NEW b \in a..Len(S), NEW c \in 0..(b - a)
  PROVE  /\ SubSeq(Stretch(S, a, b), 1, c) = Stretch(S, a, a + c)
         /\ SubSeq(Stretch(S, a, b), c + 1, Len(Stretch(S, a, b))) = Stretch(S, a + c, b)
<1> DEFINE t == Stretch(S, a, b)
           u == SubSeq(t, 1, c)
           v == SubSeq(t, c + 1, Len(t))
           x == Stretch(S, a, a + c)
           y == Stretch(S, a + c, b)
<1>0. /\ Len(S) \in Nat /\ b \in Nat /\ a <= b /\ c \in Nat /\ a + c \in Nat
      /\ a + c \in a..Len(S) /\ b \in (a + c)..Len(S)
  BY EmptyIs
<1>1. IsSeq(t) /\ Len(t) = b - a /\ \A i \in 1..(b - a) : t[i] = S[a + i]
  BY <1>0, StretchIs
<1>2. IsSeq(x) /\ Len(x) = (a + c) - a /\ \A i \in 1..((a + c) - a) : x[i] = S[a + i]
  BY <1>0, StretchIs
<1>3. IsSeq(y) /\ Len(y) = b - (a + c) /\ \A i \in 1..(b - (a + c)) : y[i] = S[a + c + i]
  BY <1>0, StretchIs
<1> HIDE DEF t, x, y
<1>4. c \in 0..Len(t) /\ Len(t) \in 0..Len(t) /\ 1 \in Nat \ {0} /\ c + 1 \in Nat \ {0}
  BY <1>0, <1>1
<1>5. /\ IsSeq(u) /\ Len(u) = IF 1 <= c THEN c - 1 + 1 ELSE 0
      /\ \A i \in 1..(c - 1 + 1) : u[i] = t[1 + i - 1]
  BY <1>1, <1>4, PartIs
<1>6. /\ IsSeq(v) /\ Len(v) = IF c + 1 <= Len(t) THEN Len(t) - (c + 1) + 1 ELSE 0
      /\ \A i \in 1..(Len(t) - (c + 1) + 1) : v[i] = t[c + 1 + i - 1]
  BY <1>1, <1>4, PartIs
<1> HIDE DEF u, v
<1>7. u = x
  <2>1. Len(u) = c /\ Len(x) = c
    BY <1>0, <1>2, <1>5
  <2>2. ASSUME NEW i \in 1..c
        PROVE  u[i] = x[i]
    <3>1. i \in 1..(c - 1 + 1) /\ 1 + i - 1 = i /\ i \in 1..(b - a) /\ i \in 1..((a + c) - a)
      BY <1>0
    <3> QED
      BY <1>1, <1>2, <1>5, <3>1
  <2> QED
    BY <1>2, <1>5, <2>1, <2>2, SameSequence
<1>8. v = y
  <2>1. Len(v) = b - (a + c) /\ Len(y) = b - (a + c)
    BY <1>0, <1>1, <1>3, <1>6
  <2>2. ASSUME NEW i \in 1..(b - (a + c))
        PROVE  v[i] = y[i]
    <3>1. /\ i \in 1..(Len(t) - (c + 1) + 1) /\ c + 1 + i - 1 = c + i
          /\ c + i \in 1..(b - a) /\ a + (c + i) = a + c + i
      BY <1>0, <1>1
    <3>2. t[c + i] = S[a + c + i]
      BY <1>1, <3>1
    <3> QED
      BY <1>3, <1>6, <3>1, <3>2
  <2> QED
    BY <1>3, <1>6, <2>1, <2>2, SameSequence
<1> QED
  BY <1>7, <1>8 DEF u, v, x, y, t

(* The pieces of a stream know their place, and records are whole.         *)
StreamOK(S) ==
  /\ IsSeq(S)
  /\ \A i \in 1..Len(S) :
       /\ S[i].n = i /\ S[i].of \in RecordType /\ S[i].part \in 1..2
       /\ S[i].part < Size(S[i].of.kind) =>
            i < Len(S) /\ S[i + 1].of = S[i].of /\ S[i + 1].part = 2
       /\ S[i].part = 2 =>
            Size(S[i].of.kind) = 2 /\ i > 1 /\ S[i - 1].of = S[i].of /\ S[i - 1].part = 1

LEMMA CutIs ==
  ASSUME NEW stream, WellCut(stream), NEW session
  PROVE  StreamOK(Cut(stream, session))
<1> DEFINE S == Cut(stream, session)
           n == Len(stream)
<1>1. /\ stream \in Seq(PieceType) /\ n \in Nat
      /\ \A i \in 1..n : stream[i].of \in RecordType /\ stream[i].part \in 1..2
  <2>1. stream \in Seq(PieceType)
    BY DEF WellCut
  <2>2. \A i \in 1..n : stream[i] \in PieceType
    BY <2>1
  <2> QED
    BY <2>1, <2>2 DEF PieceType
<1>2. IsSeq(S) /\ Len(S) = n
  BY <1>1, RowIs, S = [i \in 1..n |-> S[i]] DEF Cut
<1>3. \A i \in 1..n : S[i].n = i /\ S[i].of = stream[i].of /\ S[i].part = stream[i].part
  BY DEF Cut
<1> HIDE DEF S, n
<1>4. ASSUME NEW i \in 1..n
      PROVE  /\ S[i].n = i /\ S[i].of \in RecordType /\ S[i].part \in 1..2
             /\ S[i].part < Size(S[i].of.kind) =>
                  i < n /\ S[i + 1].of = S[i].of /\ S[i + 1].part = 2
             /\ S[i].part = 2 =>
                  Size(S[i].of.kind) = 2 /\ i > 1 /\ S[i - 1].of = S[i].of /\ S[i - 1].part = 1
  <2>1. S[i].n = i /\ S[i].of = stream[i].of /\ S[i].part = stream[i].part
    BY <1>3
  <2>2. /\ stream[i].part < Size(stream[i].of.kind) =>
             i < n /\ stream[i + 1] = [of |-> stream[i].of, part |-> 2]
        /\ stream[i].part = 2 =>
             /\ Size(stream[i].of.kind) = 2 /\ i > 1
             /\ stream[i - 1] = [of |-> stream[i].of, part |-> 1]
    BY DEF WellCut, n
  <2>3. i < n => S[i + 1].of = stream[i + 1].of /\ S[i + 1].part = stream[i + 1].part
    <3>1. i < n => i + 1 \in 1..n
      BY <1>1
    <3> QED
      BY <1>3, <3>1
  <2>4. i > 1 => S[i - 1].of = stream[i - 1].of /\ S[i - 1].part = stream[i - 1].part
    <3>1. i > 1 => i - 1 \in 1..n
      BY <1>1
    <3> QED
      BY <1>3, <3>1
  <2> QED
    BY <1>1, <2>1, <2>2, <2>3, <2>4
<1>5. StreamOK(S)
  BY <1>2, <1>4 DEF StreamOK
<1> QED
  BY <1>5 DEF S

LEMMA NoStream == StreamOK(<<>>) /\ Len(<<>>) = 0
<1>1. IsSeq(<<>>) /\ Len(<<>>) = 0
  BY EmptyIs
<1> QED
  BY <1>1 DEF StreamOK

(* The end of the stream, or a record's first piece, is behind b.          *)
AtRecord(S, b) == b = Len(S) \/ S[b + 1].part = 1

(* The record behind b is whole, and behind it is a record or the end.     *)
LEMMA RecordBehind ==
  ASSUME NEW S, StreamOK(S), NEW b \in 0..(Len(S) - 1), AtRecord(S, b)
  PROVE  LET size == Size(S[b + 1].of.kind)
         IN /\ size \in 1..2 /\ b + size <= Len(S) /\ AtRecord(S, b + size)
            /\ S[b + 1].part = 1
            /\ size = 2 => S[b + 2].of = S[b + 1].of /\ S[b + 2].part = 2
<1> DEFINE size == Size(S[b + 1].of.kind)
           e == b + size
<1>1. Len(S) \in Nat /\ b \in Nat /\ b + 1 \in 1..Len(S)
  BY EmptyIs DEF StreamOK
<1>2. \A i \in 1..Len(S) :
        /\ S[i].part \in 1..2
        /\ S[i].part < Size(S[i].of.kind) =>
             i < Len(S) /\ S[i + 1].of = S[i].of /\ S[i + 1].part = 2
        /\ S[i].part = 2 =>
             Size(S[i].of.kind) = 2 /\ i > 1 /\ S[i - 1].of = S[i].of /\ S[i - 1].part = 1
  BY DEF StreamOK
<1>3. size \in 1..2 /\ e = b + size
  BY DEF Size
<1>4. S[b + 1].part = 1
  BY <1>1 DEF AtRecord
<1>5. size = Size(S[b + 1].of.kind)
  OBVIOUS
<1> HIDE DEF size, e
<1>6. /\ S[b + 1].part < size =>
           b + 1 < Len(S) /\ S[b + 1 + 1].of = S[b + 1].of /\ S[b + 1 + 1].part = 2
  BY <1>1, <1>2, <1>5
<1>7. size = 2 => b + 2 <= Len(S) /\ S[b + 2].of = S[b + 1].of /\ S[b + 2].part = 2
  <2>1. b + 1 + 1 = b + 2
    BY <1>1
  <2>2. size = 2 => b + 1 < Len(S) /\ S[b + 2].of = S[b + 1].of /\ S[b + 2].part = 2
    BY <1>4, <1>6, <2>1
  <2> QED
    BY <1>1, <2>2
<1>8. e <= Len(S) /\ e \in Nat
  BY <1>1, <1>3, <1>7
<1>9. AtRecord(S, e)
  <2>1. SUFFICES ASSUME e # Len(S), S[e + 1].part # 1
                 PROVE  FALSE
    BY DEF AtRecord
  <2>2. e + 1 \in 1..Len(S)
    BY <1>1, <1>8, <2>1
  <2>3. S[e + 1].part = 2
    <3>1. S[e + 1].part \in 1..2
      BY <1>2, <2>2
    <3> QED
      BY <2>1, <3>1
  <2>4. Size(S[e + 1].of.kind) = 2 /\ S[e].of = S[e + 1].of /\ S[e].part = 1
    <3>1. PICK j : j = e + 1
      OBVIOUS
    <3>2. j \in 1..Len(S) /\ S[j].part = 2 /\ j - 1 = e
      BY <1>8, <2>2, <2>3, <3>1
    <3>3. Size(S[j].of.kind) = 2 /\ S[j - 1].of = S[j].of /\ S[j - 1].part = 1
      BY <1>2, <3>2
    <3> QED
      BY <3>1, <3>2, <3>3
  <2>6. CASE size = 1
    <3>1. e = b + 1
      BY <1>3, <2>6
    <3>2. Size(S[b + 1].of.kind) = 2
      BY <2>4, <3>1, Zenon
    <3>3. size # 2
      BY <2>6
    <3> QED
      BY <1>5, <3>2, <3>3, Zenon
  <2>7. CASE size = 2
    <3>1. e = b + 2
      BY <1>3, <2>7
    <3> QED
      BY <1>7, <2>4, <2>7, <3>1
  <2> QED
    BY <1>3, <2>6, <2>7
<1> QED
  BY <1>3, <1>4, <1>7, <1>8, <1>9 DEF size, e

(* What the demuxer has, or will get from the frames at hand: in order and *)
(* without a gap the wanted pieces of the stream's first b.                *)
Seen(t, count) == {t[i].n : i \in 1..count}
TakenIs(t, S, b) ==
  /\ IsSeq(t)
  /\ \A i \in 1..Len(t) :
       /\ t[i].n \in Wanted(S) /\ t[i] = S[t[i].n]
       /\ Seen(t, i - 1) = {w \in Wanted(S) : w < t[i].n}
  /\ Seen(t, Len(t)) = {w \in Wanted(S) : w <= b}

LEMMA WantedIs ==
  ASSUME NEW S, StreamOK(S)
  PROVE  /\ Wanted(S) \subseteq 1..Len(S) /\ Len(S) \in Nat
         /\ \A i \in 1..Len(S) :
              i \in Wanted(S) <=> /\ S[i].of.kind = "video"
                                  /\ \E k \in 1..i : S[k].of.kind = "video" /\ S[k].of.key
BY EmptyIs DEF Wanted, StreamOK

LEMMA TakenNone ==
  ASSUME NEW S, StreamOK(S)
  PROVE  TakenIs(<<>>, S, 0)
<1>1. IsSeq(<<>>) /\ Len(<<>>) = 0
  BY EmptyIs
<1>2. {w \in Wanted(S) : w <= 0} = {}
  BY WantedIs
<1>3. Seen(<<>>, 0) = {}
  BY DEF Seen
<1> QED
  BY <1>1, <1>2, <1>3 DEF TakenIs

(* A piece nobody wants.                                                   *)
LEMMA TakenSkips ==
  ASSUME NEW S, StreamOK(S), NEW t, NEW b \in Nat, TakenIs(t, S, b), b + 1 \notin Wanted(S)
  PROVE  TakenIs(t, S, b + 1)
<1>1. {w \in Wanted(S) : w <= b + 1} = {w \in Wanted(S) : w <= b}
  BY WantedIs
<1> QED
  BY <1>1 DEF TakenIs

LEMMA TakenAdds ==
  ASSUME NEW S, StreamOK(S), NEW t, NEW b \in Nat, TakenIs(t, S, b), b + 1 \in Wanted(S)
  PROVE  TakenIs(Append(t, S[b + 1]), S, b + 1)
<1> DEFINE p == S[b + 1]
           u == Append(t, p)
           W == Wanted(S)
<1>0. W \subseteq Nat /\ b + 1 \in 1..Len(S) /\ b + 1 \in W
  BY WantedIs
<1>1. /\ IsSeq(t)
      /\ \A i \in 1..Len(t) :
           /\ t[i].n \in W /\ t[i] = S[t[i].n]
           /\ Seen(t, i - 1) = {w \in W : w < t[i].n}
      /\ Seen(t, Len(t)) = {w \in W : w <= b}
  BY DEF TakenIs
<1>2. p.n = b + 1
  BY <1>0 DEF StreamOK
<1>3. /\ IsSeq(u) /\ Len(t) \in Nat /\ Len(u) = Len(t) + 1
      /\ \A i \in 1..Len(t) : u[i] = t[i]
      /\ u[Len(t) + 1] = p
  BY <1>1, AppendIs
<1>4. p = S[b + 1]
  OBVIOUS
<1> HIDE DEF p, u, W
<1>5. \A c \in 0..Len(t) : Seen(u, c) = Seen(t, c)
  <2>1. SUFFICES ASSUME NEW c \in 0..Len(t)
                 PROVE  Seen(u, c) = Seen(t, c)
    OBVIOUS
  <2>2. \A i \in 1..c : u[i] = t[i]
    BY <1>3
  <2> QED
    BY <2>2 DEF Seen
<1>6. \A w \in W : w \in Nat /\ (w < b + 1 <=> w <= b) /\ (w <= b + 1 <=> w <= b \/ w = b + 1)
  BY <1>0
<1>7. ASSUME NEW i \in 1..Len(u)
      PROVE  u[i].n \in W /\ u[i] = S[u[i].n] /\ Seen(u, i - 1) = {w \in W : w < u[i].n}
  <2>1. CASE i \in 1..Len(t)
    <3>1. u[i] = t[i] /\ i - 1 \in 0..Len(t)
      BY <1>3, <2>1
    <3>2. Seen(u, i - 1) = Seen(t, i - 1)
      BY <1>5, <3>1
    <3> QED
      BY <1>1, <2>1, <3>1, <3>2
  <2>2. CASE i = Len(t) + 1
    <3>1. u[i] = p /\ i - 1 = Len(t) /\ Len(t) \in 0..Len(t)
      BY <1>3, <2>2
    <3>2. Seen(u, i - 1) = {w \in W : w <= b}
      BY <1>1, <1>5, <3>1
    <3>3. {w \in W : w < b + 1} = {w \in W : w <= b}
      BY <1>6
    <3> QED
      BY <1>0, <1>2, <1>4, <3>1, <3>2, <3>3
  <2> QED
    BY <1>3, <2>1, <2>2
<1>8. Seen(u, Len(u)) = {w \in W : w <= b + 1}
  <2>1. Seen(u, Len(u)) = Seen(u, Len(t)) \union {b + 1}
    <3>1. 1..Len(u) = (1..Len(t)) \union {Len(t) + 1}
      BY <1>3
    <3> QED
      BY <1>2, <1>3, <3>1 DEF Seen
  <2>2. Seen(u, Len(t)) = {w \in W : w <= b}
    BY <1>1, <1>3, <1>5
  <2>3. {w \in W : w <= b + 1} = {w \in W : w <= b} \union {b + 1}
    BY <1>0, <1>6
  <2> QED
    BY <2>1, <2>2, <2>3
<1>9. TakenIs(u, S, b + 1)
  BY <1>3, <1>7, <1>8 DEF TakenIs, W
<1> QED
  BY <1>9 DEF u, p

-----------------------------------------------------------------------------
(* Frames.                                                                 *)

Frames(p) == IsSeq(p) /\ \A i \in 1..Len(p) : IsSeq(p[i]) /\ Len(p[i]) = 2

LEMMA JoinedIs ==
  ASSUME NEW p, IsSeq(p)
  PROVE  /\ IsSeq(Joined(p)) /\ Len(Joined(p)) = 2 * Len(p) /\ Len(p) \in Nat
         /\ \A k \in 1..Len(p) : Joined(p)[2 * k - 1] = p[k][1] /\ Joined(p)[2 * k] = p[k][2]
         /\ \A i \in 1..(2 * Len(p)) : \E k \in 1..Len(p) : i = 2 * k - 1 \/ i = 2 * k
<1>1. Len(p) \in Nat
  BY EmptyIs
<1>2. IsSeq(Joined(p)) /\ Len(Joined(p)) = 2 * Len(p)
  BY <1>1, RowIs, 2 * Len(p) \in Nat,
     Joined(p) = [i \in 1..(2 * Len(p)) |-> Joined(p)[i]]
  DEF Joined
<1>3. ASSUME NEW k \in 1..Len(p)
      PROVE  Joined(p)[2 * k - 1] = p[k][1] /\ Joined(p)[2 * k] = p[k][2]
  <2>1. /\ 2 * k - 1 \in 1..(2 * Len(p)) /\ 2 * k \in 1..(2 * Len(p))
        /\ (2 * k - 1 + 1) \div 2 = k /\ (2 * k - 1) % 2 = 1
        /\ (2 * k + 1) \div 2 = k /\ (2 * k) % 2 = 0
    BY <1>1
  <2> QED
    BY <2>1 DEF Joined
<1>4. ASSUME NEW i \in 1..(2 * Len(p))
      PROVE  \E k \in 1..Len(p) : i = 2 * k - 1 \/ i = 2 * k
  <2>1. /\ (i + 1) \div 2 \in 1..Len(p)
        /\ i = 2 * ((i + 1) \div 2) - 1 \/ i = 2 * ((i + 1) \div 2)
    BY <1>1
  <2> QED
    BY <2>1
<1> QED
  BY <1>1, <1>2, <1>3, <1>4

(* A row that agrees with the frames on the pieces of each.                *)
LEMMA JoinedSame ==
  ASSUME NEW p, NEW s, IsSeq(p), IsSeq(s), Len(s) = 2 * Len(p),
         \A k \in 1..Len(p) : s[2 * k - 1] = p[k][1] /\ s[2 * k] = p[k][2]
  PROVE  s = Joined(p)
<1>1. /\ IsSeq(Joined(p)) /\ Len(Joined(p)) = 2 * Len(p) /\ Len(p) \in Nat
      /\ \A k \in 1..Len(p) : Joined(p)[2 * k - 1] = p[k][1] /\ Joined(p)[2 * k] = p[k][2]
      /\ \A i \in 1..(2 * Len(p)) : \E k \in 1..Len(p) : i = 2 * k - 1 \/ i = 2 * k
  BY JoinedIs
<1>2. ASSUME NEW i \in 1..Len(s)
      PROVE  s[i] = Joined(p)[i]
  <2>1. PICK k \in 1..Len(p) : i = 2 * k - 1 \/ i = 2 * k
    BY <1>1
  <2>2. s[2 * k - 1] = Joined(p)[2 * k - 1] /\ s[2 * k] = Joined(p)[2 * k]
    BY <1>1, Zenon
  <2> QED
    BY <2>1, <2>2
<1> QED
  BY <1>1, <1>2, SameSequence

LEMMA JoinedAppend ==
  ASSUME NEW p, Frames(p), NEW f, IsSeq(f), Len(f) = 2
  PROVE  Joined(p) \o f = Joined(Append(p, f)) /\ Frames(Append(p, f))
<1> DEFINE j == Joined(p)
           s == j \o f
           q == Append(p, f)
<1>1. /\ IsSeq(j) /\ Len(j) = 2 * Len(p) /\ Len(p) \in Nat
      /\ \A k \in 1..Len(p) : j[2 * k - 1] = p[k][1] /\ j[2 * k] = p[k][2]
  BY JoinedIs DEF Frames
<1>2. /\ IsSeq(q) /\ Len(q) = Len(p) + 1 /\ q[Len(p) + 1] = f
      /\ \A k \in 1..Len(p) : q[k] = p[k]
  BY AppendIs DEF Frames
<1> HIDE DEF j
<1>3. /\ IsSeq(s) /\ Len(s) = 2 * Len(p) + 2
      /\ \A i \in 1..(2 * Len(p) + 2) : s[i] = IF i <= 2 * Len(p) THEN j[i] ELSE f[i - 2 * Len(p)]
  <2>1. /\ IsSeq(s) /\ Len(s) = Len(j) + Len(f)
        /\ \A i \in 1..(Len(j) + Len(f)) : s[i] = IF i <= Len(j) THEN j[i] ELSE f[i - Len(j)]
    BY <1>1, ConcatIs
  <2> QED
    BY <1>1, <2>1
<1> HIDE DEF s, q
<1>4. ASSUME NEW k \in 1..Len(q)
      PROVE  s[2 * k - 1] = q[k][1] /\ s[2 * k] = q[k][2]
  <2>1. CASE k \in 1..Len(p)
    <3>1. /\ 2 * k - 1 \in 1..(2 * Len(p) + 2) /\ 2 * k \in 1..(2 * Len(p) + 2)
          /\ 2 * k - 1 <= 2 * Len(p) /\ 2 * k <= 2 * Len(p)
      BY <1>1, <2>1
    <3>2. s[2 * k - 1] = j[2 * k - 1] /\ s[2 * k] = j[2 * k]
      BY <1>3, <3>1
    <3> QED
      BY <1>1, <1>2, <2>1, <3>2
  <2>2. CASE k = Len(p) + 1
    <3>1. /\ 2 * k - 1 = 2 * Len(p) + 1 /\ 2 * k = 2 * Len(p) + 2
          /\ 2 * Len(p) + 1 \in 1..(2 * Len(p) + 2) /\ 2 * Len(p) + 2 \in 1..(2 * Len(p) + 2)
          /\ ~(2 * Len(p) + 1 <= 2 * Len(p)) /\ ~(2 * Len(p) + 2 <= 2 * Len(p))
          /\ 2 * Len(p) + 1 - 2 * Len(p) = 1 /\ 2 * Len(p) + 2 - 2 * Len(p) = 2
      BY <1>1, <2>2
    <3>2. s[2 * Len(p) + 1] = f[1] /\ s[2 * Len(p) + 2] = f[2]
      BY <1>3, <3>1
    <3> QED
      BY <1>2, <2>2, <3>1, <3>2
  <2> QED
    BY <1>1, <1>2, <2>1, <2>2
<1>5. Len(s) = 2 * Len(q)
  BY <1>1, <1>2, <1>3
<1>6. s = Joined(q)
  BY <1>2, <1>3, <1>4, <1>5, JoinedSame
<1>7. Frames(q)
  <2>1. ASSUME NEW i \in 1..Len(q)
        PROVE  IsSeq(q[i]) /\ Len(q[i]) = 2
    <3>1. i \in 1..Len(p) \/ i = Len(p) + 1
      BY <1>1, <1>2
    <3> QED
      BY <1>2, <3>1 DEF Frames
  <2> QED
    BY <1>2, <2>1 DEF Frames
<1> QED
  BY <1>6, <1>7 DEF s, q, j

LEMMA JoinedTail ==
  ASSUME NEW p, Frames(p), p # <<>>
  PROVE  /\ IsSeq(Head(p)) /\ Frames(Tail(p))
         /\ Head(p) \o Joined(Tail(p)) = Joined(p)
<1> DEFINE q == Tail(p)
           f == Head(p)
           j == Joined(q)
           s == f \o j
<1>1. /\ IsSeq(p) /\ IsSeq(q) /\ Len(p) \in Nat \ {0} /\ Len(q) = Len(p) - 1
      /\ \A i \in 1..(Len(p) - 1) : q[i] = p[i + 1]
      /\ f = p[1]
  BY TailIs DEF Frames
<1>2. IsSeq(f) /\ Len(f) = 2 /\ \A i \in 1..Len(p) : IsSeq(p[i]) /\ Len(p[i]) = 2
  BY <1>1 DEF Frames
<1> HIDE DEF q, f
<1>3. /\ IsSeq(j) /\ Len(j) = 2 * Len(q) /\ Len(q) \in Nat
      /\ \A k \in 1..Len(q) : j[2 * k - 1] = q[k][1] /\ j[2 * k] = q[k][2]
  BY <1>1, JoinedIs
<1> HIDE DEF j
<1>4. /\ IsSeq(s) /\ Len(s) = 2 * Len(p)
      /\ \A i \in 1..(2 * Len(p)) : s[i] = IF i <= 2 THEN f[i] ELSE j[i - 2]
  <2>1. /\ IsSeq(s) /\ Len(s) = Len(f) + Len(j)
        /\ \A i \in 1..(Len(f) + Len(j)) : s[i] = IF i <= Len(f) THEN f[i] ELSE j[i - Len(f)]
    BY <1>2, <1>3, ConcatIs
  <2>2. Len(f) + Len(j) = 2 * Len(p)
    BY <1>1, <1>2, <1>3
  <2> QED
    BY <1>2, <2>1, <2>2
<1> HIDE DEF s
<1>5. ASSUME NEW k \in 1..Len(p)
      PROVE  s[2 * k - 1] = p[k][1] /\ s[2 * k] = p[k][2]
  <2>1. CASE k = 1
    <3>1. 1 \in 1..(2 * Len(p)) /\ 2 \in 1..(2 * Len(p)) /\ 2 * k - 1 = 1 /\ 2 * k = 2
      BY <1>1, <2>1
    <3>2. s[1] = f[1] /\ s[2] = f[2]
      BY <1>4, <3>1
    <3> QED
      BY <1>1, <2>1, <3>1, <3>2
  <2>2. CASE k # 1
    <3>1. PICK l : l = k - 1
      OBVIOUS
    <3>2. /\ l \in 1..Len(q) /\ l \in 1..(Len(p) - 1) /\ l + 1 = k
          /\ 2 * k - 1 \in 1..(2 * Len(p)) /\ 2 * k \in 1..(2 * Len(p))
          /\ ~(2 * k - 1 <= 2) /\ ~(2 * k <= 2)
          /\ 2 * k - 1 - 2 = 2 * l - 1 /\ 2 * k - 2 = 2 * l
      BY <1>1, <2>2, <3>1
    <3>3. s[2 * k - 1] = j[2 * k - 1 - 2] /\ s[2 * k] = j[2 * k - 2]
      BY <1>4, <3>2
    <3>4. j[2 * l - 1] = q[l][1] /\ j[2 * l] = q[l][2] /\ q[l] = p[l + 1]
      BY <1>1, <1>3, <3>2, Zenon
    <3> QED
      BY <3>2, <3>3, <3>4
  <2> QED
    BY <2>1, <2>2
<1>6. s = Joined(p)
  BY <1>1, <1>4, <1>5, JoinedSame
<1>7. Frames(q)
  <2>1. ASSUME NEW i \in 1..Len(q)
        PROVE  IsSeq(q[i]) /\ Len(q[i]) = 2
    <3>1. i \in 1..(Len(p) - 1) /\ i + 1 \in 1..Len(p)
      BY <1>1
    <3> QED
      BY <1>1, <1>2, <3>1
  <2> QED
    BY <1>1, <2>1 DEF Frames
<1> QED
  BY <1>2, <1>6, <1>7 DEF s, q, f, j

LEMMA JoinedNone == Frames(<<>>) /\ Joined(<<>>) = <<>>
<1>1. IsSeq(<<>>) /\ Len(<<>>) = 0
  BY EmptyIs
<1>2. IsSeq(Joined(<<>>)) /\ Len(Joined(<<>>)) = 0
  BY <1>1, JoinedIs
<1> QED
  BY <1>1, <1>2, EmptyIs DEF Frames

-----------------------------------------------------------------------------
(* What the packets on their way carry.                                    *)

(* The packets carry the pieces of S behind the first a, up to the first   *)
(* e; off has where each of them begins.                                   *)
CargoAt(S, P, off, a, e) ==
  /\ off \in [1..(Len(P) + 1) -> a..e]
  /\ off[1] = a /\ off[Len(P) + 1] = e
  /\ \A j, k \in 1..(Len(P) + 1) : j <= k => off[j] <= off[k]
  /\ \A k \in 1..Len(P) :
       IF P[k].id = "video"
       THEN P[k].body = Stretch(S, off[k], off[k + 1])
       ELSE off[k + 1] = off[k]
Cargo(S, P, a, e) ==
  a \in Nat /\ e \in a..Len(S) /\ \E off : CargoAt(S, P, off, a, e)

LEMMA CargoNone ==
  ASSUME NEW S, NEW a \in Nat, NEW e \in a..Len(S), a = e
  PROVE  Cargo(S, <<>>, a, e)
<1>1. Len(<<>>) = 0
  BY EmptyIs
<1>2. CargoAt(S, <<>>, [i \in 1..1 |-> a], a, e)
  BY <1>1 DEF CargoAt
<1> QED
  BY <1>2 DEF Cargo

(* Nothing on its way carries nothing.                                     *)
LEMMA CargoEmpty ==
  ASSUME NEW S, NEW a, NEW e, Cargo(S, <<>>, a, e)
  PROVE  a = e
<1>1. Len(<<>>) = 0
  BY EmptyIs
<1> QED
  BY <1>1 DEF Cargo, CargoAt

LEMMA CargoSends ==
  ASSUME NEW S, IsSeq(S), NEW P, IsSeq(P), NEW a, NEW e, Cargo(S, P, a, e),
         NEW p, NEW f \in e..Len(S),
         IF p.id = "video" THEN p.body = Stretch(S, e, f) ELSE f = e
  PROVE  Cargo(S, Append(P, p), a, f)
<1> DEFINE Q == Append(P, p)
<1>1. a \in Nat /\ e \in a..Len(S) /\ Len(S) \in Nat
  BY EmptyIs DEF Cargo
<1>2. PICK off : CargoAt(S, P, off, a, e)
  BY DEF Cargo
<1>3. /\ IsSeq(Q) /\ Len(P) \in Nat /\ Len(Q) = Len(P) + 1
      /\ \A k \in 1..Len(P) : Q[k] = P[k]
      /\ Q[Len(P) + 1] = p
  BY AppendIs
<1> HIDE DEF Q
<1>4. PICK n : n = Len(P) /\ n \in Nat
  BY <1>3
<1> DEFINE more == [i \in 1..(n + 2) |-> IF i <= n + 1 THEN off[i] ELSE f]
<1>5. /\ off \in [1..(n + 1) -> a..e] /\ off[1] = a /\ off[n + 1] = e
      /\ \A j, k \in 1..(n + 1) : j <= k => off[j] <= off[k]
      /\ \A k \in 1..n :
           IF P[k].id = "video"
           THEN P[k].body = Stretch(S, off[k], off[k + 1])
           ELSE off[k + 1] = off[k]
  BY <1>2, <1>4 DEF CargoAt
<1>6. /\ \A i \in 1..(n + 1) : more[i] = off[i] /\ more[i] \in a..f
      /\ more[n + 2] = f /\ f \in a..f /\ e <= f
      /\ more \in [1..(n + 2) -> a..f]
  <2>1. \A i \in 1..(n + 1) : more[i] = off[i] /\ more[i] \in a..f /\ i \in 1..(n + 2)
    BY <1>1, <1>4, <1>5
  <2>2. more[n + 2] = f /\ f \in a..f /\ e <= f
    BY <1>1, <1>4
  <2>3. \A i \in 1..(n + 2) : more[i] \in a..f
    <3>1. SUFFICES ASSUME NEW i \in 1..(n + 2) PROVE more[i] \in a..f
      OBVIOUS
    <3>2. i \in 1..(n + 1) \/ i = n + 2
      BY <1>4
    <3> QED
      BY <2>1, <2>2, <3>2
  <2> QED
    BY <2>1, <2>2, <2>3
<1> HIDE DEF more
<1>7. ASSUME NEW k \in 1..(n + 1)
      PROVE  IF Q[k].id = "video"
             THEN Q[k].body = Stretch(S, more[k], more[k + 1])
             ELSE more[k + 1] = more[k]
  <2>1. CASE k \in 1..n
    <3>1. k \in 1..(n + 1) /\ k + 1 \in 1..(n + 1) /\ Q[k] = P[k]
      BY <1>3, <1>4, <2>1
    <3>2. more[k] = off[k] /\ more[k + 1] = off[k + 1]
      BY <1>6, <3>1
    <3> QED
      BY <1>5, <2>1, <3>1, <3>2
  <2>2. CASE k = n + 1
    <3>1. n + 1 \in 1..(n + 1) /\ k + 1 = n + 2 /\ Q[k] = p
      BY <1>3, <1>4, <2>2
    <3>2. more[k] = e /\ more[k + 1] = f
      BY <1>5, <1>6, <2>2, <3>1
    <3> QED
      BY <1>6, <3>1, <3>2
  <2> QED
    BY <1>4, <2>1, <2>2
<1>10. ASSUME NEW j \in 1..(n + 2), NEW k \in 1..(n + 2), j <= k
       PROVE  more[j] <= more[k]
  <2>1. CASE k = n + 2
    <3>1. more[j] \in a..f /\ more[k] = f
      BY <1>6, <2>1
    <3> QED
      BY <1>1, <3>1
  <2>2. CASE k # n + 2
    <3>1. j \in 1..(n + 1) /\ k \in 1..(n + 1)
      BY <1>4, <1>10, <2>2
    <3> QED
      BY <1>5, <1>6, <1>10, <3>1
  <2> QED
    BY <2>1, <2>2
<1>8. CargoAt(S, Q, more, a, f)
  <2>1. Len(Q) = n + 1 /\ n + 1 + 1 = n + 2 /\ 1 \in 1..(n + 1)
    BY <1>3, <1>4
  <2> QED
    BY <1>5, <1>6, <1>7, <1>10, <2>1 DEF CargoAt
<1>9. Cargo(S, Q, a, f)
  BY <1>1, <1>8 DEF Cargo
<1> QED
  BY <1>9 DEF Q

LEMMA CargoTakes ==
  ASSUME NEW S, IsSeq(S), NEW P, IsSeq(P), P # <<>>, NEW a, NEW e, Cargo(S, P, a, e)
  PROVE  \E d \in a..e :
           /\ Cargo(S, Tail(P), d, e)
           /\ IF P[1].id = "video" THEN P[1].body = Stretch(S, a, d) ELSE d = a
<1> DEFINE Q == Tail(P)
<1>1. a \in Nat /\ e \in a..Len(S) /\ Len(S) \in Nat
  BY EmptyIs DEF Cargo
<1>2. PICK off : CargoAt(S, P, off, a, e)
  BY DEF Cargo
<1>3. /\ Len(P) \in Nat \ {0} /\ Len(Q) = Len(P) - 1
      /\ \A k \in 1..(Len(P) - 1) : Q[k] = P[k + 1]
  BY TailIs
<1> HIDE DEF Q
<1>4. PICK n : n = Len(P) /\ n \in Nat \ {0}
  BY <1>3
<1>5. /\ off \in [1..(n + 1) -> a..e] /\ off[1] = a /\ off[n + 1] = e
      /\ \A j, k \in 1..(n + 1) : j <= k => off[j] <= off[k]
      /\ \A k \in 1..n :
           IF P[k].id = "video"
           THEN P[k].body = Stretch(S, off[k], off[k + 1])
           ELSE off[k + 1] = off[k]
  BY <1>2, <1>4 DEF CargoAt
<1>6. PICK d : d = off[2]
  OBVIOUS
<1>7. d \in a..e /\ d \in Nat /\ e \in d..Len(S)
  <2>1. 2 \in 1..(n + 1)
    BY <1>4
  <2>2. d \in a..e
    BY <1>5, <1>6, <2>1
  <2> QED
    BY <1>1, <2>2
<1>8. IF P[1].id = "video" THEN P[1].body = Stretch(S, a, d) ELSE d = a
  <2>1. PICK k : k = 1
    OBVIOUS
  <2>2. k \in 1..n /\ k + 1 = 2
    BY <1>4, <2>1
  <2>3. IF P[k].id = "video"
        THEN P[k].body = Stretch(S, off[k], off[k + 1])
        ELSE off[k + 1] = off[k]
    BY <1>5, <2>2
  <2> QED
    BY <1>5, <1>6, <2>1, <2>2, <2>3
<1>10. \A k \in 2..(n + 1) : off[k] \in d..e
  <2>1. SUFFICES ASSUME NEW k \in 2..(n + 1)
                 PROVE  off[k] \in d..e
    OBVIOUS
  <2>2. k \in 1..(n + 1) /\ 2 \in 1..(n + 1) /\ 2 <= k
    BY <1>4
  <2>3. off[k] \in a..e /\ d <= off[k]
    BY <1>5, <1>6, <2>2
  <2> QED
    BY <1>1, <1>7, <2>3
<1> DEFINE less == [i \in 1..n |-> off[i + 1]]
<1>12. /\ less \in [1..n -> d..e] /\ \A i \in 1..n : less[i] = off[i + 1]
  <2>1. \A i \in 1..n : i + 1 \in 2..(n + 1)
    BY <1>4
  <2> QED
    BY <1>10, <2>1
<1> HIDE DEF less
<1>13. ASSUME NEW k \in 1..(n - 1)
       PROVE  IF Q[k].id = "video"
              THEN Q[k].body = Stretch(S, less[k], less[k + 1])
              ELSE less[k + 1] = less[k]
  <2>1. PICK j : j = k + 1
    OBVIOUS
  <2>2. j \in 1..n /\ k \in 1..n /\ Q[k] = P[j]
    BY <1>3, <1>4, <2>1
  <2>3. less[k] = off[j] /\ less[k + 1] = off[j + 1]
    BY <1>12, <2>1, <2>2
  <2> QED
    BY <1>5, <2>2, <2>3
<1>11. ASSUME NEW j \in 1..n, NEW k \in 1..n, j <= k
       PROVE  less[j] <= less[k]
  <2>1. j + 1 \in 1..(n + 1) /\ k + 1 \in 1..(n + 1) /\ j + 1 <= k + 1
    BY <1>4, <1>11
  <2> QED
    BY <1>5, <1>12, <2>1
<1>14. CargoAt(S, Q, less, d, e)
  <2>1. Len(Q) = n - 1 /\ n - 1 + 1 = n /\ 1 \in 1..n /\ n \in 1..n /\ 1 + 1 = 2
    BY <1>3, <1>4
  <2>2. less[1] = d /\ less[n] = e
    BY <1>5, <1>6, <1>12, <2>1
  <2> QED
    BY <1>11, <1>12, <1>13, <2>1, <2>2 DEF CargoAt
<1>15. Cargo(S, Q, d, e)
  BY <1>7, <1>14 DEF Cargo
<1> QED
  BY <1>7, <1>8, <1>15 DEF Q

(* Packets with media are known to be: they say so, one before them did,   *)
(* or the client has noted it.                                             *)
Says(p) == p.id = "video" /\ p.extension = "binary"
Declared(P, binary, begun) ==
  /\ \A k \in 1..Len(P) : P[k].id = "video" =>
       \/ P[k].extension = "text" /\ P[k].body = <<>>
       \/ P[k].extension = "binary"
       \/ P[k].extension = "none" /\ (binary \/ \E j \in 1..(k - 1) : Says(P[j]))
  /\ begun => binary \/ \E k \in 1..Len(P) : Says(P[k])

LEMMA DeclaredNone ==
  ASSUME NEW binary
  PROVE  Declared(<<>>, binary, FALSE)
BY EmptyIs DEF Declared

LEMMA DeclaredSends ==
  ASSUME NEW P, IsSeq(P), NEW binary, NEW begun, Declared(P, binary, begun),
         NEW p, NEW starts,
         p.id = "video" =>
           \/ p.extension = "text" /\ p.body = <<>>
           \/ p.extension = "binary"
           \/ p.extension = "none" /\ begun,
         starts => begun \/ Says(p)
  PROVE  Declared(Append(P, p), binary, starts)
<1> DEFINE Q == Append(P, p)
<1>1. /\ Len(P) \in Nat /\ Len(Q) = Len(P) + 1
      /\ \A k \in 1..Len(P) : Q[k] = P[k]
      /\ Q[Len(P) + 1] = p
  BY AppendIs
<1> HIDE DEF Q
<1>2. ASSUME NEW k \in 1..Len(P), P[k].id = "video", P[k].extension = "none",
             binary \/ \E j \in 1..(k - 1) : Says(P[j])
      PROVE  binary \/ \E j \in 1..(k - 1) : Says(Q[j])
  <2>1. ASSUME NEW j \in 1..(k - 1), Says(P[j])
        PROVE  Says(Q[j]) /\ j \in 1..(k - 1)
    <3>1. j \in 1..Len(P)
      BY <1>1
    <3> QED
      BY <1>1, <2>1, <3>1
  <2> QED
    BY <1>2, <2>1
<1>3. \A k \in 1..Len(P) : Says(P[k]) => Says(Q[k]) /\ k \in 1..(Len(P) + 1 - 1)
  BY <1>1
<1>4. ASSUME NEW k \in 1..Len(Q), Q[k].id = "video"
      PROVE  \/ Q[k].extension = "text" /\ Q[k].body = <<>>
             \/ Q[k].extension = "binary"
             \/ Q[k].extension = "none" /\ (binary \/ \E j \in 1..(k - 1) : Says(Q[j]))
  <2>1. CASE k \in 1..Len(P)
    <3>1. Q[k] = P[k]
      BY <1>1, <2>1
    <3> QED
      BY <1>2, <1>4, <2>1, <3>1 DEF Declared
  <2>2. CASE k = Len(P) + 1
    <3>1. Q[k] = p
      BY <1>1, <2>2
    <3>2. begun => binary \/ \E j \in 1..(k - 1) : Says(Q[j])
      BY <1>3, <2>2 DEF Declared
    <3> QED
      BY <1>4, <3>1, <3>2
  <2> QED
    BY <1>1, <2>1, <2>2
<1>5. ASSUME starts
      PROVE  binary \/ \E k \in 1..Len(Q) : Says(Q[k])
  <2>1. CASE begun
    <3>1. \A k \in 1..Len(P) : k \in 1..Len(Q)
      BY <1>1
    <3> QED
      BY <1>3, <2>1, <3>1 DEF Declared
  <2>2. CASE Says(p)
    <3>1. Len(P) + 1 \in 1..Len(Q) /\ Q[Len(P) + 1] = p
      BY <1>1
    <3> QED
      BY <2>2, <3>1
  <2> QED
    BY <1>5, <2>1, <2>2
<1>6. Declared(Q, binary, starts)
  BY <1>4, <1>5 DEF Declared
<1> QED
  BY <1>6 DEF Q

LEMMA DeclaredTakes ==
  ASSUME NEW P, IsSeq(P), P # <<>>, NEW binary, NEW begun, Declared(P, binary, begun),
         NEW notes, binary \/ Says(P[1]) => notes
  PROVE  /\ Declared(Tail(P), notes, begun)
         /\ P[1].id = "video" => \/ P[1].extension = "text" /\ P[1].body = <<>>
                                 \/ P[1].extension = "binary"
                                 \/ P[1].extension = "none" /\ binary
<1> DEFINE Q == Tail(P)
<1>1. /\ Len(P) \in Nat \ {0} /\ Len(Q) = Len(P) - 1
      /\ \A k \in 1..(Len(P) - 1) : Q[k] = P[k + 1]
  BY TailIs
<1> HIDE DEF Q
<1>2. ASSUME NEW k \in 1..Len(P), Says(P[k])
      PROVE  notes \/ (k - 1 \in 1..Len(Q) /\ Says(Q[k - 1]))
  <2>1. CASE k = 1
    BY <1>2, <2>1
  <2>2. CASE k # 1
    <3>1. PICK l : l = k - 1
      OBVIOUS
    <3>2. l \in 1..(Len(P) - 1) /\ l + 1 = k
      BY <1>1, <2>2, <3>1
    <3>3. Q[l] = P[k]
      BY <1>1, <3>2
    <3> QED
      BY <1>1, <1>2, <3>1, <3>2, <3>3
  <2> QED
    BY <2>1, <2>2
<1>3. ASSUME NEW k \in 1..Len(Q), Q[k].id = "video"
      PROVE  \/ Q[k].extension = "text" /\ Q[k].body = <<>>
             \/ Q[k].extension = "binary"
             \/ Q[k].extension = "none" /\ (notes \/ \E j \in 1..(k - 1) : Says(Q[j]))
  <2>1. PICK l : l = k + 1
    OBVIOUS
  <2>2. l \in 1..Len(P) /\ Q[k] = P[l]
    BY <1>1, <2>1
  <2>3. ASSUME NEW j \in 1..(l - 1), Says(P[j])
        PROVE  notes \/ \E i \in 1..(k - 1) : Says(Q[i])
    <3>1. j \in 1..Len(P) /\ (j - 1 \in 1..Len(Q) => j - 1 \in 1..(k - 1))
      BY <1>1, <2>1
    <3>2. notes \/ (j - 1 \in 1..Len(Q) /\ Says(Q[j - 1]))
      BY <1>2, <2>3, <3>1
    <3> QED
      BY <3>1, <3>2
  <2>4. \/ P[l].extension = "text" /\ P[l].body = <<>>
        \/ P[l].extension = "binary"
        \/ P[l].extension = "none" /\ (binary \/ \E j \in 1..(l - 1) : Says(P[j]))
    BY <1>3, <2>2 DEF Declared
  <2> QED
    BY <2>2, <2>3, <2>4
<1>4. ASSUME begun
      PROVE  notes \/ \E k \in 1..Len(Q) : Says(Q[k])
  <2>1. binary \/ \E k \in 1..Len(P) : Says(P[k])
    BY <1>4 DEF Declared
  <2> QED
    BY <1>2, <2>1
<1>5. P[1].id = "video" => \/ P[1].extension = "text" /\ P[1].body = <<>>
                           \/ P[1].extension = "binary"
                           \/ P[1].extension = "none" /\ binary
  <2>1. 1 \in 1..Len(P) /\ 1..(1 - 1) = {}
    BY <1>1
  <2> QED
    BY <2>1 DEF Declared
<1>6. Declared(Q, notes, begun)
  BY <1>3, <1>4 DEF Declared
<1> QED
  BY <1>5, <1>6 DEF Q

-----------------------------------------------------------------------------
(* The parser.                                                             *)

NoKey(S, b) == \A k \in 1..b : ~(S[k].of.kind = "video" /\ S[k].of.key)

(* The parser's buffer has the pieces of S behind b, where a record ends,  *)
(* up to a; what was taken is wanted of the first b.                       *)
ParsedIs(S, parser, a, b, taken, codec) ==
  /\ b \in 0..a
  /\ parser = Stretch(S, b, a)
  /\ AtRecord(S, b)
  /\ TakenIs(taken, S, b)
  /\ codec = "none" <=> NoKey(S, b)

LEMMA ParsedGrows ==
  ASSUME NEW S, IsSeq(S), NEW parser, NEW a \in Nat, NEW b, NEW taken, NEW codec,
         ParsedIs(S, parser, a, b, taken, codec), NEW d \in a..Len(S)
  PROVE  ParsedIs(S, parser \o Stretch(S, a, d), d, b, taken, codec)
<1>1. Len(S) \in Nat /\ b \in Nat /\ a \in b..Len(S) /\ b \in 0..d
  BY EmptyIs DEF ParsedIs
<1>2. parser \o Stretch(S, a, d) = Stretch(S, b, d)
  BY <1>1, StretchJoins DEF ParsedIs
<1> QED
  BY <1>1, <1>2 DEF ParsedIs

(* The record the buffer begins with.                                      *)
LEMMA AheadIs ==
  ASSUME NEW S, StreamOK(S), NEW parser, NEW a \in 0..Len(S), NEW b, NEW taken, NEW codec,
         ParsedIs(S, parser, a, b, taken, codec), parser # <<>>
  PROVE  LET size == Size(S[b + 1].of.kind)
         IN /\ b \in 0..(Len(S) - 1) /\ Len(S) \in Nat
            /\ parser[1] = S[b + 1] /\ parser[1].part = 1 /\ parser[1].of \in RecordType
            /\ Len(parser) = a - b
            /\ size \in 1..2 /\ b + size <= Len(S) /\ AtRecord(S, b + size)
            /\ size = 2 => S[b + 2].of = S[b + 1].of
<1>1. /\ IsSeq(S) /\ Len(S) \in Nat /\ b \in Nat /\ a \in b..Len(S) /\ a \in Nat
      /\ parser = Stretch(S, b, a)
  BY EmptyIs DEF ParsedIs, StreamOK
<1>2. /\ Len(parser) = a - b /\ a # b
      /\ \A i \in 1..(a - b) : parser[i] = S[b + i]
  <2>1. /\ Len(Stretch(S, b, a)) = a - b
        /\ \A i \in 1..(a - b) : Stretch(S, b, a)[i] = S[b + i]
        /\ Stretch(S, b, a) = <<>> <=> b = a
    BY <1>1, StretchIs, ZenonT(60)
  <2> QED
    BY <1>1, <2>1
<1>3. b \in 0..(Len(S) - 1) /\ parser[1] = S[b + 1] /\ b + 1 \in 1..Len(S)
  <2>1. 1 \in 1..(a - b)
    BY <1>1, <1>2
  <2> QED
    BY <1>1, <1>2, <2>1
<1>4. AtRecord(S, b)
  BY DEF ParsedIs
<1>5. LET size == Size(S[b + 1].of.kind)
      IN /\ size \in 1..2 /\ b + size <= Len(S) /\ AtRecord(S, b + size)
         /\ S[b + 1].part = 1
         /\ size = 2 => S[b + 2].of = S[b + 1].of /\ S[b + 2].part = 2
  BY <1>3, <1>4, RecordBehind
<1>6. S[b + 1].of \in RecordType
  BY <1>3 DEF StreamOK
<1> QED
  BY <1>1, <1>2, <1>3, <1>5, <1>6

(* A record of which nothing is wanted.                                    *)
LEMMA ParsedSkips ==
  ASSUME NEW S, StreamOK(S), NEW parser, NEW a \in 0..Len(S), NEW b, NEW taken, NEW codec,
         ParsedIs(S, parser, a, b, taken, codec), parser # <<>>,
         NEW size, size = Size(parser[1].of.kind), size <= Len(parser),
         parser[1].of.kind # "video" \/ (codec = "none" /\ ~parser[1].of.key)
  PROVE  ParsedIs(S, SubSeq(parser, size + 1, Len(parser)), a, b + size, taken, codec)
<1>1. /\ b \in 0..(Len(S) - 1) /\ Len(S) \in Nat
      /\ parser[1] = S[b + 1] /\ Len(parser) = a - b
      /\ size \in 1..2 /\ b + size <= Len(S) /\ AtRecord(S, b + size)
      /\ size = 2 => S[b + 2].of = S[b + 1].of
  BY AheadIs
<1>2. IsSeq(S) /\ b \in Nat /\ a \in b..Len(S) /\ size \in 0..(a - b) /\ b + size \in 0..a
  BY <1>1 DEF StreamOK
<1>3. SubSeq(parser, size + 1, Len(parser)) = Stretch(S, b + size, a)
  <2>1. parser = Stretch(S, b, a)
    BY DEF ParsedIs
  <2>2. SubSeq(Stretch(S, b, a), size + 1, Len(Stretch(S, b, a))) = Stretch(S, b + size, a)
    BY <1>2, StretchSplits
  <2> QED
    BY <2>1, <2>2
<1>4. \A i \in (b + 1)..(b + size) : i \in 1..Len(S) /\ S[i].of = parser[1].of
  BY <1>1
<1>5. /\ codec = "none" <=> NoKey(S, b)
      /\ \A i \in (b + 1)..(b + size) : ~(S[i].of.kind = "video" /\ S[i].of.key)
  BY <1>4 DEF ParsedIs
<1>6. NoKey(S, b + size) <=> NoKey(S, b)
  <2>1. 1..(b + size) = (1..b) \union ((b + 1)..(b + size))
    BY <1>1
  <2> QED
    BY <1>5, <2>1 DEF NoKey
<1>7. \A i \in (b + 1)..(b + size) : i \notin Wanted(S)
  <2>1. SUFFICES ASSUME NEW i \in (b + 1)..(b + size), i \in Wanted(S)
                 PROVE  FALSE
    OBVIOUS
  <2>2. /\ S[i].of.kind = "video"
        /\ \E k \in 1..i : S[k].of.kind = "video" /\ S[k].of.key
    BY <1>4, <2>1, WantedIs
  <2>3. codec = "none" /\ NoKey(S, b + size)
    BY <1>4, <1>5, <1>6, <2>2
  <2>4. \A k \in 1..i : k \in 1..(b + size)
    BY <1>1
  <2> QED
    BY <2>2, <2>3, <2>4 DEF NoKey
<1>8. TakenIs(taken, S, b + size)
  <2>1. TakenIs(taken, S, b) /\ b + 1 \in (b + 1)..(b + size)
    BY <1>1 DEF ParsedIs
  <2>2. TakenIs(taken, S, b + 1)
    BY <1>2, <1>7, <2>1, TakenSkips
  <2>3. CASE size = 2
    <3>1. b + 1 \in Nat /\ b + 1 + 1 = b + size /\ b + size \in (b + 1)..(b + size)
      BY <1>1, <2>3
    <3>2. b + 1 + 1 \notin Wanted(S)
      BY <1>7, <3>1
    <3>3. TakenIs(taken, S, b + 1 + 1)
      BY <2>2, <3>1, <3>2, TakenSkips
    <3> QED
      BY <3>1, <3>3
  <2>4. CASE size = 1
    BY <2>2, <2>4
  <2> QED
    BY <1>1, <2>3, <2>4
<1> QED
  BY <1>1, <1>2, <1>3, <1>5, <1>6, <1>8 DEF ParsedIs

(* A frame of the video that is wanted.                                    *)
LEMMA ParsedTakes ==
  ASSUME NEW S, StreamOK(S), NEW parser, NEW a \in 0..Len(S), NEW b, NEW taken, NEW codec,
         ParsedIs(S, parser, a, b, taken, codec), parser # <<>>,
         parser[1].of.kind = "video", codec # "none" \/ parser[1].of.key, 2 <= Len(parser),
         NEW known, known # "none"
  PROVE  /\ IsSeq(SubSeq(parser, 1, 2)) /\ Len(SubSeq(parser, 1, 2)) = 2
         /\ ParsedIs(S, SubSeq(parser, 3, Len(parser)), a, b + 2,
                     taken \o SubSeq(parser, 1, 2), known)
<1>1. /\ b \in 0..(Len(S) - 1) /\ Len(S) \in Nat
      /\ parser[1] = S[b + 1] /\ Len(parser) = a - b
      /\ b + 2 <= Len(S) /\ AtRecord(S, b + 2)
      /\ S[b + 2].of = S[b + 1].of
  <2>1. Size(parser[1].of.kind) = 2
    BY DEF Size
  <2> QED
    BY <2>1, AheadIs
<1>2. /\ IsSeq(S) /\ b \in Nat /\ a \in b..Len(S) /\ 2 \in 0..(a - b) /\ b + 2 \in 0..a
      /\ b + 2 \in b..Len(S) /\ b + 1 \in Nat /\ b + 2 \in Nat
  BY <1>1 DEF StreamOK
<1>3. /\ SubSeq(parser, 3, Len(parser)) = Stretch(S, b + 2, a)
      /\ SubSeq(parser, 1, 2) = Stretch(S, b, b + 2)
  <2>1. parser = Stretch(S, b, a)
    BY DEF ParsedIs
  <2>2. PICK c : c = 2
    OBVIOUS
  <2>5. IsSeq(S) /\ b \in Nat /\ a \in b..Len(S) /\ c \in 0..(a - b)
    BY <1>2, <2>2
  <2>3. /\ SubSeq(Stretch(S, b, a), c + 1, Len(Stretch(S, b, a))) = Stretch(S, b + c, a)
        /\ SubSeq(Stretch(S, b, a), 1, c) = Stretch(S, b, b + c)
    BY <2>5, StretchSplits, Zenon
  <2>4. c + 1 = 3
    BY <2>2
  <2> QED
    BY <2>1, <2>2, <2>3, <2>4
<1> DEFINE f == Stretch(S, b, b + 2)
<1>4. IsSeq(f) /\ Len(f) = 2 /\ f[1] = S[b + 1] /\ f[2] = S[b + 2]
  <2>1. PICK e : e = b + 2
    OBVIOUS
  <2>2. e \in b..Len(S) /\ e - b = 2
    BY <1>2, <2>1
  <2>3. /\ IsSeq(Stretch(S, b, e)) /\ Len(Stretch(S, b, e)) = e - b
        /\ \A i \in 1..(e - b) : Stretch(S, b, e)[i] = S[b + i]
    BY <1>2, <2>2, StretchIs
  <2>4. f = Stretch(S, b, e)
    BY <2>1
  <2> HIDE DEF f
  <2> QED
    BY <2>2, <2>3, <2>4
<1> HIDE DEF f
<1>5. \E k \in 1..(b + 1) : S[k].of.kind = "video" /\ S[k].of.key
  <2>1. CASE codec # "none"
    <3>1. ~NoKey(S, b)
      BY <2>1 DEF ParsedIs
    <3>2. \A k \in 1..b : k \in 1..(b + 1)
      BY <1>2
    <3> QED
      BY <3>1, <3>2 DEF NoKey
  <2>2. CASE parser[1].of.key
    BY <1>1, <1>2, <2>2
  <2> QED
    BY <2>1, <2>2
<1>6. b + 1 \in Wanted(S) /\ b + 2 \in Wanted(S) /\ ~NoKey(S, b + 2)
  <2>1. PICK k \in 1..(b + 1) : S[k].of.kind = "video" /\ S[k].of.key
    BY <1>5
  <2>2. k \in 1..(b + 2) /\ b + 1 \in 1..Len(S) /\ b + 2 \in 1..Len(S)
    BY <1>1, <1>2
  <2>3. b + 1 \in Wanted(S)
    BY <1>1, <2>1, <2>2, WantedIs
  <2>4. b + 2 \in Wanted(S)
    <3>1. S[b + 2].of.kind = "video"
      BY <1>1
    <3> QED
      BY <2>1, <2>2, <3>1, WantedIs
  <2> QED
    BY <2>1, <2>2, <2>3, <2>4 DEF NoKey
<1>7. TakenIs(taken \o f, S, b + 2)
  <2>1. TakenIs(taken, S, b) /\ IsSeq(taken)
    BY DEF ParsedIs, TakenIs
  <2> DEFINE t == Append(taken, S[b + 1])
             u == Append(t, S[b + 2])
  <2>2. TakenIs(t, S, b + 1)
    BY <1>2, <1>6, <2>1, TakenAdds
  <2>3. b + 1 + 1 = b + 2
    BY <1>2
  <2>4. TakenIs(u, S, b + 2)
    <3> HIDE DEF t
    <3>1. b + 1 + 1 \in Wanted(S)
      BY <1>6, <2>3
    <3>2. TakenIs(Append(t, S[b + 1 + 1]), S, b + 1 + 1)
      BY <1>2, <2>2, <3>1, TakenAdds
    <3> QED
      BY <2>3, <3>2
  <2>5. taken \o f = u
    <3>1. /\ IsSeq(t) /\ Len(taken) \in Nat /\ Len(t) = Len(taken) + 1
          /\ \A i \in 1..Len(taken) : t[i] = taken[i]
          /\ t[Len(taken) + 1] = S[b + 1]
      BY <2>1, AppendIs
    <3> HIDE DEF t
    <3>2. /\ IsSeq(u) /\ Len(u) = Len(t) + 1
          /\ \A i \in 1..Len(t) : u[i] = t[i]
          /\ u[Len(t) + 1] = S[b + 2]
      BY <3>1, AppendIs
    <3> HIDE DEF u
    <3>3. /\ IsSeq(taken \o f) /\ Len(taken \o f) = Len(taken) + Len(f)
          /\ \A i \in 1..(Len(taken) + Len(f)) :
               (taken \o f)[i] = IF i <= Len(taken) THEN taken[i] ELSE f[i - Len(taken)]
      BY <1>4, <2>1, ConcatIs
    <3>4. PICK n : n = Len(taken) /\ n \in Nat
      BY <3>1
    <3>5. ASSUME NEW i \in 1..(n + 2)
          PROVE  (taken \o f)[i] = u[i]
      <4>1. CASE i \in 1..n
        <5>1. i \in 1..Len(t) /\ i \in 1..(Len(taken) + Len(f)) /\ i <= Len(taken)
          BY <1>4, <3>1, <3>4, <4>1
        <5> QED
          BY <3>1, <3>2, <3>3, <3>4, <4>1, <5>1
      <4>2. CASE i = n + 1
        <5>1. i \in 1..Len(t) /\ i \in 1..(Len(taken) + Len(f))
             /\ ~(i <= Len(taken)) /\ i - Len(taken) = 1
          BY <1>4, <3>1, <3>4, <4>2
        <5>2. (taken \o f)[i] = f[1]
          BY <3>3, <5>1
        <5> QED
          BY <1>4, <3>1, <3>2, <3>4, <4>2, <5>1, <5>2
      <4>3. CASE i = n + 2
        <5>1. i = Len(t) + 1 /\ i \in 1..(Len(taken) + Len(f))
             /\ ~(i <= Len(taken)) /\ i - Len(taken) = 2
          BY <1>4, <3>1, <3>4, <4>3
        <5>2. (taken \o f)[i] = f[2]
          BY <3>3, <5>1
        <5> QED
          BY <1>4, <3>2, <5>1, <5>2
      <4>4. i \in 1..n \/ i = n + 1 \/ i = n + 2
        BY <3>4
      <4> QED
        BY <4>1, <4>2, <4>3, <4>4
    <3>6. Len(taken \o f) = n + 2 /\ Len(u) = n + 2
      BY <1>4, <3>1, <3>2, <3>3, <3>4
    <3> QED
      BY <3>2, <3>3, <3>5, <3>6, SameSequence
  <2> QED
    BY <2>4, <2>5
<1>8. ParsedIs(S, Stretch(S, b + 2, a), a, b + 2, taken \o f, known)
  BY <1>1, <1>2, <1>6, <1>7 DEF ParsedIs
<1> QED
  BY <1>3, <1>4, <1>8 DEF f

-----------------------------------------------------------------------------
(* The stream.                                                             *)

(* What the demuxer has got, and the frames it will get next.              *)
Row(fed, current, pending) == (fed \o current) \o Joined(pending)

LEMMA RowFirst ==
  ASSUME NEW pending, Frames(pending), NEW f, IsSeq(f), Len(f) = 2
  PROVE  Row(<<>>, <<>>, Append(pending, f)) = Row(<<>>, <<>>, pending) \o f
<1>1. /\ IsSeq(Joined(pending)) /\ IsSeq(<<>>)
      /\ Joined(Append(pending, f)) = Joined(pending) \o f
  BY JoinedIs, JoinedAppend, EmptyIs DEF Frames
<1>2. IsSeq(Joined(pending) \o f)
  BY <1>1, ConcatIs
<1>3. \A s : IsSeq(s) => (<<>> \o <<>>) \o s = s
  BY <1>1, ConcatIs
<1> QED
  BY <1>1, <1>2, <1>3 DEF Row

LEMMA RowNext ==
  ASSUME NEW fed, IsSeq(fed), NEW f, IsSeq(f)
  PROVE  Row(fed, f, <<>>) = Row(fed, <<>>, <<>>) \o f
<1>1. /\ Joined(<<>>) = <<>> /\ IsSeq(<<>>) /\ IsSeq(fed \o f)
  BY JoinedNone, EmptyIs, ConcatIs
<1>2. \A s : IsSeq(s) => s \o <<>> = s
  BY <1>1, ConcatIs
<1> QED
  BY <1>1, <1>2 DEF Row

LEMMA RowReads ==
  ASSUME NEW fed, IsSeq(fed), NEW pending, Frames(pending), pending # <<>>
  PROVE  Row(fed, Head(pending), Tail(pending)) = Row(fed, <<>>, pending)
<1> DEFINE h == Head(pending)
           j == Joined(Tail(pending))
<1>1. /\ IsSeq(h) /\ h \o j = Joined(pending) /\ IsSeq(Tail(pending))
  BY JoinedTail DEF Frames
<1>2. IsSeq(j)
  BY <1>1, JoinedIs
<1>3. fed \o <<>> = fed
  BY EmptyIs, ConcatIs
<1> HIDE DEF h, j
<1>4. (fed \o h) \o j = fed \o (h \o j)
  <2>1. IsSeq(fed) /\ IsSeq(h) /\ IsSeq(j)
    BY <1>1, <1>2
  <2>2. \A s, t : IsSeq(s) /\ IsSeq(t) => (fed \o s) \o t = fed \o (s \o t)
    BY ConcatThree
  <2> QED
    BY <2>1, <2>2, Zenon
<1>5. (fed \o h) \o j = fed \o Joined(pending)
  BY <1>1, <1>4
<1> QED
  BY <1>3, <1>5 DEF Row, h, j

LEMMA StretchAll ==
  ASSUME NEW S, IsSeq(S)
  PROVE  Stretch(S, 0, Len(S)) = S
<1>1. PICK a : a = 0
  OBVIOUS
<1>2. Len(S) \in Nat /\ a \in Nat /\ Len(S) \in a..Len(S) /\ Len(S) - a = Len(S)
  BY <1>1, EmptyIs
<1> DEFINE s == Stretch(S, a, Len(S))
<1>3. /\ IsSeq(s) /\ Len(s) = Len(S) - a
      /\ \A i \in 1..(Len(S) - a) : s[i] = S[a + i]
  BY <1>2, StretchIs, ZenonT(60)
<1> HIDE DEF s
<1>4. \A i \in 1..Len(s) : s[i] = S[i]
  BY <1>1, <1>2, <1>3
<1>5. s = S
  BY <1>2, <1>3, <1>4, SameSequence
<1> QED
  BY <1>1, <1>5 DEF s

LEMMA RowFeeds ==
  ASSUME NEW fed, IsSeq(fed), NEW current, IsSeq(current), NEW pending,
         NEW c \in 0..Len(current)
  PROVE  /\ Row(fed \o SubSeq(current, 1, c), SubSeq(current, c + 1, Len(current)), pending)
              = Row(fed, current, pending)
         /\ IsSeq(fed \o SubSeq(current, 1, c)) /\ IsSeq(SubSeq(current, c + 1, Len(current)))
<1> DEFINE x == SubSeq(current, 1, c)
           y == SubSeq(current, c + 1, Len(current))
<1>1. Len(current) \in Nat /\ c \in Nat
  BY EmptyIs
<1>2. x = Stretch(current, 0, c) /\ y = Stretch(current, c, Len(current))
  BY <1>1 DEF Stretch
<1>3. /\ IsSeq(x) /\ IsSeq(y)
      /\ x \o y = Stretch(current, 0, Len(current))
  <2>1. PICK a : a = 0
    OBVIOUS
  <2>2. /\ IsSeq(current) /\ a \in Nat /\ c \in a..Len(current) /\ c \in Nat
        /\ Len(current) \in c..Len(current)
    BY <1>1, <2>1
  <2>3. Stretch(current, a, c) \o Stretch(current, c, Len(current))
          = Stretch(current, a, Len(current))
    BY <2>2, StretchJoins
  <2>4. IsSeq(Stretch(current, a, c)) /\ IsSeq(Stretch(current, c, Len(current)))
    BY <2>2, StretchIs
  <2> QED
    BY <1>2, <2>1, <2>3, <2>4
<1>4. Stretch(current, 0, Len(current)) = current
  BY StretchAll
<1> HIDE DEF x, y
<1>5. (fed \o x) \o y = fed \o (x \o y)
  <2>1. IsSeq(fed) /\ IsSeq(x) /\ IsSeq(y)
    BY <1>3
  <2>2. \A s, t : IsSeq(s) /\ IsSeq(t) => (fed \o s) \o t = fed \o (s \o t)
    BY ConcatThree
  <2> QED
    BY <2>1, <2>2, Zenon
<1>6. IsSeq(fed \o x)
  BY <1>3, ConcatIs
<1>7. (fed \o x) \o y = fed \o current
  BY <1>3, <1>4, <1>5
<1> QED
  BY <1>3, <1>6, <1>7 DEF Row, x, y

Early == {"closed", "upgrade", "login"}

(* What the client holds in each of its phases.                            *)
PhaseOK ==
  /\ Frames(client.pending) /\ IsSeq(client.current) /\ IsSeq(story.fed)
  /\ client.pc \in Early => camera.request # "start" /\ ~camera.streaming
  /\ client.pc \in Early \union {"start"} =>
       /\ client.parser = <<>> /\ client.pending = <<>> /\ client.current = <<>>
       /\ story.fed = <<>> /\ client.codec = "none"
  /\ client.pc = "collect" => story.fed = <<>> /\ client.current = <<>>
  /\ client.pc = "reading" => client.current = <<>> /\ client.pending = <<>>
  /\ client.pc \in {"open", "reading"} => client.codec # "none"

(* The packets on their way carry the stream from a to e, the camera has   *)
(* the rest.                                                               *)
Transit(P, a, e) ==
  /\ HalvesAre(P)
  /\ Cargo(story.stream, P, a, e)
  /\ Declared(P, client.binary, camera.begun)
  /\ camera.alive => camera.rest = Stretch(story.stream, e, Len(story.stream))
  /\ client.pc \in Early => \A k \in 1..Len(P) : P[k].id # "video"

(* The parser has it from b to a, the demuxer what is wanted of it up to b.*)
ParserOK(a, b) ==
  ParsedIs(story.stream, client.parser, a, b,
           Row(story.fed, client.current, client.pending), client.codec)

Sound ==
  /\ StreamOK(story.stream)
  /\ PhaseOK
  /\ \E P, a, e, b : Transit(P, a, e) /\ ParserOK(a, b)

(* A connection begins, or there is none.                                  *)
Begins ==
  /\ StreamOK(story.stream) /\ story.fed = <<>>
  /\ client.wire = <<>> /\ air = <<>> /\ client.parser = <<>> /\ client.pending = <<>>
  /\ client.current = <<>> /\ client.codec = "none" /\ client.pc \in Early
  /\ camera.request # "start" /\ ~camera.streaming /\ camera.begun = FALSE
  /\ camera.alive => camera.rest = story.stream

LEMMA BeginsIs == Begins => Sound
<1> SUFFICES ASSUME Begins
             PROVE  Sound
  OBVIOUS
<1>1. IsSeq(<<>>) /\ Len(<<>>) = 0 /\ Frames(<<>>)
  BY EmptyIs, JoinedNone
<1>2. PhaseOK
  BY <1>1 DEF Begins, PhaseOK, Early
<1> DEFINE S == story.stream
<1>3. StreamOK(S) /\ IsSeq(S) /\ Len(S) \in Nat
  BY EmptyIs DEF Begins, StreamOK
<1>4. HalvesAre(<<>>)
  <2>1. <<>> \o <<>> = <<>>
    BY <1>1, ConcatIs
  <2>2. IsSeq(Halved(<<>>)) /\ Len(Halved(<<>>)) = 0
    BY <1>1, HalvedIs
  <2>3. Halved(<<>>) = <<>>
    BY <2>2, EmptyIs
  <2> QED
    BY <1>1, <2>1, <2>3 DEF Begins, HalvesAre, Halves
<1>5. Transit(<<>>, 0, 0)
  <2>1. Cargo(S, <<>>, 0, 0)
    BY <1>3, CargoNone
  <2>2. Declared(<<>>, client.binary, camera.begun)
    BY DeclaredNone DEF Begins
  <2>3. camera.alive => camera.rest = Stretch(S, 0, Len(S))
    BY <1>3, StretchAll DEF Begins
  <2> QED
    BY <1>1, <1>4, <2>1, <2>2, <2>3 DEF Transit
<1>6. ParserOK(0, 0)
  <2>1. Stretch(S, 0, 0) = <<>>
    BY <1>3, StretchIs
  <2>2. AtRecord(S, 0)
    <3>1. SUFFICES ASSUME 0 # Len(S)
                   PROVE  S[1].part = 1
      BY DEF AtRecord
    <3>2. 1 \in 1..Len(S)
      BY <1>3, <3>1
    <3>3. S[1].part \in 1..2 /\ (S[1].part = 2 => 1 > 1)
      BY <1>3, <3>2 DEF StreamOK
    <3> QED
      BY <3>3
  <2>3. Row(<<>>, <<>>, <<>>) = <<>>
    BY <1>1, JoinedNone, ConcatIs DEF Row
  <2>4. TakenIs(<<>>, S, 0)
    BY <1>3, TakenNone
  <2>5. NoKey(S, 0)
    BY DEF NoKey
  <2>6. ParsedIs(S, <<>>, 0, 0, <<>>, "none")
    BY <2>1, <2>2, <2>4, <2>5 DEF ParsedIs
  <2> QED
    BY <2>3, <2>6 DEF ParserOK, Begins
<1> QED
  BY <1>2, <1>3, <1>5, <1>6 DEF Sound

LEMMA SoundInit == Init => Sound
<1>1. Init => Begins
  BY NoStream DEF Init, Begins, ClosedClient, NoCamera, NoStory, Early
<1> QED
  BY <1>1, BeginsIs

LEMMA SoundClosed == Close => Sound'
<1>1. Close => Begins'
  BY NoStream DEF Close, Begins, ClosedClient, NoCamera, NoStory, Early
<1> QED
  BY <1>1, BeginsIs, PTL

LEMMA SoundOpen ==
  ASSUME NEW goal \in {"stream", "probe"}, Records, ClosedOK, Open(goal)
  PROVE  Sound'
<1>1. PICK stream \in IF goal = "stream" THEN Streams ELSE {<<>>} :
        /\ camera' = [NoCamera EXCEPT !.alive = TRUE, !.request = "upgrade",
                                      !.rest = Cut(stream, used.sessions)]
        /\ story' = [NoStory EXCEPT !.stream = Cut(stream, used.sessions)]
  BY DEF Open
<1>2. WellCut(stream)
  <2>1. WellCut(<<>>)
    BY DEF WellCut
  <2> QED
    BY <2>1, BaichuanAssumption
<1>3. StreamOK(Cut(stream, used.sessions))
  BY <1>2, CutIs
<1>4. client' = [ClosedClient EXCEPT !.pc = "upgrade", !.goal = goal] /\ air' = <<>>
  BY DEF Open, ClosedOK
<1>5. Begins'
  BY <1>1, <1>3, <1>4 DEF Begins, ClosedClient, NoCamera, NoStory, Early
<1> QED
  BY <1>5, BeginsIs, PTL

(* What a step leaves alone.                                               *)
SameCamera ==
  /\ camera'.begun => camera.begun
  /\ camera'.alive => camera.alive /\ camera'.rest = camera.rest
SameParser ==
  /\ client'.parser = client.parser /\ client'.pending = client.pending
  /\ client'.current = client.current /\ client'.codec = client.codec
  /\ story'.stream = story.stream /\ story'.fed = story.fed
LaterPhase == client'.pc \in Early => client.pc \in Early

LEMMA ParserSame ==
  ASSUME NEW a, NEW b, ParserOK(a, b), SameParser
  PROVE  ParserOK(a, b)'
BY DEF ParserOK, SameParser

LEMMA TransitSame ==
  ASSUME NEW P, NEW a, NEW e, Transit(P, a, e), HalvesAre(P)',
         story'.stream = story.stream, client'.binary = client.binary, SameCamera, LaterPhase
  PROVE  Transit(P, a, e)'
<1>1. Declared(P, client'.binary, camera'.begun)
  BY DEF Transit, Declared, SameCamera
<1> QED
  BY <1>1 DEF Transit, SameCamera, LaterPhase

LEMMA TransitSends ==
  ASSUME NEW P, NEW a, NEW e, Transit(P, a, e), StreamOK(story.stream),
         NEW p, NEW f \in e..Len(story.stream),
         client' = client, air' = air \o InHalves(p), story'.stream = story.stream,
         IF p.id = "video" THEN p.body = Stretch(story.stream, e, f) ELSE f = e,
         p.id = "video" => /\ client.pc \notin Early
                           /\ \/ p.extension = "text" /\ p.body = <<>>
                              \/ p.extension = "binary"
                              \/ p.extension = "none" /\ camera.begun,
         camera'.begun => camera.begun \/ Says(p),
         camera'.alive => camera'.rest = Stretch(story.stream, f, Len(story.stream))
  PROVE  Transit(Append(P, p), a, f)'
<1>1. IsSeq(P) /\ IsSeq(story.stream)
  BY DEF Transit, HalvesAre, StreamOK
<1>2. HalvesAre(Append(P, p))'
  BY HalvesSent DEF Transit
<1>3. Cargo(story.stream, Append(P, p), a, f)
  BY <1>1, CargoSends DEF Transit
<1>4. Declared(Append(P, p), client.binary, camera'.begun)
  BY <1>1, DeclaredSends DEF Transit
<1>5. ASSUME client.pc \in Early
      PROVE  \A k \in 1..Len(Append(P, p)) : Append(P, p)[k].id # "video"
  <2> DEFINE Q == Append(P, p)
  <2>1. /\ Len(P) \in Nat /\ Len(Q) = Len(P) + 1
        /\ \A k \in 1..Len(P) : Q[k] = P[k]
        /\ Q[Len(P) + 1] = p
    BY <1>1, AppendIs
  <2> HIDE DEF Q
  <2>2. p.id # "video" /\ \A k \in 1..Len(P) : P[k].id # "video"
    BY <1>5 DEF Transit
  <2>3. \A k \in 1..Len(Q) : k \in 1..Len(P) \/ k = Len(P) + 1
    BY <2>1
  <2>4. \A k \in 1..Len(Q) : Q[k].id # "video"
    BY <2>1, <2>2, <2>3
  <2> QED
    BY <2>4 DEF Q
<1> QED
  BY <1>2, <1>3, <1>4, <1>5 DEF Transit

LEMMA TransitTakes ==
  ASSUME NEW P, NEW a, NEW e, Transit(P, a, e), StreamOK(story.stream),
         Len(client.wire) >= 2, client'.wire = Rest, air' = air,
         story'.stream = story.stream, SameCamera, LaterPhase,
         client.binary \/ Says(First) => client'.binary
  PROVE  /\ \E d \in a..e :
              /\ Transit(Tail(P), d, e)'
              /\ IF First.id = "video" THEN First.body = Stretch(story.stream, a, d) ELSE d = a
         /\ First.id = "video" => /\ client.pc \notin Early
                                  /\ \/ First.extension = "text" /\ First.body = <<>>
                                     \/ First.extension = "binary"
                                     \/ First.extension = "none" /\ client.binary
<1>1. IsSeq(P) /\ IsSeq(story.stream)
  BY DEF Transit, HalvesAre, StreamOK
<1>2. P # <<>> /\ First = P[1] /\ HalvesAre(Tail(P))'
  BY HalvesTaken DEF Transit
<1>3. PICK d \in a..e :
        /\ Cargo(story.stream, Tail(P), d, e)
        /\ IF P[1].id = "video" THEN P[1].body = Stretch(story.stream, a, d) ELSE d = a
  BY <1>1, <1>2, CargoTakes DEF Transit
<1>4. /\ Declared(Tail(P), client'.binary, camera.begun)
      /\ P[1].id = "video" => \/ P[1].extension = "text" /\ P[1].body = <<>>
                              \/ P[1].extension = "binary"
                              \/ P[1].extension = "none" /\ client.binary
  BY <1>1, <1>2, DeclaredTakes DEF Transit
<1>5. Declared(Tail(P), client'.binary, camera'.begun)
  BY <1>4 DEF Declared, SameCamera
<1>6. ASSUME client.pc \in Early
      PROVE  P[1].id # "video" /\ \A k \in 1..Len(Tail(P)) : Tail(P)[k].id # "video"
  <2> DEFINE Q == Tail(P)
  <2>1. /\ Len(P) \in Nat \ {0} /\ Len(Q) = Len(P) - 1
        /\ \A k \in 1..(Len(P) - 1) : Q[k] = P[k + 1]
    BY <1>1, <1>2, TailIs
  <2> HIDE DEF Q
  <2>2. \A k \in 1..Len(P) : P[k].id # "video"
    BY <1>6 DEF Transit
  <2>3. 1 \in 1..Len(P) /\ \A k \in 1..Len(Q) : k \in 1..(Len(P) - 1) /\ k + 1 \in 1..Len(P)
    BY <2>1
  <2>4. P[1].id # "video" /\ \A k \in 1..Len(Q) : Q[k].id # "video"
    BY <2>1, <2>2, <2>3
  <2> QED
    BY <2>4 DEF Q
<1>7. Transit(Tail(P), d, e)'
  BY <1>2, <1>3, <1>5, <1>6 DEF Transit, SameCamera, LaterPhase
<1> QED
  BY <1>2, <1>3, <1>4, <1>6, <1>7

(* What the camera has not sent.                                           *)
LEMMA RestIs ==
  ASSUME NEW P, NEW a, NEW e, Transit(P, a, e), StreamOK(story.stream), camera.alive
  PROVE  LET S == story.stream
         IN /\ IsSeq(S) /\ e \in Nat /\ Len(S) \in e..Len(S) /\ Len(S) \in Nat
            /\ IsSeq(camera.rest) /\ Len(camera.rest) = Len(S) - e
            /\ \A c \in 0..(Len(S) - e) :
                 /\ SubSeq(camera.rest, 1, c) = Stretch(S, e, e + c)
                 /\ SubSeq(camera.rest, c + 1, Len(camera.rest)) = Stretch(S, e + c, Len(S))
<1> DEFINE S == story.stream
           r == Stretch(S, e, Len(S))
<1>1. IsSeq(S) /\ Len(S) \in Nat /\ e \in Nat /\ Len(S) \in e..Len(S)
  <2>1. a \in Nat /\ e \in a..Len(S)
    BY DEF Transit, Cargo
  <2>2. IsSeq(S) /\ Len(S) \in Nat
    BY EmptyIs DEF StreamOK
  <2> QED
    BY <2>1, <2>2
<1>2. camera.rest = r
  BY DEF Transit
<1> HIDE DEF S
<1>3. IsSeq(r) /\ Len(r) = Len(S) - e
  BY <1>1, StretchIs
<1>4. \A c \in 0..(Len(S) - e) :
        /\ SubSeq(r, 1, c) = Stretch(S, e, e + c)
        /\ SubSeq(r, c + 1, Len(r)) = Stretch(S, e + c, Len(S))
  BY <1>1, StretchSplits, ZenonT(60)
<1> HIDE DEF r
<1> QED
  BY <1>1, <1>2, <1>3, <1>4 DEF S

(* The camera sends some of its stream, or a packet without any.           *)
LEMMA CameraSends ==
  ASSUME NEW P, NEW a, NEW e, Transit(P, a, e), StreamOK(story.stream), camera.alive,
         NEW c \in 0..Len(camera.rest), NEW id, NEW ok, NEW extension,
         client' = client, story'.stream = story.stream,
         air' = air \o InHalves(Packet(id, ok, extension, SubSeq(camera.rest, 1, c))),
         id # "video" => c = 0,
         id = "video" => /\ client.pc \notin Early
                         /\ \/ extension = "text" /\ c = 0
                            \/ extension = "binary"
                            \/ extension = "none" /\ camera.begun,
         camera'.begun => camera.begun \/ (id = "video" /\ extension = "binary"),
         camera'.alive => camera'.rest = SubSeq(camera.rest, c + 1, Len(camera.rest))
  PROVE  \E Q, f : Transit(Q, a, f)'
<1> DEFINE S == story.stream
           p == Packet(id, ok, extension, SubSeq(camera.rest, 1, c))
<1>1. /\ IsSeq(S) /\ Len(S) \in Nat /\ e \in Nat /\ Len(S) \in e..Len(S) /\ e \in e..Len(S)
      /\ Len(camera.rest) = Len(S) - e
      /\ \A i \in 0..(Len(S) - e) :
           /\ SubSeq(camera.rest, 1, i) = Stretch(S, e, e + i)
           /\ SubSeq(camera.rest, i + 1, Len(camera.rest)) = Stretch(S, e + i, Len(S))
  BY RestIs
<1> HIDE DEF S
<1>2. Stretch(S, e, e) = <<>>
  BY <1>1, StretchIs
<1>3. c \in 0..(Len(S) - e)
  BY <1>1
<1>4. PICK f : f = e + c
  OBVIOUS
<1>5. f \in e..Len(S) /\ (c = 0 => f = e)
  BY <1>1, <1>3, <1>4
<1>6. /\ SubSeq(camera.rest, 1, c) = Stretch(S, e, f)
      /\ SubSeq(camera.rest, c + 1, Len(camera.rest)) = Stretch(S, f, Len(S))
  BY <1>1, <1>3, <1>4
<1>7. c = 0 => SubSeq(camera.rest, 1, c) = <<>>
  BY <1>2, <1>5, <1>6
<1>8. p.id = id /\ p.extension = extension /\ p.body = SubSeq(camera.rest, 1, c)
  BY DEF Packet
<1>9. PICK q : q = p
  OBVIOUS
<1>10. Transit(Append(P, q), a, f)'
  <2> HIDE DEF p
  <2>1. IF q.id = "video" THEN q.body = Stretch(S, e, f) ELSE f = e
    BY <1>5, <1>6, <1>8, <1>9
  <2>2. q.id = "video" => /\ client.pc \notin Early
                          /\ \/ q.extension = "text" /\ q.body = <<>>
                             \/ q.extension = "binary"
                             \/ q.extension = "none" /\ camera.begun
    BY <1>7, <1>8, <1>9
  <2>3. camera'.begun => camera.begun \/ Says(q)
    BY <1>8, <1>9 DEF Says
  <2>4. camera'.alive => camera'.rest = Stretch(S, f, Len(S))
    BY <1>6
  <2>5. air' = air \o InHalves(q)
    BY <1>9 DEF p
  <2> QED
    BY <1>5, <2>1, <2>2, <2>3, <2>4, <2>5, TransitSends DEF S
<1> QED
  BY <1>10

LEMMA SoundAnswer ==
  ASSUME Records, Sound, Answer
  PROVE  Sound'
<1>1. PICK P, a, e, b : Transit(P, a, e) /\ ParserOK(a, b)
  BY DEF Sound
<1>2. StreamOK(story.stream) /\ PhaseOK /\ client' = client /\ story' = story
  BY DEF Sound, Answer
<1> DEFINE Choice(ok) == {<<"text", 0>>}
                        \union (IF ok /\ camera.request = "start"
                                THEN Extensions \X (1..Len(camera.rest)) ELSE {})
           Sends(ok, m) ==
             /\ air' = air \o InHalves(Packet(IF camera.request = "start" THEN "video" ELSE "login",
                                              ok, m[1], SubSeq(camera.rest, 1, m[2])))
             /\ camera' = [camera EXCEPT
                  !.request = "none", !.streaming = ok /\ camera.request = "start",
                  !.begun = @ \/ m[2] > 0, !.rest = SubSeq(@, m[2] + 1, Len(@))]
<1>0. PICK ok \in BOOLEAN : \E m \in Choice(ok) : Sends(ok, m)
  BY DEF Answer
<1>3. PICK m \in Choice(ok) : Sends(ok, m)
  BY <1>0
<1>4. PICK id : id = IF camera.request = "start" THEN "video" ELSE "login"
  OBVIOUS
<1>5. PICK extension, c : extension = m[1] /\ c = m[2]
  OBVIOUS
<1>6. camera.alive /\ Len(camera.rest) \in Nat
  <2>1. camera.alive
    BY DEF Answer, MaySend
  <2>2. IsSeq(camera.rest)
    BY <1>1, <1>2, <2>1, RestIs
  <2> QED
    BY <2>1, <2>2, EmptyIs
<1>7. /\ c \in 0..Len(camera.rest)
      /\ c # 0 => id = "video" /\ extension \in Extensions
      /\ c = 0 => extension = "text"
  BY <1>3, <1>4, <1>5, <1>6
<1>8. /\ camera'.begun => camera.begun \/ c > 0
      /\ camera'.rest = SubSeq(camera.rest, c + 1, Len(camera.rest))
      /\ camera'.request = "none"
      /\ camera'.streaming => camera.request = "start"
  BY <1>3, <1>5 DEF Records
<1>9. c # 0 => extension = "binary" \/ (extension = "none" /\ camera.begun)
  BY <1>7 DEF Extensions
<1>10. id = "video" => client.pc \notin Early
  BY <1>2, <1>4 DEF PhaseOK
<1>11. \E Q, f : Transit(Q, a, f)'
  <2>1. air' = air \o InHalves(Packet(id, ok, extension, SubSeq(camera.rest, 1, c)))
    BY <1>3, <1>4, <1>5
  <2>2. id # "video" => c = 0
    BY <1>7
  <2>3. id = "video" => /\ client.pc \notin Early
                        /\ \/ extension = "text" /\ c = 0
                           \/ extension = "binary"
                           \/ extension = "none" /\ camera.begun
    BY <1>7, <1>9, <1>10
  <2>4. camera'.begun => camera.begun \/ (id = "video" /\ extension = "binary")
    BY <1>7, <1>8, <1>9
  <2> QED
    BY <1>1, <1>2, <1>6, <1>7, <1>8, <2>1, <2>2, <2>3, <2>4, CameraSends
<1>12. ParserOK(a, b)'
  BY <1>1, <1>2, ParserSame DEF SameParser
<1>13. PhaseOK'
  BY <1>2, <1>8 DEF PhaseOK
<1> QED
  BY <1>2, <1>11, <1>12, <1>13 DEF Sound

LEMMA SoundSends ==
  ASSUME Records, Sound, NEW count \in 1..3, SendMedia(count)
  PROVE  Sound'
<1>1. PICK P, a, e, b : Transit(P, a, e) /\ ParserOK(a, b)
  BY DEF Sound
<1>2. /\ StreamOK(story.stream) /\ PhaseOK /\ client' = client /\ story' = story
      /\ camera.alive /\ camera.streaming /\ count \in 0..Len(camera.rest)
  <2>1. /\ StreamOK(story.stream) /\ PhaseOK /\ client' = client /\ story' = story
        /\ camera.alive /\ camera.streaming /\ count <= Len(camera.rest)
    BY DEF Sound, SendMedia, MaySend
  <2>2. IsSeq(camera.rest)
    BY <1>1, <2>1, RestIs
  <2>3. Len(camera.rest) \in Nat
    BY <2>2, EmptyIs
  <2> QED
    BY <2>1, <2>3
<1>3. PICK extension \in Extensions :
        air' = air \o InHalves(Packet("video", TRUE, extension, SubSeq(camera.rest, 1, count)))
  BY DEF SendMedia
<1>4. /\ camera'.rest = SubSeq(camera.rest, count + 1, Len(camera.rest))
      /\ camera'.request = camera.request /\ camera'.streaming = camera.streaming
  BY DEF SendMedia, Records
<1>5. extension = "binary" \/ (extension = "none" /\ camera.begun)
  BY DEF Extensions
<1>6. client.pc \notin Early
  BY <1>2 DEF PhaseOK
<1>7. \E Q, f : Transit(Q, a, f)'
  <2>1. camera'.begun => camera.begun \/ extension = "binary"
    BY <1>5
  <2> QED
    BY <1>1, <1>2, <1>3, <1>4, <1>5, <1>6, <2>1, CameraSends
<1>8. ParserOK(a, b)'
  BY <1>1, <1>2, ParserSame DEF SameParser
<1>9. PhaseOK'
  BY <1>2, <1>4 DEF PhaseOK
<1> QED
  BY <1>2, <1>7, <1>8, <1>9 DEF Sound

(* A packet without any of the stream.                                     *)
LEMMA SoundOther ==
  ASSUME Records, Sound, NEW p, air' = air \o InHalves(p), client' = client,
         camera' = camera, story'.stream = story.stream, story'.fed = story.fed,
         p.id = "video" => /\ client.pc \notin Early
                           /\ p.extension = "text" /\ p.body = <<>>
  PROVE  Sound'
<1>1. PICK P, a, e, b : Transit(P, a, e) /\ ParserOK(a, b)
  BY DEF Sound
<1>2. StreamOK(story.stream) /\ PhaseOK
  BY DEF Sound
<1>3. /\ e \in e..Len(story.stream) /\ Stretch(story.stream, e, e) = <<>>
  <2>1. a \in Nat /\ e \in a..Len(story.stream) /\ IsSeq(story.stream) /\ Len(story.stream) \in Nat
    BY <1>1, <1>2, EmptyIs DEF Transit, Cargo, StreamOK
  <2>2. e \in Nat /\ e \in e..Len(story.stream)
    BY <2>1
  <2> QED
    BY <2>1, <2>2, StretchIs
<1>4. IF p.id = "video" THEN p.body = Stretch(story.stream, e, e) ELSE e = e
  BY <1>3
<1>5. camera.alive => camera.rest = Stretch(story.stream, e, Len(story.stream))
  BY <1>1 DEF Transit
<1>6. Transit(Append(P, p), a, e)'
  BY <1>1, <1>2, <1>3, <1>4, <1>5, TransitSends
<1>7. ParserOK(a, b)'
  BY <1>1, ParserSame DEF SameParser
<1>8. PhaseOK'
  BY <1>2 DEF PhaseOK
<1> QED
  BY <1>2, <1>6, <1>7, <1>8 DEF Sound

(* The packets move or stay, and the rest does not notice.                 *)
LEMMA SoundSame ==
  ASSUME Sound, \A P : HalvesAre(P) => HalvesAre(P)', SameParser, SameCamera, LaterPhase,
         client'.binary = client.binary, PhaseOK'
  PROVE  Sound'
<1>1. PICK P, a, e, b : Transit(P, a, e) /\ ParserOK(a, b)
  BY DEF Sound
<1>2. Transit(P, a, e)'
  <2>1. HalvesAre(P)'
    BY <1>1 DEF Transit
  <2> QED
    BY <1>1, <2>1, TransitSame DEF SameParser
<1>3. ParserOK(a, b)'
  BY <1>1, ParserSame
<1> QED
  BY <1>2, <1>3 DEF Sound, SameParser

(* A packet that brings nothing of the stream is dropped.                  *)
LEMMA SoundDrops ==
  ASSUME Sound, HasPacket, First.id # "video", client'.wire = Rest, air' = air,
         SameParser, SameCamera, LaterPhase, client'.binary = client.binary, PhaseOK'
  PROVE  Sound'
<1>1. PICK P, a, e, b : Transit(P, a, e) /\ ParserOK(a, b)
  BY DEF Sound
<1>2. StreamOK(story.stream) /\ Len(client.wire) >= 2 /\ story'.stream = story.stream
  BY DEF Sound, HasPacket, SameParser
<1>3. client.binary \/ Says(First) => client'.binary
  BY DEF Says
<1>4. PICK d \in a..e :
        /\ Transit(Tail(P), d, e)'
        /\ IF First.id = "video" THEN First.body = Stretch(story.stream, a, d) ELSE d = a
  BY <1>1, <1>2, <1>3, TransitTakes
<1>5. Transit(Tail(P), a, e)'
  BY <1>4
<1>6. ParserOK(a, b)'
  BY <1>1, ParserSame
<1> QED
  BY <1>2, <1>5, <1>6 DEF Sound

(* A packet of the stream goes to the parser.                              *)
LEMMA SoundAppends ==
  ASSUME Records, Sound, HasPacket, First.id = "video",
         NEW pc, pc \notin Early, client' = [Appended(First) EXCEPT !.pc = pc],
         UNCHANGED <<camera, air, story>>, PhaseOK'
  PROVE  Sound'
<1>1. PICK P, a, e, b : Transit(P, a, e) /\ ParserOK(a, b)
  BY DEF Sound
<1>2. StreamOK(story.stream) /\ Len(client.wire) >= 2 /\ story'.stream = story.stream
  BY DEF Sound, HasPacket
<1>3. /\ client'.wire = Rest /\ client'.pc = pc
      /\ client'.binary = (client.binary \/ First.extension = "binary")
      /\ client'.parser = IF IsBinary(First) THEN client.parser \o First.body ELSE client.parser
      /\ client'.pending = client.pending /\ client'.current = client.current
      /\ client'.codec = client.codec
  BY DEF Appended, Records
<1>4. client.binary \/ Says(First) => client'.binary
  BY <1>3 DEF Says
<1>5. SameCamera /\ LaterPhase
  BY <1>3 DEF SameCamera, LaterPhase
<1>6. /\ \E d \in a..e :
           /\ Transit(Tail(P), d, e)'
           /\ IF First.id = "video" THEN First.body = Stretch(story.stream, a, d) ELSE d = a
      /\ First.id = "video" => /\ client.pc \notin Early
                               /\ \/ First.extension = "text" /\ First.body = <<>>
                                  \/ First.extension = "binary"
                                  \/ First.extension = "none" /\ client.binary
  BY <1>1, <1>2, <1>3, <1>4, <1>5, TransitTakes
<1>7. PICK d \in a..e : Transit(Tail(P), d, e)' /\ First.body = Stretch(story.stream, a, d)
  BY <1>6
<1> DEFINE S == story.stream
           t == Row(story.fed, client.current, client.pending)
<1>8. /\ IsSeq(S) /\ a \in Nat /\ d \in a..Len(S)
  <2>1. a \in Nat /\ e \in a..Len(S)
    BY <1>1 DEF Transit, Cargo
  <2>2. IsSeq(S) /\ Len(S) \in Nat
    BY <1>2, EmptyIs DEF StreamOK
  <2> QED
    BY <2>1, <2>2
<1>9. ParsedIs(S, client.parser, a, b, t, client.codec)
  BY <1>1 DEF ParserOK
<1>10. ParsedIs(S, client.parser \o First.body, d, b, t, client.codec)
  <2> HIDE DEF S, t
  <2>1. ParsedIs(S, client.parser \o Stretch(S, a, d), d, b, t, client.codec)
    BY <1>8, <1>9, ParsedGrows
  <2>2. First.body = Stretch(S, a, d)
    BY <1>7 DEF S
  <2> QED
    BY <2>1, <2>2
<1>11. ParsedIs(S, client'.parser, d, b, t, client.codec)
  <2>1. CASE IsBinary(First)
    BY <1>3, <1>10, <2>1
  <2>2. CASE ~IsBinary(First)
    <3>1. First.body = <<>>
      BY <1>6, <2>2 DEF IsBinary
    <3>2. d = a
      <4>1. Stretch(S, a, d) = <<>> <=> a = d
        BY <1>8, StretchIs
      <4> QED
        BY <1>7, <3>1, <4>1
    <3> QED
      BY <1>3, <1>9, <2>2, <3>2
  <2> QED
    BY <2>1, <2>2
<1>12. ParserOK(d, b)'
  BY <1>3, <1>11 DEF ParserOK
<1> QED
  BY <1>2, <1>7, <1>12 DEF Sound

(* The parser goes on behind a record.                                     *)
LEMMA SoundParses ==
  ASSUME Sound, NEW P, NEW a, NEW e, NEW b, Transit(P, a, e), Quiet, UNCHANGED camera,
         story'.stream = story.stream, client'.binary = client.binary, LaterPhase, PhaseOK',
         ParsedIs(story.stream, client'.parser, a, b,
                  Row(story'.fed, client'.current, client'.pending), client'.codec)
  PROVE  Sound'
<1>1. Transit(P, a, e)'
  <2>1. HalvesAre(P)'
    BY HalvesQuiet DEF Transit
  <2>2. SameCamera
    BY DEF SameCamera
  <2> QED
    BY <2>1, <2>2, TransitSame
<1>2. ParserOK(a, b)'
  BY DEF ParserOK
<1>3. StreamOK(story.stream)'
  BY DEF Sound
<1> QED
  BY <1>1, <1>2, <1>3 DEF Sound

(* What the parser's buffer begins with.                                   *)
LEMMA RecordIs ==
  ASSUME Sound, NEW P, NEW a, NEW e, NEW b, Transit(P, a, e), ParserOK(a, b),
         client.parser # <<>>
  PROVE  /\ a \in 0..Len(story.stream)
         /\ Ahead.part = 1 /\ Ahead.of \in RecordType
         /\ Size(Kind) \in 1..2 /\ Len(client.parser) \in Nat \ {0}
         /\ Kind = "video" => Size(Kind) = 2
<1> DEFINE S == story.stream
           t == Row(story.fed, client.current, client.pending)
<1>1. StreamOK(S) /\ ParsedIs(S, client.parser, a, b, t, client.codec)
  BY DEF Sound, ParserOK
<1>2. a \in 0..Len(S)
  <2>1. a \in Nat /\ e \in a..Len(S)
    BY DEF Transit, Cargo
  <2>2. IsSeq(S) /\ Len(S) \in Nat
    BY <1>1, EmptyIs DEF StreamOK
  <2> QED
    BY <2>1, <2>2
<1>3. IsSeq(client.parser)
  <2>1. b \in Nat /\ a \in b..Len(S) /\ IsSeq(S)
    BY <1>1, <1>2 DEF ParsedIs, StreamOK
  <2>2. IsSeq(Stretch(S, b, a))
    BY <2>1, StretchIs
  <2> QED
    BY <1>1, <2>2 DEF ParsedIs
<1> HIDE DEF S, t
<1>4. client.parser[1].part = 1 /\ client.parser[1].of \in RecordType
  BY <1>1, <1>2, AheadIs
<1>5. Len(client.parser) \in Nat \ {0}
  BY <1>3, EmptyIs
<1> QED
  BY <1>2, <1>4, <1>5 DEF Ahead, Kind, Size, S

(* A record of which nothing is wanted.                                    *)
LEMMA SoundSkips ==
  ASSUME Records, Sound, client.parser # <<>>, Size(Kind) <= Len(client.parser),
         Kind # "video" \/ (client.codec = "none" /\ ~Ahead.of.key),
         client' = [client EXCEPT !.parser = Behind(Size(Kind))],
         UNCHANGED <<camera, air, used, story>>
  PROVE  Sound'
<1>1. PICK P, a, e, b : Transit(P, a, e) /\ ParserOK(a, b)
  BY DEF Sound
<1>2. /\ client'.parser = SubSeq(client.parser, Size(Kind) + 1, Len(client.parser))
      /\ client'.pending = client.pending /\ client'.current = client.current
      /\ client'.codec = client.codec /\ client'.binary = client.binary
      /\ client'.wire = client.wire /\ client'.pc = client.pc
  BY DEF Behind, Records
<1> DEFINE S == story.stream
           t == Row(story.fed, client.current, client.pending)
           size == Size(Kind)
<1>3. StreamOK(S) /\ ParsedIs(S, client.parser, a, b, t, client.codec) /\ a \in 0..Len(S)
  BY <1>1, RecordIs DEF Sound, ParserOK
<1>4. size = Size(client.parser[1].of.kind) /\ size <= Len(client.parser)
  BY DEF Kind, Ahead
<1>5. client.parser[1].of.kind # "video" \/ (client.codec = "none" /\ ~client.parser[1].of.key)
  BY DEF Kind, Ahead
<1> HIDE DEF S, t, size
<1>6. ParsedIs(S, SubSeq(client.parser, size + 1, Len(client.parser)), a, b + size, t, client.codec)
  BY <1>3, <1>4, <1>5, ParsedSkips
<1>7. ParsedIs(story.stream, client'.parser, a, b + size,
               Row(story'.fed, client'.current, client'.pending), client'.codec)
  BY <1>2, <1>6 DEF S, t, size
<1>8. PhaseOK'
  <2>1. client.pc \notin Early \union {"start"}
    BY DEF Sound, PhaseOK
  <2> QED
    BY <1>2, <2>1 DEF Sound, PhaseOK
<1> QED
  BY <1>1, <1>2, <1>7, <1>8, SoundParses DEF Quiet, LaterPhase

LEMMA SoundSteps ==
  ASSUME Records, Sound, StepOver
  PROVE  Sound'
<1>1. client.parser # <<>> /\ (Ahead.part = 2 \/ Kind = "noise" \/ (Kind = "audio" /\ Complete))
  BY DEF StepOver, GoesOn
<1>2. PICK P, a, e, b : Transit(P, a, e) /\ ParserOK(a, b)
  BY DEF Sound
<1>3. Ahead.part = 1 /\ Len(client.parser) \in Nat \ {0}
  BY <1>1, <1>2, RecordIs
<1>4. Kind # "video" /\ Size(Kind) <= Len(client.parser)
  BY <1>1, <1>3 DEF Complete, Size
<1>5. /\ client' = [client EXCEPT !.parser = Behind(Size(Kind))]
      /\ UNCHANGED <<camera, air, used, story>>
  BY <1>3 DEF StepOver
<1> QED
  BY <1>1, <1>4, <1>5, SoundSkips

(* A frame that is wanted.                                                 *)
LEMMA FrameIs ==
  ASSUME Sound, NEW P, NEW a, NEW e, NEW b, Transit(P, a, e), ParserOK(a, b),
         HasRecord, Kind = "video", client.codec # "none" \/ Ahead.of.key,
         NEW known, known # "none"
  PROVE  /\ IsSeq(Record) /\ Len(Record) = 2
         /\ ParsedIs(story.stream, Behind(Size(Kind)), a, b + 2,
                     Row(story.fed, client.current, client.pending) \o Record, known)
<1> DEFINE S == story.stream
           t == Row(story.fed, client.current, client.pending)
<1>1. client.parser # <<>> /\ Complete
  BY DEF HasRecord
<1>2. StreamOK(S) /\ ParsedIs(S, client.parser, a, b, t, client.codec) /\ a \in 0..Len(S)
  BY <1>1, RecordIs DEF Sound, ParserOK
<1>3. Size(Kind) = 2
  BY <1>1, RecordIs
<1>4. /\ Record = SubSeq(client.parser, 1, 2) /\ 2 <= Len(client.parser)
      /\ Behind(Size(Kind)) = SubSeq(client.parser, 3, Len(client.parser))
  <2>1. PICK n : n = Size(Kind)
    OBVIOUS
  <2>2. n = 2 /\ n + 1 = 3
    BY <1>3, <2>1
  <2>3. Len(client.parser) >= n
    BY <1>1, <2>1 DEF HasRecord, Complete
  <2>4. 2 <= Len(client.parser)
    BY <1>2, <2>2, <2>3 DEF ParsedIs
  <2>5. /\ Record = SubSeq(client.parser, 1, n)
        /\ Behind(n) = SubSeq(client.parser, n + 1, Len(client.parser))
    BY <2>1 DEF Record, Behind
  <2> QED
    BY <2>1, <2>2, <2>4, <2>5, Zenon
<1>5. client.parser[1].of.kind = "video" /\ (client.codec # "none" \/ client.parser[1].of.key)
  BY DEF Kind, Ahead
<1> HIDE DEF S, t
<1>6. /\ IsSeq(SubSeq(client.parser, 1, 2)) /\ Len(SubSeq(client.parser, 1, 2)) = 2
      /\ ParsedIs(S, SubSeq(client.parser, 3, Len(client.parser)), a, b + 2,
                  t \o SubSeq(client.parser, 1, 2), known)
  BY <1>1, <1>2, <1>4, <1>5, ParsedTakes
<1> QED
  BY <1>4, <1>6 DEF S, t

LEMMA SoundCollects ==
  ASSUME Records, Sound, Collect
  PROVE  Sound'
<1> DEFINE next == [client EXCEPT !.parser = Behind(Size(Kind))]
           head == Ahead.of
           pending == Append(client.pending, Record)
<1>1. PICK P, a, e, b : Transit(P, a, e) /\ ParserOK(a, b)
  BY DEF Sound
<1>2. client.pc = "collect" /\ HasRecord /\ client.parser # <<>> /\ PhaseOK
  BY DEF Collect, HasRecord, Sound
<1>3. Ahead.of \in RecordType /\ Size(Kind) \in 1..2 /\ Len(client.parser) \in Nat \ {0}
  BY <1>1, <1>2, RecordIs
<1>4. CASE Close
  BY <1>4, SoundClosed
<1>5. CASE /\ Kind = "information" \/ (Kind = "video" /\ client.codec = "none" /\ ~Ahead.of.key)
           /\ client' = next
           /\ UNCHANGED <<camera, air, used, story>>
  <2>1. Size(Kind) <= Len(client.parser)
    BY <1>2, <1>3, <1>5 DEF HasRecord, Complete
  <2> QED
    BY <1>2, <1>5, <2>1, SoundSkips
<1>6. CASE /\ Kind = "video"
           /\ client.codec = head.codec \/ (client.codec = "none" /\ head.key)
           /\ client' = [next EXCEPT !.codec = head.codec, !.pending = pending,
                          !.pc = IF Len(pending) = InitialFrames THEN "open" ELSE @]
           /\ UNCHANGED <<camera, air, used, story>>
  <2>1. PICK known : known = head.codec
    OBVIOUS
  <2>2. known # "none"
    BY <1>3, <2>1 DEF RecordType
  <2>3. client.codec # "none" \/ Ahead.of.key
    BY <1>6, <2>1, <2>2
  <2>4. /\ IsSeq(Record) /\ Len(Record) = 2
        /\ ParsedIs(story.stream, Behind(Size(Kind)), a, b + 2,
                    Row(story.fed, client.current, client.pending) \o Record, known)
    BY <1>1, <1>2, <1>6, <2>2, <2>3, FrameIs
  <2>5. /\ client'.parser = Behind(Size(Kind)) /\ client'.pending = pending
        /\ client'.current = client.current /\ client'.codec = known
        /\ client'.binary = client.binary /\ client'.wire = client.wire
        /\ client'.pc \in {"collect", "open"}
    BY <1>2, <1>6, <2>1 DEF Records
  <2>6. story.fed = <<>> /\ client.current = <<>> /\ Frames(client.pending)
    BY <1>2 DEF PhaseOK
  <2>7. /\ Row(<<>>, <<>>, pending) = Row(<<>>, <<>>, client.pending) \o Record
        /\ Frames(pending)
    BY <2>4, <2>6, RowFirst, JoinedAppend
  <2>8. ParsedIs(story.stream, client'.parser, a, b + 2,
                 Row(story'.fed, client'.current, client'.pending), client'.codec)
    BY <1>6, <2>4, <2>5, <2>6, <2>7
  <2>9. PhaseOK'
    BY <1>2, <1>6, <2>2, <2>5, <2>7 DEF PhaseOK, Early
  <2>10. Quiet /\ LaterPhase
    BY <1>6, <2>5 DEF Quiet, LaterPhase, Early
  <2> QED
    BY <1>1, <1>6, <2>5, <2>8, <2>9, <2>10, SoundParses
<1> QED
  BY <1>4, <1>5, <1>6 DEF Collect

LEMMA SoundRecords ==
  ASSUME Records, Sound, ReadRecord
  PROVE  Sound'
<1> DEFINE next == [client EXCEPT !.parser = Behind(Size(Kind))]
<1>1. PICK P, a, e, b : Transit(P, a, e) /\ ParserOK(a, b)
  BY DEF Sound
<1>2. client.pc = "reading" /\ HasRecord /\ client.parser # <<>> /\ PhaseOK
  BY DEF ReadRecord, HasRecord, Sound
<1>3. Ahead.of \in RecordType /\ Size(Kind) \in 1..2 /\ Len(client.parser) \in Nat \ {0}
  BY <1>1, <1>2, RecordIs
<1>4. CASE Close
  BY <1>4, SoundClosed
<1>5. CASE /\ Kind = "information"
           /\ client' = next
           /\ UNCHANGED <<camera, air, used, story>>
  <2>1. Size(Kind) <= Len(client.parser)
    BY <1>2, <1>3, <1>5 DEF HasRecord, Complete
  <2> QED
    BY <1>2, <1>5, <2>1, SoundSkips
<1>6. CASE /\ Kind = "video"
           /\ client' = [next EXCEPT !.pc = "open", !.current = Record]
           /\ UNCHANGED <<camera, air, used, story>>
  <2>1. client.codec # "none" /\ client.current = <<>> /\ client.pending = <<>> /\ IsSeq(story.fed)
    BY <1>2 DEF PhaseOK
  <2>2. /\ IsSeq(Record) /\ Len(Record) = 2
        /\ ParsedIs(story.stream, Behind(Size(Kind)), a, b + 2,
                    Row(story.fed, client.current, client.pending) \o Record, client.codec)
    BY <1>1, <1>2, <1>6, <2>1, FrameIs
  <2>3. /\ client'.parser = Behind(Size(Kind)) /\ client'.pending = <<>>
        /\ client'.current = Record /\ client'.codec = client.codec
        /\ client'.binary = client.binary /\ client'.wire = client.wire /\ client'.pc = "open"
    BY <1>6, <2>1 DEF Records
  <2>4. Row(story.fed, Record, <<>>) = Row(story.fed, <<>>, <<>>) \o Record
    BY <2>1, <2>2, RowNext
  <2>5. ParsedIs(story.stream, client'.parser, a, b + 2,
                 Row(story'.fed, client'.current, client'.pending), client'.codec)
    BY <1>6, <2>1, <2>2, <2>3, <2>4
  <2>6. PhaseOK'
    BY <1>2, <1>6, <2>1, <2>2, <2>3 DEF PhaseOK, Early
  <2>7. Quiet /\ LaterPhase
    BY <1>6, <2>3 DEF Quiet, LaterPhase, Early
  <2> QED
    BY <1>1, <1>6, <2>3, <2>5, <2>6, <2>7, SoundParses
<1> QED
  BY <1>4, <1>5, <1>6 DEF ReadRecord

(* What the demuxer has or will get moves on without a change.             *)
LEMMA SoundHands ==
  ASSUME Sound, Quiet, UNCHANGED camera, story'.stream = story.stream,
         client'.binary = client.binary, client'.parser = client.parser,
         client'.codec = client.codec, LaterPhase, PhaseOK',
         Row(story'.fed, client'.current, client'.pending)
           = Row(story.fed, client.current, client.pending)
  PROVE  Sound'
<1>1. PICK P, a, e, b : Transit(P, a, e) /\ ParserOK(a, b)
  BY DEF Sound
<1>2. ParsedIs(story.stream, client'.parser, a, b,
               Row(story'.fed, client'.current, client'.pending), client'.codec)
  BY <1>1 DEF ParserOK
<1> QED
  BY <1>1, <1>2, SoundParses

LEMMA SoundReads ==
  ASSUME Records, Sound, Read
  PROVE  Sound'
<1>1. /\ client.pc = "open" /\ client.current = <<>> /\ PhaseOK
      /\ Frames(client.pending) /\ IsSeq(story.fed)
      /\ UNCHANGED <<camera, air, used, story>>
  BY DEF Read, Sound, PhaseOK
<1>2. CASE client.pending = <<>>
  <2>1. client' = [client EXCEPT !.pc = "reading"]
    BY <1>2 DEF Read
  <2>2. /\ client'.pc = "reading" /\ client'.parser = client.parser
        /\ client'.pending = client.pending /\ client'.current = client.current
        /\ client'.codec = client.codec /\ client'.binary = client.binary
        /\ client'.wire = client.wire
    BY <2>1 DEF Records
  <2>3. PhaseOK'
    BY <1>1, <1>2, <2>2 DEF PhaseOK, Early
  <2> QED
    BY <1>1, <2>2, <2>3, SoundHands DEF Quiet, LaterPhase, Early
<1>3. CASE client.pending # <<>>
  <2>1. client' = [client EXCEPT !.current = Head(client.pending), !.pending = Tail(@)]
    BY <1>3 DEF Read
  <2>2. /\ client'.pc = client.pc /\ client'.parser = client.parser
        /\ client'.pending = Tail(client.pending) /\ client'.current = Head(client.pending)
        /\ client'.codec = client.codec /\ client'.binary = client.binary
        /\ client'.wire = client.wire
    BY <2>1 DEF Records
  <2>3. /\ Row(story.fed, Head(client.pending), Tail(client.pending))
             = Row(story.fed, <<>>, client.pending)
        /\ IsSeq(Head(client.pending)) /\ Frames(Tail(client.pending))
    BY <1>1, <1>3, RowReads, JoinedTail
  <2>4. PhaseOK'
    BY <1>1, <2>2, <2>3 DEF PhaseOK, Early
  <2> QED
    BY <1>1, <2>2, <2>3, <2>4, SoundHands DEF Quiet, LaterPhase
<1> QED
  BY <1>2, <1>3

LEMMA SoundFeeds ==
  ASSUME Records, Sound, NEW count \in 1..2, Feed(count)
  PROVE  Sound'
<1>1. /\ client.pc = "open" /\ count <= Len(client.current) /\ PhaseOK
      /\ IsSeq(client.current) /\ IsSeq(story.fed)
      /\ UNCHANGED <<camera, air, used>>
  BY DEF Feed, Sound, PhaseOK
<1>2. count \in 0..Len(client.current)
  BY <1>1, EmptyIs
<1>3. /\ client'.pc = client.pc /\ client'.parser = client.parser
      /\ client'.pending = client.pending
      /\ client'.current = SubSeq(client.current, count + 1, Len(client.current))
      /\ client'.codec = client.codec /\ client'.binary = client.binary
      /\ client'.wire = client.wire
      /\ story'.stream = story.stream
      /\ story'.fed = story.fed \o SubSeq(client.current, 1, count)
  BY DEF Feed, Records
<1>4. /\ Row(story'.fed, client'.current, client'.pending)
           = Row(story.fed, client.current, client.pending)
      /\ IsSeq(story'.fed) /\ IsSeq(client'.current)
  BY <1>1, <1>2, <1>3, RowFeeds
<1>5. PhaseOK'
  BY <1>1, <1>3, <1>4 DEF PhaseOK, Early
<1> QED
  BY <1>1, <1>3, <1>4, <1>5, SoundHands DEF Quiet, LaterPhase

LEMMA SoundSkip ==
  ASSUME Records, Sound, Skip
  PROVE  Sound'
<1>1. /\ HasPacket /\ client' = [client EXCEPT !.wire = Rest]
      /\ First.id \notin {"keepalive", Expected}
      /\ camera' = camera /\ air' = air /\ story' = story
  BY DEF Skip
<1>2. PhaseOK /\ StreamOK(story.stream)
  BY DEF Sound
<1>3. /\ client'.wire = Rest /\ client'.pc = client.pc /\ client'.binary = client.binary
      /\ client'.parser = client.parser /\ client'.pending = client.pending
      /\ client'.current = client.current /\ client'.codec = client.codec
  BY <1>1 DEF Records
<1>4. PhaseOK'
  BY <1>1, <1>2, <1>3 DEF PhaseOK
<1>5. First.id # "video"
  <2>1. CASE client.pc \in {"upgrade", "login"}
    <3>1. PICK P, a, e : Transit(P, a, e)
      BY DEF Sound
    <3>2. P # <<>> /\ First = P[1] /\ IsSeq(P)
      BY <1>1, <3>1, HalvesTaken DEF Transit, HalvesAre, HasPacket
    <3>3. 1 \in 1..Len(P)
      BY <3>2, EmptyIs
    <3> QED
      BY <2>1, <3>1, <3>2, <3>3 DEF Transit, Early
  <2>2. CASE client.pc \notin {"upgrade", "login"}
    BY <1>1, <2>2 DEF Expected
  <2> QED
    BY <2>1, <2>2
<1>6. SameParser /\ SameCamera /\ LaterPhase
  BY <1>1, <1>3 DEF SameParser, SameCamera, LaterPhase
<1> QED
  BY <1>1, <1>3, <1>4, <1>5, <1>6, SoundDrops

LEMMA SoundKeepalive ==
  ASSUME Records, Sound, Keepalive
  PROVE  Sound'
<1>1. CASE Close
  BY <1>1, SoundClosed
<1>2. CASE ~Close
  <2>1. /\ HasPacket /\ client' = [client EXCEPT !.wire = Rest] /\ First.id = "keepalive"
        /\ story' = [story EXCEPT !.answered = Append(@, First.body)]
        /\ camera' = camera /\ air' = air
    BY <1>2 DEF Keepalive
  <2>2. /\ client'.wire = Rest /\ client'.pc = client.pc /\ client'.binary = client.binary
        /\ client'.parser = client.parser /\ client'.pending = client.pending
        /\ client'.current = client.current /\ client'.codec = client.codec
        /\ story'.stream = story.stream /\ story'.fed = story.fed
    BY <2>1 DEF Records
  <2>3. PhaseOK'
    BY <2>1, <2>2 DEF PhaseOK, Sound
  <2>4. SameParser /\ SameCamera /\ LaterPhase
    BY <2>1, <2>2 DEF SameParser, SameCamera, LaterPhase
  <2> QED
    BY <2>1, <2>2, <2>3, <2>4, SoundDrops
<1> QED
  BY <1>1, <1>2

(* The two replies of the login take the client to its next phase.         *)
LEMMA SoundReplies ==
  ASSUME Records, Sound, Upgraded \/ LoggedIn
  PROVE  Sound'
<1>1. CASE Close
  BY <1>1, SoundClosed
<1>2. CASE ~Close
  <2>1. PICK next, request :
          /\ client.pc \in Early /\ HasPacket /\ First.id = "login"
          /\ client' = [client EXCEPT !.wire = Rest, !.pc = next]
          /\ camera' = [camera EXCEPT !.request = IF camera.alive THEN request ELSE @]
          /\ air' = air /\ story' = story
          /\ \/ next = "login" /\ request = "login"
             \/ next = "start" /\ request = "start"
    <3>1. CASE Upgraded
      BY <1>2, <3>1 DEF Upgraded, Early
    <3>2. CASE LoggedIn
      BY <1>2, <3>2 DEF LoggedIn, Early
    <3> QED
      BY <3>1, <3>2
  <2>2. /\ client'.wire = Rest /\ client'.pc = next /\ client'.binary = client.binary
        /\ client'.parser = client.parser /\ client'.pending = client.pending
        /\ client'.current = client.current /\ client'.codec = client.codec
        /\ camera'.alive = camera.alive /\ camera'.streaming = camera.streaming
        /\ camera'.begun = camera.begun /\ camera'.rest = camera.rest
        /\ camera'.request \in {camera.request, request}
    BY <2>1 DEF Records
  <2>3. PhaseOK'
    BY <2>1, <2>2 DEF PhaseOK, Sound, Early
  <2>4. SameParser /\ SameCamera /\ LaterPhase
    BY <2>1, <2>2 DEF SameParser, SameCamera, LaterPhase
  <2> QED
    BY <2>1, <2>2, <2>3, <2>4, SoundDrops
<1> QED
  BY <1>1, <1>2

LEMMA SoundMedia ==
  ASSUME Records, Sound, Started \/ MediaPacket
  PROVE  Sound'
<1>1. CASE Close
  BY <1>1, SoundClosed
<1>2. CASE ~Close
  <2>1. PICK pc :
          /\ HasPacket /\ First.id = "video"
          /\ client' = [Appended(First) EXCEPT !.pc = pc]
          /\ camera' = camera /\ air' = air /\ story' = story
          /\ \/ client.pc = "start" /\ pc = "collect"
             \/ client.pc \in {"collect", "reading"} /\ pc = client.pc
    <3>1. CASE Started
      BY <1>2, <3>1 DEF Started
    <3>2. CASE MediaPacket
      <4>1. Appended(First) = [Appended(First) EXCEPT !.pc = client.pc]
        BY DEF Appended, Records
      <4> QED
        BY <1>2, <3>2, <4>1 DEF MediaPacket, Media
    <3> QED
      BY <3>1, <3>2
  <2>2. /\ client'.pc = pc /\ client'.pending = client.pending
        /\ client'.current = client.current /\ client'.codec = client.codec
    BY <2>1 DEF Appended, Records
  <2>3. pc \notin Early
    BY <2>1 DEF Early
  <2>4. PhaseOK'
    BY <2>1, <2>2 DEF PhaseOK, Sound, Early
  <2> QED
    BY <2>1, <2>3, <2>4, SoundAppends
<1> QED
  BY <1>1, <1>2

LEMMA SoundWaits ==
  ASSUME Records, Sound,
         HangUp \/ (\E count \in 1..Len(air) : Receive(count)) \/ TimeOut \/ Lose
  PROVE  Sound'
<1>1. CASE Close
  BY <1>1, SoundClosed
<1>2. CASE HangUp
  <2>1. client' = client /\ air' = air /\ story' = story /\ camera' = NoCamera
    BY <1>2 DEF HangUp
  <2>2. \A P : HalvesAre(P) => HalvesAre(P)'
    BY <2>1, HalvesQuiet DEF Quiet
  <2>3. PhaseOK'
    BY <2>1 DEF PhaseOK, Sound, NoCamera
  <2>4. SameParser /\ SameCamera /\ LaterPhase
    BY <2>1 DEF SameParser, SameCamera, LaterPhase, NoCamera
  <2> QED
    BY <2>1, <2>2, <2>3, <2>4, SoundSame
<1>3. CASE \E count \in 1..Len(air) : Receive(count)
  <2>1. PICK count \in 1..Len(air) : Receive(count)
    BY <1>3
  <2>2. /\ client'.wire = client.wire \o SubSeq(air, 1, count)
        /\ air' = SubSeq(air, count + 1, Len(air))
        /\ client'.pc = client.pc /\ client'.binary = client.binary
        /\ client'.parser = client.parser /\ client'.pending = client.pending
        /\ client'.current = client.current /\ client'.codec = client.codec
        /\ story' = story /\ camera' = camera
    BY <2>1 DEF Receive, Records
  <2>3. \A P : HalvesAre(P) => HalvesAre(P)'
    BY <2>2, HalvesReceived
  <2>4. PhaseOK'
    BY <2>2 DEF PhaseOK, Sound
  <2>5. SameParser /\ SameCamera /\ LaterPhase
    BY <2>2 DEF SameParser, SameCamera, LaterPhase
  <2> QED
    BY <2>2, <2>3, <2>4, <2>5, SoundSame
<1>4. CASE (TimeOut \/ Lose) /\ ~Close
  <2>1. /\ client.pc = "reading" /\ client' = [client EXCEPT !.pc = "open"]
        /\ camera' = camera /\ air' = air /\ story' = story
    BY <1>4 DEF TimeOut, Lose
  <2>2. /\ client'.pc = "open" /\ client'.binary = client.binary /\ client'.wire = client.wire
        /\ client'.parser = client.parser /\ client'.pending = client.pending
        /\ client'.current = client.current /\ client'.codec = client.codec
    BY <2>1 DEF Records
  <2>3. \A P : HalvesAre(P) => HalvesAre(P)'
    BY <2>1, <2>2, HalvesQuiet DEF Quiet
  <2>4. PhaseOK'
    BY <2>1, <2>2 DEF PhaseOK, Sound, Early
  <2>5. SameParser /\ SameCamera /\ LaterPhase
    BY <2>1, <2>2 DEF SameParser, SameCamera, LaterPhase, Early
  <2> QED
    BY <2>2, <2>3, <2>4, <2>5, SoundSame
<1> QED
  BY <1>1, <1>2, <1>3, <1>4

(* A packet with nothing of the stream in it.                              *)
LEMMA SoundTalks ==
  ASSUME Records, Sound, SendKeepalive \/ SendOther
  PROVE  Sound'
<1>1. PICK id, extension, body :
        /\ air' = air \o InHalves(Packet(id, TRUE, extension, body))
        /\ client' = client /\ camera' = camera
        /\ story'.stream = story.stream /\ story'.fed = story.fed
        /\ id = "video" => camera.streaming /\ extension = "text" /\ body = <<>>
  <2>1. CASE SendKeepalive
    <3>1. "keepalive" # "video"
      OBVIOUS
    <3> QED
      BY <2>1, <3>1 DEF SendKeepalive, Records
  <2>2. CASE SendOther
    <3>1. client' = client /\ camera' = camera /\ story' = story
      BY <2>2 DEF SendOther
    <3>2. CASE air' = air \o InHalves(Packet("other", TRUE, "binary", <<>>))
      <4>1. "other" # "video"
        OBVIOUS
      <4> QED
        BY <3>1, <3>2, <4>1, Zenon
    <3>3. CASE /\ camera.streaming
               /\ air' = air \o InHalves(Packet("video", TRUE, "text", <<>>))
      BY <3>1, <3>3, Zenon
    <3> QED
      BY <2>2, <3>2, <3>3 DEF SendOther
  <2> QED
    BY <2>1, <2>2
<1>2. PICK p : p = Packet(id, TRUE, extension, body)
  OBVIOUS
<1>3. p.id = id /\ p.extension = extension /\ p.body = body
  BY <1>2 DEF Packet
<1>4. p.id = "video" => client.pc \notin Early /\ p.extension = "text" /\ p.body = <<>>
  BY <1>1, <1>3 DEF Sound, PhaseOK
<1> QED
  BY <1>1, <1>2, <1>4, SoundOther

LEMMA SoundNext == Records /\ ClosedOK /\ Sound /\ [Next]_vars => Sound'
<1> SUFFICES ASSUME Records, ClosedOK, Sound, [Next]_vars
             PROVE  Sound'
  OBVIOUS
<1>1. CASE Answer
  BY <1>1, SoundAnswer
<1>2. CASE SendKeepalive \/ SendOther
  BY <1>2, SoundTalks
<1>3. CASE HangUp \/ (\E count \in 1..Len(air) : Receive(count)) \/ TimeOut \/ Lose
  BY <1>3, SoundWaits
<1>4. CASE \E count \in 1..3 : SendMedia(count)
  BY <1>4, SoundSends
<1>5. CASE \E goal \in {"stream", "probe"} : Open(goal)
  BY <1>5, SoundOpen
<1>6. CASE Keepalive
  BY <1>6, SoundKeepalive
<1>7. CASE Skip
  BY <1>7, SoundSkip
<1>8. CASE Upgraded \/ LoggedIn
  BY <1>8, SoundReplies
<1>9. CASE Started \/ MediaPacket
  BY <1>9, SoundMedia
<1>10. CASE StepOver
  BY <1>10, SoundSteps
<1>11. CASE Collect
  BY <1>11, SoundCollects
<1>12. CASE Read
  BY <1>12, SoundReads
<1>13. CASE ReadRecord
  BY <1>13, SoundRecords
<1>14. CASE Disconnect
  BY <1>14, SoundClosed DEF Disconnect
<1>15. CASE \E count \in 1..2 : Feed(count)
  BY <1>15, SoundFeeds
<1>16. CASE UNCHANGED vars
  <2>1. client' = client /\ camera' = camera /\ air' = air /\ story' = story
    BY <1>16 DEF vars
  <2>2. \A P : HalvesAre(P) => HalvesAre(P)'
    BY <2>1, HalvesQuiet DEF Quiet
  <2>3. PhaseOK'
    BY <2>1 DEF PhaseOK, Sound
  <2>4. SameParser /\ SameCamera /\ LaterPhase
    BY <2>1 DEF SameParser, SameCamera, LaterPhase
  <2> QED
    BY <2>1, <2>2, <2>3, <2>4, SoundSame
<1> QED
  BY <1>1, <1>2, <1>3, <1>4, <1>5, <1>6, <1>7, <1>8, <1>9, <1>10, <1>11, <1>12, <1>13, <1>14,
     <1>15, <1>16 DEF Next

LEMMA AllOfAhead ==
  ASSUME NEW S, StreamOK(S), NEW parser, NEW a \in 0..Len(S), NEW b, NEW taken, NEW codec,
         ParsedIs(S, parser, a, b, taken, codec), parser # <<>>, Len(S) <= a
  PROVE  Len(parser) >= Size(parser[1].of.kind)
<1>1. PICK size : size = Size(parser[1].of.kind)
  OBVIOUS
<1>2. /\ b \in 0..(Len(S) - 1) /\ Len(S) \in Nat /\ Len(parser) = a - b
      /\ size \in 1..2 /\ b + size <= Len(S)
  <2>1. parser[1] = S[b + 1]
    BY AheadIs
  <2>2. size = Size(S[b + 1].of.kind)
    BY <1>1, <2>1
  <2>3. /\ b \in 0..(Len(S) - 1) /\ Len(S) \in Nat /\ Len(parser) = a - b
    BY AheadIs
  <2>4. LET n == Size(S[b + 1].of.kind) IN n \in 1..2 /\ b + n <= Len(S)
    BY AheadIs
  <2> QED
    BY <2>2, <2>3, <2>4
<1>3. Len(parser) >= size
  BY <1>2
<1> QED
  BY <1>1, <1>3

(* When nothing is on its way the parser has taken all of the stream.      *)
LEMMA IdleHasAll ==
  ASSUME Sound, NEW P, NEW a, NEW e, NEW b, Transit(P, a, e), ParserOK(a, b),
         Waits, Media, client.wire = <<>>, air = <<>>, camera.alive, camera.rest = <<>>
  PROVE  b = Len(story.stream)
<1> DEFINE S == story.stream
           t == Row(story.fed, client.current, client.pending)
<1>1. StreamOK(S) /\ ParsedIs(S, client.parser, a, b, t, client.codec)
  BY DEF Sound, ParserOK
<1>2. P = <<>>
  <2>1. IsSeq(P) /\ Halved(P) = <<>>
    <3>1. <<>> \o <<>> = <<>>
      BY EmptyIs, ConcatIs
    <3> QED
      BY <3>1 DEF Transit, HalvesAre, Halves
  <2>2. Len(Halved(P)) = 2 * Len(P) /\ Len(P) \in Nat
    BY <2>1, HalvedIs
  <2>3. Len(P) = 0
    BY <2>1, <2>2, EmptyIs
  <2> QED
    BY <2>1, <2>3, EmptyIs
<1>3. a = e
  BY <1>2, CargoEmpty DEF Transit
<1>4. e \in Nat /\ Len(S) \in Nat /\ Len(camera.rest) = Len(S) - e
  BY <1>1, RestIs
<1>5. a = Len(S) /\ a \in 0..Len(S)
  BY <1>3, <1>4, EmptyIs
<1>6. IsSeq(S) /\ b \in 0..a /\ client.parser = Stretch(S, b, a)
  BY <1>1 DEF ParsedIs, StreamOK
<1>7. CASE client.parser = <<>>
  <2>1. b \in Nat /\ a \in b..Len(S)
    BY <1>4, <1>5, <1>6
  <2>2. Stretch(S, b, a) = <<>> <=> b = a
    BY <1>6, <2>1, StretchIs
  <2> QED
    BY <1>5, <1>6, <1>7, <2>2
<1>8. CASE client.parser # <<>>
  <2> HIDE DEF S, t
  <2>1. client.parser[1].part = 1 /\ client.parser[1].of \in RecordType
    BY <1>1, <1>5, <1>8, AheadIs
  <2>2. Len(client.parser) >= Size(Kind)
    BY <1>1, <1>5, <1>8, AllOfAhead DEF Kind, Ahead
  <2>3. Kind \in {"video", "audio", "information", "noise", "bad"} /\ Ahead.part = 1
    BY <2>1 DEF Kind, Ahead, RecordType
  <2>4. ~GoesOn /\ ~HasRecord
    BY DEF Waits, Listens
  <2> QED
    BY <1>8, <2>2, <2>3, <2>4 DEF GoesOn, HasRecord, Complete
<1> QED
  BY <1>7, <1>8

LEMMA SoundFollows == Sound => StreamIsExact
<1> SUFFICES ASSUME Sound
             PROVE  StreamIsExact
  OBVIOUS
<1>1. PICK P, a, e, b : Transit(P, a, e) /\ ParserOK(a, b)
  BY DEF Sound
<1> DEFINE S == story.stream
           wanted == Wanted(S)
           taken == story.fed \o client.current \o Joined(client.pending)
           idle == Media /\ Waits /\ client.wire = <<>> /\ air = <<>> /\ camera.alive
                     /\ camera.streaming /\ camera.rest = <<>>
<1>2. TakenIs(taken, S, b)
  BY <1>1 DEF ParserOK, ParsedIs, Row
<1>3. wanted \subseteq 1..Len(S) /\ Len(S) \in Nat
  BY WantedIs DEF Sound
<1>4. idle => b = Len(S)
  BY <1>1, IdleHasAll
<1> HIDE DEF S, wanted, idle
<1>5. /\ \A i \in 1..Len(taken) :
           /\ taken[i].n \in wanted /\ taken[i] = S[taken[i].n]
           /\ Seen(taken, i - 1) = {w \in wanted : w < taken[i].n}
      /\ Seen(taken, Len(taken)) = {w \in wanted : w <= b}
  BY <1>2 DEF TakenIs, wanted
<1>6. idle => Seen(taken, Len(taken)) = wanted
  <2>1. SUFFICES ASSUME idle PROVE Seen(taken, Len(taken)) = wanted
    OBVIOUS
  <2>2. \A w \in wanted : w <= b
    BY <1>3, <1>4, <2>1
  <2> QED
    BY <1>5, <2>2
<1> QED
  BY <1>5, <1>6 DEF StreamIsExact, Seen, S, wanted, idle

(* However the camera packs its records, TCP cuts the packets and the      *)
(* reads end, the demuxer gets the video of this connection from its first *)
(* keyframe on, each piece once and in order, and in the end all of it     *)
(* (BaichuanClient, MediaParser and read_baichuan).                        *)
THEOREM StreamArrivesExactly == Spec => []StreamIsExact
<1> DEFINE Inv == Records /\ ClosedOK /\ Sound
<1>1. Init => Inv
  BY RecordsInit, ClosedInit, SoundInit
<1>2. Inv /\ [Next]_vars => Inv'
  BY RecordsNext, ClosedNext, SoundNext
<1>3. Inv => StreamIsExact
  BY SoundFollows
<1> QED
  BY <1>1, <1>2, <1>3, PTL DEF Spec
=============================================================================
