---------------------------- MODULE FramingProofs ----------------------------
(***************************************************************************)
(* Theorems about Framing, for bytes of any width, packets of any length   *)
(* and any number of them in flight: the types, the bound on packet_buf,   *)
(* and that the byte protocol implements PacketChannel as long as no more  *)
(* than Allowance + 1 torn packets are sent in a row.                      *)
(***************************************************************************)
EXTENDS Framing, SequenceTheorems, WellFoundedInduction, TLAPS

-----------------------------------------------------------------------------
(* Induction and recursion, stated with sets so that they can be cited *)

(* A set of numbers with 0 and every successor contains them all. *)
LEMMA AllNumbers ==
    ASSUME NEW T \in SUBSET Nat, 0 \in T, \A n \in T : n + 1 \in T
    PROVE  \A n \in Nat : n \in T
  <1> SUFFICES ASSUME Nat \ T # {} PROVE FALSE
    OBVIOUS
  <1> DEFINE Less == {p \in Nat \X Nat : p[1] < p[2]}
  <1>a. IsWellFoundedOn(Less, Nat)
    BY NatLessThanWellFounded, Zenon DEF OpToRel
  <1>1. PICK x \in Nat \ T : \A y \in Nat \ T : ~(<<y, x>> \in Less)
    <2> HIDE DEF Less
    <2> QED
      BY <1>a, WFMin
  <1>2. \A y \in Nat \ T : ~(y < x)
    BY <1>1
  <1>3. x # 0
    BY <1>1
  <1>4. x - 1 \in Nat \ T
    BY <1>1, <1>3
  <1> QED
    BY <1>2, <1>4

(* The values that a loop over 1 .. last goes through, one computed from   *)
(* the other.                                                              *)
Steps(x, S, first, last, G) ==
    /\ x \in [0 .. last -> S]
    /\ x[0] = first /\ \A n \in 1 .. last : x[n] = G[n][x[n - 1]]

LEMMA Recursion ==
    ASSUME NEW S, NEW first \in S, NEW last \in Nat, NEW G \in [1 .. last -> [S -> S]]
    PROVE  \E x : Steps(x, S, first, last, G)
  <1> DEFINE Upto(m) == \E x \in [0 .. m -> S] :
                 x[0] = first /\ \A n \in 1 .. m : x[n] = G[n][x[n - 1]]
             T == {m \in Nat : m <= last => Upto(m)}
  <1>1. 0 \in T
    <2> DEFINE y == [i \in 0 .. 0 |-> first]
    <2>1. y \in [0 .. 0 -> S] /\ y[0] = first
      OBVIOUS
    <2>2. \A n \in 1 .. 0 : y[n] = G[n][y[n - 1]]
      OBVIOUS
    <2> HIDE DEF y
    <2>3. Upto(0)
      BY <2>1, <2>2
    <2> QED
      BY <2>3
  <1>2. ASSUME NEW m \in T PROVE m + 1 \in T
    <2> SUFFICES ASSUME m + 1 <= last PROVE Upto(m + 1)
      OBVIOUS
    <2>1. PICK x \in [0 .. m -> S] :
              x[0] = first /\ \A n \in 1 .. m : x[n] = G[n][x[n - 1]]
      BY <1>2
    <2> DEFINE y == [i \in 0 .. m + 1 |-> IF i <= m THEN x[i] ELSE G[m + 1][x[m]]]
    <2>2. y \in [0 .. m + 1 -> S]
      <3>1. x[m] \in S /\ m + 1 \in 1 .. last
        BY <1>2, <2>1
      <3>2. G[m + 1][x[m]] \in S
        BY <3>1
      <3>3. \A i \in 0 .. m + 1 : (i <= m => x[i] \in S)
        BY <1>2, <2>1
      <3> QED
        BY <3>2, <3>3
    <2>3. y[0] = first /\ \A n \in 1 .. m + 1 : y[n] = G[n][y[n - 1]]
      <3>1. m \in Nat
        BY <1>2
      <3>2. y[0] = first
        BY <2>1, <3>1
      <3> SUFFICES ASSUME NEW n \in 1 .. m + 1 PROVE y[n] = G[n][y[n - 1]]
        BY <3>2
      <3>3. y[n - 1] = x[n - 1]
        BY <3>1
      <3>4. CASE n <= m
        <4>1. n \in 1 .. m /\ y[n] = x[n]
          BY <3>1, <3>4
        <4> HIDE DEF y
        <4> QED
          BY <2>1, <3>3, <4>1
      <3>5. CASE n = m + 1
        <4>1. y[n] = G[m + 1][x[m]] /\ n - 1 = m
          BY <3>1, <3>5
        <4> HIDE DEF y
        <4> QED
          BY <3>3, <3>5, <4>1
      <3> QED
        BY <3>1, <3>4, <3>5
    <2> QED
      BY <2>2, <2>3
  <1> HIDE DEF T
  <1>3. T \in SUBSET Nat
    BY DEF T
  <1>4. last \in T
    BY <1>1, <1>2, <1>3, AllNumbers
  <1> QED
    BY <1>4 DEF T, Steps

(* The values that FlattenSeq goes through. *)
LEMMA Flattening ==
    ASSUME NEW S, NEW ss \in Seq(Seq(S))
    PROVE  \E x \in [0 .. Len(ss) -> Seq(S)] :
               /\ x[0] = <<>>
               /\ \A n \in 1 .. Len(ss) : x[n] = x[n - 1] \o ss[n]
               /\ FlattenSeq(ss) = x[Len(ss)]
  <1> DEFINE L == Len(ss)
             G == [n \in 1 .. L |-> [a \in Seq(S) |-> a \o ss[n]]]
  <1>1. L \in Nat /\ \A n \in 1 .. L : ss[n] \in Seq(S)
    OBVIOUS
  <1>2. G \in [1 .. L -> [Seq(S) -> Seq(S)]]
    BY <1>1
  <1>3. PICK x \in [0 .. L -> Seq(S)] :
            x[0] = <<>> /\ \A n \in 1 .. L : x[n] = G[n][x[n - 1]]
    <2>1. <<>> \in Seq(S)
      OBVIOUS
    <2> HIDE DEF G, L
    <2>2. L \in Nat
      BY <1>1 DEF L
    <2>3. \E x : Steps(x, Seq(S), <<>>, L, G)
      BY <1>2, <2>1, <2>2, Recursion
    <2> QED
      BY <2>3 DEF Steps
  <1>4. \A n \in 1 .. L : x[n] = x[n - 1] \o ss[n]
    <2> TAKE n \in 1 .. L
    <2>0. n \in Int /\ n - 1 \in 0 .. L
      BY <1>1
    <2>1. x[n - 1] \in Seq(S)
      BY <2>0
    <2> QED
      BY <1>3, <2>1
  <1>b. ASSUME L # 0 PROVE 1 \in 1 .. L /\ x[1] = ss[1]
    <2>1. 1 \in 1 .. L /\ 1 - 1 = 0
      BY <1>1, <1>b
    <2> HIDE DEF L
    <2>2. x[1] = x[0] \o ss[1] /\ ss[1] \in Seq(S)
      BY <1>1, <1>4, <2>1
    <2> QED
      BY <1>3, <2>1, <2>2
  <1>5. CASE L = 0
    <2>1. ss = <<>>
      BY <1>5
    <2> QED
      BY <1>3, <1>5, <2>1 DEF FlattenSeq
  <1>6. CASE L # 0
    <2> HIDE DEF L, G
    <2> DEFINE F(f) == [i \in 1 .. L |-> IF i = 1 THEN ss[i] ELSE f[i - 1] \o ss[i]]
               flatten == CHOOSE f : f = F(f)
               g == [i \in 1 .. L |-> x[i]]
    <2>1. g = F(g)
      <3>1. \A i \in 1 .. L : g[i] = F(g)[i]
        <4> TAKE i \in 1 .. L
        <4>1. CASE i = 1
          BY <1>6, <1>b, <4>1
        <4>2. CASE i # 1
          <5>1. i - 1 \in 1 .. L
            BY <1>1, <4>2
          <5> QED
            BY <1>4, <4>2, <5>1
        <4> QED
          BY <4>1, <4>2
      <3> QED
        BY <3>1
    <2>2. flatten = F(flatten)
      <3>1. \E f : f = F(f)
        BY <2>1
      <3> HIDE DEF F
      <3> QED
        BY <3>1
    <2>3. FlattenSeq(ss) = flatten[L]
      BY <1>6 DEF FlattenSeq, flatten, F, L
    <2> HIDE DEF flatten
    <2> DEFINE T == {n \in Nat : n + 1 <= L => flatten[n + 1] = x[n + 1]}
    <2>4. 0 \in T
      <3>1. flatten[1] = ss[1]
        BY <1>6, <1>b, <2>2
      <3> QED
        BY <1>6, <1>b, <3>1
    <2>5. ASSUME NEW n \in T PROVE n + 1 \in T
      <3> SUFFICES ASSUME n + 2 <= L PROVE flatten[n + 2] = x[n + 2]
        OBVIOUS
      <3>1. flatten[n + 1] = x[n + 1]
        BY <1>1, <2>5
      <3>2. n + 2 \in 1 .. L /\ n + 2 # 1 /\ (n + 2) - 1 = n + 1
        BY <1>1, <2>5
      <3>3. flatten[n + 2] = flatten[n + 1] \o ss[n + 2]
        BY <2>2, <3>2
      <3> QED
        BY <1>4, <3>1, <3>2, <3>3
    <2>6. L - 1 \in T
      <3> HIDE DEF T
      <3>1. T \in SUBSET Nat
        BY DEF T
      <3>2. \A n \in Nat : n \in T
        BY <2>4, <2>5, <3>1, AllNumbers
      <3>3. L - 1 \in Nat
        BY <1>1, <1>6 DEF L
      <3> QED
        BY <3>2, <3>3
    <2>7. FlattenSeq(ss) = x[L]
      <3>1. (L - 1) + 1 = L /\ L <= L
        BY <1>1 DEF L
      <3> QED
        BY <2>3, <2>6, <3>1
    <2> QED
      BY <1>3, <1>4, <2>7 DEF L
  <1> QED
    BY <1>5, <1>6

-----------------------------------------------------------------------------
(* Facts about sequences *)

LEMMA FlattenEmpty == FlattenSeq(<<>>) = <<>>
  BY DEF FlattenSeq

LEMMA FlattenType ==
    ASSUME NEW S, NEW ss \in Seq(Seq(S))
    PROVE  FlattenSeq(ss) \in Seq(S)
  <1>1. PICK x \in [0 .. Len(ss) -> Seq(S)] : FlattenSeq(ss) = x[Len(ss)]
    BY Flattening
  <1>2. Len(ss) \in 0 .. Len(ss)
    OBVIOUS
  <1> QED
    BY <1>1, <1>2

(* The last sequence comes last. *)
LEMMA FlattenAppend ==
    ASSUME NEW S, NEW ss \in Seq(Seq(S)), NEW e \in Seq(S)
    PROVE  FlattenSeq(Append(ss, e)) = FlattenSeq(ss) \o e
  <1> DEFINE L == Len(ss)
             tt == Append(ss, e)
  <1>1. /\ L \in Nat /\ tt \in Seq(Seq(S)) /\ Len(tt) = L + 1
        /\ tt[L + 1] = e /\ \A n \in 1 .. L : tt[n] = ss[n]
    BY AppendProperties
  <1>2. PICK x \in [0 .. L -> Seq(S)] :
            /\ x[0] = <<>>
            /\ \A n \in 1 .. L : x[n] = x[n - 1] \o ss[n]
            /\ FlattenSeq(ss) = x[L]
    BY Flattening
  <1> HIDE DEF L, tt
  <1>3. PICK y \in [0 .. L + 1 -> Seq(S)] :
            /\ y[0] = <<>>
            /\ \A n \in 1 .. L + 1 : y[n] = y[n - 1] \o tt[n]
            /\ FlattenSeq(tt) = y[L + 1]
    <2>1. PICK y \in [0 .. Len(tt) -> Seq(S)] :
            /\ y[0] = <<>>
            /\ \A n \in 1 .. Len(tt) : y[n] = y[n - 1] \o tt[n]
            /\ FlattenSeq(tt) = y[Len(tt)]
      BY <1>1, Flattening
    <2> QED
      BY <1>1, <2>1
  <1> DEFINE T == {n \in Nat : n <= L => y[n] = x[n]}
  <1>4. 0 \in T
    BY <1>2, <1>3
  <1>5. ASSUME NEW n \in T PROVE n + 1 \in T
    <2> SUFFICES ASSUME n + 1 <= L PROVE y[n + 1] = x[n + 1]
      BY <1>5
    <2>1. n + 1 \in 1 .. L /\ n + 1 \in 1 .. L + 1 /\ (n + 1) - 1 = n /\ y[n] = x[n]
      BY <1>1, <1>5
    <2>2. y[n + 1] = y[n] \o tt[n + 1] /\ x[n + 1] = x[n] \o ss[n + 1]
      BY <1>2, <1>3, <2>1
    <2> QED
      BY <1>1, <2>1, <2>2
  <1> HIDE DEF T
  <1>6. L \in T
    <2>1. T \in SUBSET Nat
      BY DEF T
    <2> QED
      BY <1>1, <1>4, <1>5, <2>1, AllNumbers
  <1>7. y[L] = x[L]
    BY <1>1, <1>6 DEF T
  <1>8. y[L + 1] = y[L] \o e
    <2>1. L + 1 \in 1 .. L + 1 /\ (L + 1) - 1 = L
      BY <1>1
    <2> QED
      BY <1>1, <1>3, <2>1
  <1> QED
    BY <1>2, <1>3, <1>7, <1>8 DEF tt

(* The first sequence comes first. *)
LEMMA FlattenFirst ==
    ASSUME NEW S, NEW ss \in Seq(Seq(S)), ss # <<>>
    PROVE  FlattenSeq(ss) = Head(ss) \o FlattenSeq(Tail(ss))
  <1> DEFINE L == Len(ss)
             tt == Tail(ss)
             h == Head(ss)
  <1>1. /\ L \in Nat /\ L >= 1 /\ tt \in Seq(Seq(S)) /\ Len(tt) = L - 1
        /\ h \in Seq(S) /\ h = ss[1] /\ \A n \in 1 .. L - 1 : tt[n] = ss[n + 1]
    BY HeadTailProperties
  <1>a. \A n \in 1 .. L - 1 : tt[n] \in Seq(S)
    BY <1>1, ElementOfSeq
  <1>2. PICK x \in [0 .. L -> Seq(S)] :
            /\ x[0] = <<>>
            /\ \A n \in 1 .. L : x[n] = x[n - 1] \o ss[n]
            /\ FlattenSeq(ss) = x[L]
    BY Flattening
  <1> HIDE DEF L, tt, h
  <1>3. PICK y \in [0 .. L - 1 -> Seq(S)] :
            /\ y[0] = <<>>
            /\ \A n \in 1 .. L - 1 : y[n] = y[n - 1] \o tt[n]
            /\ FlattenSeq(tt) = y[L - 1]
    <2>1. PICK y \in [0 .. Len(tt) -> Seq(S)] :
            /\ y[0] = <<>>
            /\ \A n \in 1 .. Len(tt) : y[n] = y[n - 1] \o tt[n]
            /\ FlattenSeq(tt) = y[Len(tt)]
      BY <1>1, Flattening
    <2> QED
      BY <1>1, <2>1
  <1>b. PICK z : z = [n \in 0 .. L - 1 |-> h \o y[n]]
    OBVIOUS
  <1>c. \A n \in 0 .. L - 1 : z[n] = h \o y[n]
    BY <1>b
  <1> DEFINE T == {n \in Nat : n + 1 <= L => x[n + 1] = z[n]}
  <1>4. 0 \in T
    <2>1. 1 \in 1 .. L /\ 1 - 1 = 0
      BY <1>1
    <2>2. x[1] = x[0] \o h
      BY <1>1, <1>2, <2>1
    <2>3. <<>> \o h = h \o <<>>
      BY <1>1, ConcatEmptySeq
    <2>4. x[1] = z[0]
      <3>0. 0 \in 0 .. L - 1
        BY <1>1
      <3>1. z[0] = h \o y[0]
        BY <3>0, <1>c, Zenon
      <3> QED
        BY <1>2, <1>3, <2>2, <2>3, <3>1, Zenon
    <2> QED
      BY <2>4
  <1>5. ASSUME NEW n \in T PROVE n + 1 \in T
    <2> SUFFICES ASSUME n + 2 <= L PROVE x[n + 2] = z[n + 1]
      BY <1>5
    <2>1. /\ n + 2 \in 1 .. L /\ (n + 2) - 1 = n + 1 /\ n + 1 \in 1 .. L - 1
          /\ (n + 1) - 1 = n /\ n \in 0 .. L - 1
      BY <1>1, <1>5
    <2>2. x[n + 1] = h \o y[n] /\ z[n + 1] = h \o y[n + 1]
      <3>1. x[n + 1] = z[n]
        BY <1>1, <1>5
      <3>2. n + 1 \in 0 .. L - 1
        BY <1>1, <2>1
      <3> QED
        BY <1>c, <2>1, <3>1, <3>2
    <2>3. x[n + 2] = x[n + 1] \o ss[n + 2] /\ y[n + 1] = y[n] \o tt[n + 1]
      BY <1>2, <1>3, <2>1
    <2>4. tt[n + 1] = ss[n + 2] /\ tt[n + 1] \in Seq(S) /\ y[n] \in Seq(S)
      BY <1>1, <1>a, <2>1
    <2>5. (h \o y[n]) \o tt[n + 1] = h \o (y[n] \o tt[n + 1])
      <3>1. h \in Seq(S) /\ y[n] \in Seq(S) /\ tt[n + 1] \in Seq(S)
        BY <1>1, <2>4
      <3>2. PICK a, b, c : a = h /\ b = y[n] /\ c = tt[n + 1]
        OBVIOUS
      <3>3. a \in Seq(S) /\ b \in Seq(S) /\ c \in Seq(S)
        BY <3>1, <3>2
      <3>4. (a \o b) \o c = a \o (b \o c)
        BY <3>3
      <3> QED
        BY <3>2, <3>4, Zenon
    <2> QED
      BY <2>2, <2>3, <2>4, <2>5, Zenon
  <1>6. L - 1 \in T
    <2> HIDE DEF T
    <2>1. T \in SUBSET Nat
      BY DEF T
    <2>2. L - 1 \in Nat
      BY <1>1
    <2> QED
      BY <1>4, <1>5, <2>1, <2>2, AllNumbers
  <1>7. x[L] = h \o y[L - 1]
    <2>1. (L - 1) + 1 = L /\ L <= L /\ L - 1 \in 0 .. L - 1
      BY <1>1
    <2>2. x[L] = z[L - 1]
      BY <1>6, <2>1
    <2> QED
      BY <1>c, <2>1, <2>2
  <1> QED
    BY <1>2, <1>3, <1>7 DEF tt, h


LEMMA OneFirst ==
    ASSUME NEW a \in Byte, NEW s \in Seq(Byte)
    PROVE  /\ <<a>> \o s \in Seq(Byte) /\ <<a>> \o s # <<>>
           /\ Head(<<a>> \o s) = a /\ Tail(<<a>> \o s) = s
  OBVIOUS

LEMMA TwoFirst ==
    ASSUME NEW a \in Byte, NEW b \in Byte, NEW s \in Seq(Byte)
    PROVE  <<a, b>> \o s = <<a>> \o (<<b>> \o s)
  <1>1. PICK x, y, z : x = <<a, b>> \o s /\ y = <<b>> \o s /\ z = <<a>> \o y
    OBVIOUS
  <1>2. /\ x \in Seq(Byte) /\ Len(x) = Len(s) + 2 /\ x[1] = a /\ x[2] = b
        /\ \A i \in 3 .. Len(s) + 2 : x[i] = s[i - 2]
    BY <1>1
  <1>3. /\ y \in Seq(Byte) /\ Len(y) = Len(s) + 1 /\ y[1] = b
        /\ \A i \in 2 .. Len(s) + 1 : y[i] = s[i - 1]
    BY <1>1
  <1>4. /\ z \in Seq(Byte) /\ Len(z) = Len(s) + 2 /\ z[1] = a
        /\ \A i \in 2 .. Len(s) + 2 : z[i] = y[i - 1]
    BY <1>1, <1>3
  <1>5. \A i \in 1 .. Len(s) + 2 : x[i] = z[i]
    <2> TAKE i \in 1 .. Len(s) + 2
    <2>0. Len(s) \in Nat
      OBVIOUS
    <2>1. CASE i = 1
      BY <1>2, <1>4, <2>1
    <2>2. CASE i = 2
      <3>1. 2 \in 2 .. Len(s) + 2 /\ 2 - 1 = 1
        BY <2>0
      <3> QED
        BY <1>2, <1>3, <1>4, <2>2, <3>1
    <2>3. CASE i > 2
      <3>1. /\ i \in 3 .. Len(s) + 2 /\ i \in 2 .. Len(s) + 2
            /\ i - 1 \in 2 .. Len(s) + 1 /\ (i - 1) - 1 = i - 2
        BY <2>0, <2>3
      <3> QED
        BY <1>2, <1>3, <1>4, <3>1
    <2> QED
      BY <2>1, <2>2, <2>3
  <1>6. x = z
    BY <1>2, <1>4, <1>5, SeqEqual
  <1> QED
    BY <1>1, <1>6

(* One byte more of a frame. *)
LEMMA OneMore ==
    ASSUME NEW S, NEW f \in Seq(S), NEW m \in Nat, m < Len(f)
    PROVE  /\ SubSeq(f, m + 1, Len(f)) \in Seq(S) /\ SubSeq(f, m + 1, Len(f)) # <<>>
           /\ SubSeq(f, m + 1, Len(f))[1] = f[m + 1]
           /\ Tail(SubSeq(f, m + 1, Len(f))) = SubSeq(f, m + 2, Len(f))
           /\ SubSeq(f, 1, m + 1) = Append(SubSeq(f, 1, m), f[m + 1])
  <1>1. m + 1 \in 1 .. Len(f) /\ Len(f) \in m + 1 .. Len(f) /\ (m + 1) + 1 = m + 2
    OBVIOUS
  <1>2. Tail(SubSeq(f, m + 1, Len(f))) = SubSeq(f, m + 2, Len(f))
    BY <1>1, HeadTailOfSubSeq
  <1>3. PICK p : p = SubSeq(f, m + 1, Len(f))
    OBVIOUS
  <1>0. m + 1 \in Int /\ Len(f) \in Int
    OBVIOUS
  <1>4. p \in Seq(S) /\ Len(p) = Len(f) - m /\ p[1] = f[m + 1]
    BY <1>1, <1>3, <1>0
  <1>5. p # <<>>
    BY <1>4
  <1>6. PICK q, r, e : q = SubSeq(f, 1, m + 1) /\ r = SubSeq(f, 1, m) /\ e = f[m + 1]
    OBVIOUS
  <1>7. /\ q \in Seq(S) /\ r \in Seq(S) /\ e \in S /\ Len(q) = m + 1 /\ Len(r) = m
        /\ \A i \in 1 .. m + 1 : q[i] = f[i]
        /\ \A i \in 1 .. m : r[i] = f[i]
    BY <1>6
  <1>8. q = Append(r, e)
    BY <1>6, <1>7
  <1> QED
    BY <1>2, <1>3, <1>4, <1>5, <1>6, <1>8

-----------------------------------------------------------------------------
(* Bytes, escaping and checksums *)

LEMMA Bytes ==
    /\ MaxByte \in Nat /\ MaxByte >= 3 /\ MaxNumber = MaxByte
    /\ 0 \in Byte /\ Dash \in Byte /\ Quest \in Byte /\ Star \in Byte
    /\ Dash # Quest /\ Dash # Star /\ Quest # Star /\ Dash # 0 /\ Quest # 0 /\ Star # 0
  BY FramingAssumption DEF Byte, Dash, Quest, Star, MaxNumber

LEMMA EscapeType ==
    ASSUME NEW b \in Byte
    PROVE  Escape(b) \in Seq(Byte)
  BY Bytes DEF Escape

LEMMA EscapedPieces ==
    ASSUME NEW p \in Seq(Byte)
    PROVE  [i \in DOMAIN p |-> Escape(p[i])] \in Seq(Seq(Byte))
  <1>1. \A i \in DOMAIN p : Escape(p[i]) \in Seq(Byte)
    BY EscapeType
  <1>2. PICK q : q = [i \in 1 .. Len(p) |-> Escape(p[i])]
    OBVIOUS
  <1>3. q \in [1 .. Len(p) -> Seq(Byte)] /\ Len(p) \in Nat
    BY <1>1, <1>2
  <1>4. q \in Seq(Seq(Byte))
    BY <1>3
  <1> QED
    BY <1>2, <1>4

LEMMA EncodeType ==
    ASSUME NEW p \in Seq(Byte)
    PROVE  Encode(p) \in Seq(Byte)
  BY EscapedPieces, FlattenType DEF Encode

LEMMA EncodeEmpty == Encode(<<>>) = <<>>
  <1>1. [i \in DOMAIN <<>> |-> Escape(<<>>[i])] = <<>>
    OBVIOUS
  <1> QED
    BY <1>1, FlattenEmpty DEF Encode

(* encode takes the bytes from the first to the last. *)
LEMMA EncodeFirst ==
    ASSUME NEW p \in Seq(Byte), p # <<>>
    PROVE  Encode(p) = Escape(p[1]) \o Encode(Tail(p))
  <1>1. PICK ss : ss = [i \in DOMAIN p |-> Escape(p[i])]
    OBVIOUS
  <1>2. PICK tt : tt = [i \in DOMAIN Tail(p) |-> Escape(Tail(p)[i])]
    OBVIOUS
  <1>3. ss \in Seq(Seq(Byte)) /\ tt \in Seq(Seq(Byte))
    BY <1>1, <1>2, EscapedPieces
  <1>4. Len(ss) = Len(p) /\ Len(tt) = Len(p) - 1 /\ ss # <<>>
    BY <1>1, <1>2
  <1>5. \A i \in 1 .. Len(tt) : tt[i] = ss[i + 1]
    BY <1>1, <1>2, <1>4
  <1>6. Tail(ss) = tt
    <2>1. /\ Tail(ss) \in Seq(Seq(Byte)) /\ Len(Tail(ss)) = Len(tt)
          /\ \A i \in 1 .. Len(tt) : Tail(ss)[i] = tt[i]
      BY <1>3, <1>4, <1>5, HeadTailProperties
    <2> QED
      BY <1>3, <2>1, SeqEqual
  <1>7. FlattenSeq(ss) = Head(ss) \o FlattenSeq(Tail(ss))
    BY <1>3, <1>4, FlattenFirst
  <1>8. Head(ss) = Escape(p[1])
    BY <1>1, <1>4
  <1> QED
    BY <1>1, <1>2, <1>6, <1>7, <1>8, Zenon DEF Encode

(* The values that xor_checksum goes through. *)
LEMMA XorSteps ==
    ASSUME NEW p \in Seq(Byte)
    PROVE  \E x \in [0 .. Len(p) -> Byte] :
               /\ x[0] = 0
               /\ \A n \in 1 .. Len(p) : x[n] = XorByte(x[n - 1], p[n])
               /\ Xor(p) = x[Len(p)]
  <1> DEFINE L == Len(p)
             G == [n \in 1 .. L |-> [a \in Byte |-> XorByte(a, p[n])]]
  <1>1. L \in Nat /\ \A n \in 1 .. L : p[n] \in Byte
    OBVIOUS
  <1>2. G \in [1 .. L -> [Byte -> Byte]]
    BY <1>1, FramingAssumption
  <1>3. PICK x \in [0 .. L -> Byte] :
            x[0] = 0 /\ \A n \in 1 .. L : x[n] = G[n][x[n - 1]]
    <2> HIDE DEF G, L
    <2>1. \E x : Steps(x, Byte, 0, L, G)
      BY <1>1, <1>2, Bytes, Recursion
    <2> QED
      BY <2>1 DEF Steps
  <1>4. \A n \in 1 .. L : x[n] = XorByte(x[n - 1], p[n])
    <2> TAKE n \in 1 .. L
    <2>0. n \in Int /\ n - 1 \in 0 .. L
      BY <1>1
    <2>1. x[n - 1] \in Byte
      BY <2>0
    <2> QED
      BY <1>3, <2>1
  <1> DEFINE F(f) == [n \in 0 .. L |-> IF n = 0 THEN 0 ELSE XorByte(f[n - 1], p[n])]
             rez == CHOOSE f : f = F(f)
  <1>5. x = F(x)
    <2>1. \A n \in 0 .. L : x[n] = F(x)[n]
      <3> TAKE n \in 0 .. L
      <3>1. CASE n = 0
        BY <1>3, <3>1
      <3>2. CASE n # 0
        <4>1. n \in 1 .. L
          BY <1>1, <3>2
        <4> QED
          BY <1>4, <3>2, <4>1
      <3> QED
        BY <3>1, <3>2
    <2> QED
      BY <2>1
  <1>6. rez = F(rez)
    <2>1. \E f : f = F(f)
      BY <1>5
    <2> HIDE DEF F
    <2> QED
      BY <2>1
  <1>7. Xor(p) = rez[L]
    BY DEF Xor
  <1> HIDE DEF rez, G, L
  <1> DEFINE T == {n \in Nat : n <= L => rez[n] = x[n]}
  <1>8. 0 \in T
    BY <1>1, <1>3, <1>6
  <1>9. ASSUME NEW n \in T PROVE n + 1 \in T
    <2> SUFFICES ASSUME n + 1 <= L PROVE rez[n + 1] = x[n + 1]
      BY <1>9
    <2>1. /\ n + 1 \in 1 .. L /\ n + 1 \in 0 .. L /\ n + 1 # 0 /\ (n + 1) - 1 = n
          /\ rez[n] = x[n]
      BY <1>1, <1>9
    <2>2. rez[n + 1] = XorByte(rez[n], p[n + 1])
      BY <1>6, <2>1
    <2> QED
      BY <1>4, <2>1, <2>2
  <1>10. L \in T
    <2> HIDE DEF T
    <2>1. T \in SUBSET Nat
      BY DEF T
    <2> QED
      BY <1>1, <1>8, <1>9, <2>1, AllNumbers
  <1>11. Xor(p) = x[L]
    BY <1>1, <1>7, <1>10
  <1> QED
    BY <1>3, <1>4, <1>11 DEF L

LEMMA XorType ==
    ASSUME NEW p \in Seq(Byte)
    PROVE  Xor(p) \in Byte
  <1>1. PICK x \in [0 .. Len(p) -> Byte] : Xor(p) = x[Len(p)]
    BY XorSteps
  <1>2. Len(p) \in 0 .. Len(p)
    OBVIOUS
  <1> QED
    BY <1>1, <1>2


(* Null bytes at the end do not change a checksum. *)
LEMMA XorPadded ==
    ASSUME NEW p \in Seq(Byte), NEW q \in Seq(Byte), Len(p) <= Len(q),
           \A n \in 1 .. Len(p) : q[n] = p[n],
           \A n \in Len(p) + 1 .. Len(q) : q[n] = 0
    PROVE  Xor(q) = Xor(p)
  <1> DEFINE L == Len(p)
             M == Len(q)
  <1>1. L \in Nat /\ M \in Nat /\ L <= M
    OBVIOUS
  <1>2. PICK x \in [0 .. L -> Byte] :
            /\ x[0] = 0
            /\ \A n \in 1 .. L : x[n] = XorByte(x[n - 1], p[n])
            /\ Xor(p) = x[L]
    BY XorSteps
  <1>3. PICK y \in [0 .. M -> Byte] :
            /\ y[0] = 0
            /\ \A n \in 1 .. M : y[n] = XorByte(y[n - 1], q[n])
            /\ Xor(q) = y[M]
    BY XorSteps
  <1>4. /\ \A n \in 1 .. L : q[n] = p[n]
        /\ \A n \in L + 1 .. M : q[n] = 0
    OBVIOUS
  <1> HIDE DEF L, M
  <1> DEFINE T == {n \in Nat : n <= M => y[n] = x[IF n <= L THEN n ELSE L]}
  <1>5. 0 \in T
    BY <1>1, <1>2, <1>3
  <1>6. ASSUME NEW n \in T PROVE n + 1 \in T
    <2> SUFFICES ASSUME n + 1 <= M PROVE y[n + 1] = x[IF n + 1 <= L THEN n + 1 ELSE L]
      BY <1>6
    <2>1. n + 1 \in 1 .. M /\ (n + 1) - 1 = n /\ y[n] = x[IF n <= L THEN n ELSE L]
      BY <1>1, <1>6
    <2>2. y[n + 1] = XorByte(y[n], q[n + 1])
      BY <1>3, <2>1
    <2>3. CASE n + 1 <= L
      <3>1. n + 1 \in 1 .. L /\ y[n] = x[n]
        BY <1>1, <2>1, <2>3
      <3>2. x[n + 1] = XorByte(x[n], p[n + 1])
        BY <1>2, <2>1, <3>1
      <3> QED
        BY <1>4, <2>2, <2>3, <3>1, <3>2
    <2>4. CASE ~(n + 1 <= L)
      <3>1. n + 1 \in L + 1 .. M /\ y[n] = x[L]
        BY <1>1, <2>1, <2>4
      <3>2. x[L] \in Byte
        BY <1>1, <1>2
      <3>3. XorByte(x[L], 0) = x[L]
        BY <3>2, Bytes, FramingAssumption
      <3> QED
        BY <1>4, <2>2, <2>4, <3>1, <3>3
    <2> QED
      BY <2>3, <2>4
  <1>7. M \in T
    <2> HIDE DEF T
    <2>1. T \in SUBSET Nat
      BY DEF T
    <2> QED
      BY <1>1, <1>5, <1>6, <2>1, AllNumbers
  <1>8. y[M] = x[L]
    <2>1. y[M] = x[IF M <= L THEN M ELSE L]
      BY <1>1, <1>7
    <2> QED
      BY <1>1, <2>1
  <1> QED
    BY <1>2, <1>3, <1>8

-----------------------------------------------------------------------------
(* Frames *)

LEMMA PayloadsAreShort ==
    \A d : d \in Payloads <=> d \in Seq(Byte) /\ Len(d) <= MaxData
  <1>1. MaxData \in Nat
    BY FramingAssumption DEF Byte
  <1>2. ASSUME NEW d \in Payloads PROVE d \in Seq(Byte) /\ Len(d) <= MaxData
    <2>1. PICK n \in 0 .. MaxData : d \in [1 .. n -> Byte]
      BY <1>2 DEF Payloads
    <2> QED
      BY <1>1, <2>1
  <1>3. ASSUME NEW d \in Seq(Byte), Len(d) <= MaxData PROVE d \in Payloads
    <2>1. Len(d) \in 0 .. MaxData /\ d \in [1 .. Len(d) -> Byte]
      BY <1>1, <1>3
    <2> QED
      BY <2>1 DEF Payloads
  <1> QED
    BY <1>2, <1>3

LEMMA PaddedFacts ==
    ASSUME NEW size \in 0 .. MaxData, NEW data \in Payloads
    PROVE  /\ Padded(size, data) \in Seq(Byte)
           /\ Len(Padded(size, data)) = IF Len(data) <= size THEN size ELSE Len(data)
           /\ \A n \in 1 .. Len(data) : Padded(size, data)[n] = data[n]
           /\ \A n \in Len(data) + 1 .. Len(Padded(size, data)) : Padded(size, data)[n] = 0
           /\ Padded(size, data) \in Payloads
  <1>1. MaxData \in Nat /\ data \in Seq(Byte) /\ Len(data) <= MaxData /\ Len(data) \in Nat
    BY PayloadsAreShort, FramingAssumption DEF Byte
  <1>0. size \in Nat
    BY <1>1
  <1>2. PICK k : k \in Nat /\ k = IF Len(data) <= size THEN size - Len(data) ELSE 0
    <2>1. Len(data) <= size => size - Len(data) \in Nat
      BY <1>0, <1>1
    <2> QED
      BY <1>1, <2>1
  <1>z. PICK z : z = [i \in 1 .. k |-> 0]
    OBVIOUS
  <1>3. z \in Seq(Byte) /\ Len(z) = k
    <2>1. k \in Nat /\ z \in [1 .. k -> Byte]
      BY <1>2, <1>z, Bytes
    <2> QED
      BY <2>1
  <1>4. \A i \in 1 .. Len(z) : z[i] = 0
    <2>1. Len(z) = k /\ k \in Nat
      BY <1>2, <1>3
    <2> QED
      BY <1>z, <2>1
  <1>5. PICK p : p = data \o z
    OBVIOUS
  <1>6. /\ p \in Seq(Byte) /\ Len(p) = Len(data) + Len(z)
        /\ \A i \in 1 .. Len(p) : p[i] = IF i <= Len(data) THEN data[i] ELSE z[i - Len(data)]
    <2>1. data \in Seq(Byte) /\ z \in Seq(Byte)
      BY <1>1, <1>3
    <2> QED
      BY <1>5, <2>1
  <1>7. Len(p) = IF Len(data) <= size THEN size ELSE Len(data)
    BY <1>1, <1>2, <1>3, <1>6
  <1>8. /\ \A n \in 1 .. Len(data) : p[n] = data[n]
        /\ \A n \in Len(data) + 1 .. Len(p) : p[n] = 0
    <2>1. ASSUME NEW n \in 1 .. Len(data) PROVE p[n] = data[n]
      BY <1>1, <1>3, <1>6
    <2>2. ASSUME NEW n \in Len(data) + 1 .. Len(p) PROVE p[n] = 0
      <3>1. n \in 1 .. Len(p) /\ ~(n <= Len(data)) /\ n - Len(data) \in 1 .. Len(z)
        BY <1>1, <1>3, <1>6
      <3> QED
        BY <1>4, <1>6, <3>1
    <2> QED
      BY <2>1, <2>2
  <1>9. p \in Payloads
    BY <1>1, <1>6, <1>7, PayloadsAreShort
  <1>10. Padded(size, data) = p
    <2>1. 1 .. size - Len(data) = 1 .. k
      BY <1>1, <1>2
    <2> QED
      BY <1>z, <1>5, <2>1 DEF Padded
  <1> QED
    BY <1>6, <1>7, <1>8, <1>9, <1>10

(* What verify_packet looks at in a frame. *)
LEMMA FrameFacts ==
    ASSUME NEW call \in Calls, NEW f, f = Frame(call)
    PROVE  /\ f \in Seq(Byte)
           /\ f[1] = call.pn /\ f[2] = call.size
           /\ Len(f) = 3 + (IF IsTorn(call) THEN Len(call.data) ELSE call.size)
           /\ Len(f) <= 3 + MaxData
           /\ ~IsTorn(call) => /\ SubSeq(f, 3, 2 + call.size) = Padded(call.size, call.data)
                               /\ Last(f) = Xor(Front(f))
  <1>1. PICK pn, size, data : pn = call.pn /\ size = call.size /\ data = call.data
    OBVIOUS
  <1>2. pn \in Byte /\ size \in 0 .. MaxData /\ size \in Byte /\ data \in Payloads
    BY <1>1, Bytes, FramingAssumption DEF Calls, Byte
  <1>3. MaxData \in Nat /\ data \in Seq(Byte) /\ Len(data) <= MaxData /\ Len(data) \in Nat
    BY <1>2, PayloadsAreShort, FramingAssumption DEF Byte
  <1>4. PICK p : p = Padded(size, data)
    OBVIOUS
  <1>5. /\ p \in Seq(Byte) /\ Len(p) = IF Len(data) <= size THEN size ELSE Len(data)
        /\ \A n \in 1 .. Len(data) : p[n] = data[n]
        /\ \A n \in Len(data) + 1 .. Len(p) : p[n] = 0
    BY <1>2, <1>4, PaddedFacts
  <1>6. PICK c : c = Xor(<<pn, size>> \o data)
    OBVIOUS
  <1>7. <<pn, size>> \in Seq(Byte) /\ Len(<<pn, size>>) = 2
    BY <1>2
  <1>8. PICK h : h = <<pn, size>>
    OBVIOUS
  <1>9. c \in Byte
    <2>1. h \o data \in Seq(Byte)
      BY <1>3, <1>7, <1>8
    <2> QED
      BY <1>6, <1>8, <2>1, XorType
  <1>10. f = h \o p \o <<c>>
    BY <1>1, <1>4, <1>6, <1>8 DEF Frame
  <1>11. /\ f \in Seq(Byte) /\ Len(f) = 3 + Len(p) /\ f[1] = pn /\ f[2] = size
         /\ f[Len(f)] = c /\ \A n \in 1 .. Len(p) : f[n + 2] = p[n]
    BY <1>5, <1>7, <1>8, <1>9, <1>10
  <1>12. IsTorn(call) <=> ~(Len(data) <= size)
    BY <1>1, <1>2, <1>3 DEF IsTorn
  <1>13. Len(f) = 3 + (IF IsTorn(call) THEN Len(data) ELSE size) /\ Len(f) <= 3 + MaxData
    BY <1>2, <1>3, <1>5, <1>11, <1>12
  <1>14. ASSUME ~IsTorn(call) PROVE SubSeq(f, 3, 2 + size) = p
    <2>1. Len(p) = size /\ size \in Nat
      BY <1>2, <1>5, <1>12, <1>14
    <2> QED
      BY <1>5, <1>11, <2>1
  <1>15. ASSUME ~IsTorn(call) PROVE Last(f) = Xor(Front(f))
    <2>1. PICK q : q = Front(f)
      OBVIOUS
    <2>2. q = h \o p
      BY <1>5, <1>7, <1>8, <1>9, <1>10, <1>11, <2>1 DEF Front
    <2>3. PICK d : d = h \o data
      OBVIOUS
    <2>4. /\ d \in Seq(Byte) /\ q \in Seq(Byte) /\ Len(d) = 2 + Len(data) /\ Len(q) = 2 + Len(p)
          /\ Len(data) <= Len(p)
      BY <1>2, <1>3, <1>5, <1>7, <1>8, <2>2, <2>3
    <2>5. \A n \in 1 .. Len(d) : q[n] = d[n]
      BY <1>2, <1>3, <1>5, <1>7, <1>8, <2>2, <2>3, <2>4
    <2>6. \A n \in Len(d) + 1 .. Len(q) : q[n] = 0
      <3> TAKE n \in Len(d) + 1 .. Len(q)
      <3>1. n - 2 \in Len(data) + 1 .. Len(p) /\ q[n] = p[n - 2]
        BY <1>2, <1>3, <1>5, <1>7, <1>8, <2>2, <2>4
      <3> QED
        BY <1>5, <3>1
    <2>7. Xor(q) = Xor(d)
      BY <2>4, <2>5, <2>6, XorPadded
    <2> QED
      BY <1>6, <1>8, <1>11, <2>1, <2>3, <2>7 DEF Last
  <1> QED
    BY <1>1, <1>4, <1>11, <1>13, <1>14, <1>15

-----------------------------------------------------------------------------
(* The bytes in the connection *)

LEMMA LeftLast ==
    ASSUME NEW f \in Seq(Byte)
    PROVE  Left(f, Len(f)) = <<Dash, Dash>>
  <1>1. SubSeq(f, Len(f) + 1, Len(f)) = <<>>
    <2>1. Len(f) \in Int /\ Len(f) + 1 \in Int /\ Len(f) < Len(f) + 1
      OBVIOUS
    <2> QED
      BY <2>1, SubSeqEmpty
  <1>2. <<>> \o <<Dash, Dash>> = <<Dash, Dash>>
    BY Bytes
  <1> QED
    BY <1>1, <1>2, EncodeEmpty, Zenon DEF Left

LEMMA LeftType ==
    ASSUME NEW f \in Seq(Byte), NEW i \in 0 .. Len(f)
    PROVE  Left(f, i) \in Seq(Byte)
  <1>1. PICK p : p = SubSeq(f, i + 1, Len(f))
    OBVIOUS
  <1>2. p \in Seq(Byte)
    BY <1>1
  <1>3. PICK e : e = Encode(p)
    OBVIOUS
  <1>4. e \in Seq(Byte)
    BY <1>2, <1>3, EncodeType
  <1>5. e \o <<Dash, Dash>> \in Seq(Byte)
    BY <1>4, Bytes
  <1> QED
    BY <1>1, <1>3, <1>5 DEF Left

LEMMA LeftNext ==
    ASSUME NEW f \in Seq(Byte), NEW i \in 0 .. Len(f), i < Len(f)
    PROVE  Left(f, i) = Escape(f[i + 1]) \o Left(f, i + 1)
  <1>1. PICK p, q : p = SubSeq(f, i + 1, Len(f)) /\ q = SubSeq(f, i + 2, Len(f))
    OBVIOUS
  <1>2. p \in Seq(Byte) /\ p # <<>> /\ p[1] = f[i + 1] /\ Tail(p) = q
    BY <1>1, OneMore
  <1>3. q \in Seq(Byte)
    BY <1>2
  <1>4. Encode(p) = Escape(f[i + 1]) \o Encode(q)
    BY <1>2, <1>3, EncodeFirst
  <1>5. PICK a, b : a = Escape(f[i + 1]) /\ b = Encode(q)
    OBVIOUS
  <1>6. a \in Seq(Byte) /\ b \in Seq(Byte)
    <2>1. f[i + 1] \in Byte
      BY <1>1
    <2> QED
      BY <1>3, <1>5, <2>1, EscapeType, EncodeType
  <1>7. (a \o b) \o <<Dash, Dash>> = a \o (b \o <<Dash, Dash>>)
    BY <1>6, Bytes
  <1>8. (i + 1) + 1 = i + 2
    OBVIOUS
  <1> QED
    BY <1>1, <1>4, <1>5, <1>7, <1>8, Zenon DEF Left

LEMMA ImageType ==
    ASSUME NEW call \in Calls
    PROVE  /\ Frame(call) \in Seq(Byte)
           /\ Image(call) = Left(Frame(call), 0)
           /\ Image(call) \in Seq(Byte)
  <1>1. PICK f : f = Frame(call)
    OBVIOUS
  <1>2. f \in Seq(Byte) /\ Len(f) \in Nat
    BY <1>1, FrameFacts
  <1>3. SubSeq(f, 0 + 1, Len(f)) = f
    BY <1>2
  <1>4. Image(call) = Left(f, 0)
    BY <1>1, <1>3 DEF Image, Left
  <1>5. Left(f, 0) \in Seq(Byte)
    BY <1>2, LeftType
  <1> QED
    BY <1>1, <1>2, <1>4, <1>5

LEMMA Images ==
    ASSUME NEW calls \in Seq(Calls)
    PROVE  [k \in DOMAIN calls |-> Image(calls[k])] \in Seq(Seq(Byte))
  <1>1. \A k \in DOMAIN calls : Image(calls[k]) \in Seq(Byte)
    BY ImageType
  <1>2. PICK q : q = [k \in 1 .. Len(calls) |-> Image(calls[k])]
    OBVIOUS
  <1>3. q \in [1 .. Len(calls) -> Seq(Byte)] /\ Len(calls) \in Nat
    BY <1>1, <1>2
  <1>4. q \in Seq(Seq(Byte))
    BY <1>3
  <1> QED
    BY <1>2, <1>4

LEMMA WireType ==
    ASSUME NEW calls \in Seq(Calls)
    PROVE  Wire(calls) \in Seq(Byte)
  BY Images, FlattenType DEF Wire

LEMMA WireEmpty == Wire(<<>>) = <<>>
  <1>1. [k \in DOMAIN <<>> |-> Image(<<>>[k])] = <<>>
    OBVIOUS
  <1> QED
    BY <1>1, FlattenEmpty DEF Wire

(* A packet that is sent arrives behind all others. *)
LEMMA WireAppend ==
    ASSUME NEW calls \in Seq(Calls), NEW call \in Calls
    PROVE  Wire(Append(calls, call)) = Wire(calls) \o Image(call)
  <1>1. PICK more : more = Append(calls, call)
    OBVIOUS
  <1>2. /\ more \in Seq(Calls) /\ Len(more) = Len(calls) + 1 /\ more[Len(calls) + 1] = call
        /\ \A k \in 1 .. Len(calls) : more[k] = calls[k]
    BY <1>1
  <1>3. PICK ss : ss = [k \in DOMAIN calls |-> Image(calls[k])]
    OBVIOUS
  <1>4. PICK tt : tt = [k \in DOMAIN more |-> Image(more[k])]
    OBVIOUS
  <1>5. ss \in Seq(Seq(Byte)) /\ tt \in Seq(Seq(Byte)) /\ Image(call) \in Seq(Byte)
    BY <1>2, <1>3, <1>4, Images, ImageType
  <1>6. Len(ss) = Len(calls) /\ Len(tt) = Len(ss) + 1 /\ tt[Len(ss) + 1] = Image(call)
    BY <1>2, <1>3, <1>4
  <1>a. \A k \in 1 .. Len(ss) : tt[k] = ss[k]
    <2> TAKE k \in 1 .. Len(ss)
    <2>1. k \in DOMAIN calls /\ k \in DOMAIN more /\ more[k] = calls[k]
      BY <1>2, <1>6
    <2> QED
      BY <1>3, <1>4, <2>1
  <1>7. tt = Append(ss, Image(call))
    BY <1>5, <1>6, <1>a
  <1>8. FlattenSeq(Append(ss, Image(call))) = FlattenSeq(ss) \o Image(call)
    BY <1>5, FlattenAppend
  <1> QED
    BY <1>1, <1>3, <1>4, <1>7, <1>8, Zenon DEF Wire

(* The packet that was sent first arrives first. *)
LEMMA WireFirst ==
    ASSUME NEW calls \in Seq(Calls), calls # <<>>
    PROVE  Wire(calls) = Image(calls[1]) \o Wire(Tail(calls))
  <1>1. PICK rest : rest = Tail(calls)
    OBVIOUS
  <1>2. /\ rest \in Seq(Calls) /\ Len(rest) = Len(calls) - 1
        /\ \A k \in 1 .. Len(rest) : rest[k] = calls[k + 1]
    BY <1>1
  <1>3. PICK ss : ss = [k \in DOMAIN calls |-> Image(calls[k])]
    OBVIOUS
  <1>4. PICK tt : tt = [k \in DOMAIN rest |-> Image(rest[k])]
    OBVIOUS
  <1>5. ss \in Seq(Seq(Byte)) /\ tt \in Seq(Seq(Byte))
    BY <1>2, <1>3, <1>4, Images
  <1>6. Len(ss) = Len(calls) /\ Len(tt) = Len(ss) - 1 /\ ss # <<>>
    BY <1>2, <1>3, <1>4
  <1>7. \A k \in 1 .. Len(tt) : tt[k] = ss[k + 1]
    BY <1>2, <1>3, <1>4, <1>6
  <1>8. Tail(ss) = tt
    <2>1. /\ Tail(ss) \in Seq(Seq(Byte)) /\ Len(Tail(ss)) = Len(tt)
          /\ \A i \in 1 .. Len(tt) : Tail(ss)[i] = tt[i]
      BY <1>5, <1>6, <1>7, HeadTailProperties
    <2> QED
      BY <1>5, <2>1, SeqEqual
  <1>9. FlattenSeq(ss) = Head(ss) \o FlattenSeq(Tail(ss))
    BY <1>5, <1>6, FlattenFirst
  <1>10. Head(ss) = Image(calls[1])
    BY <1>3, <1>6
  <1> QED
    BY <1>1, <1>3, <1>4, <1>8, <1>9, <1>10, Zenon DEF Wire

(* The next byte in the connection, when the loop has stored i bytes of    *)
(* the frame f and holds the bytes of pend back, and w is behind it.       *)
Follows(f, i, w, pend, x) ==
    \/ /\ i = Len(f) /\ pend = <<>> /\ Head(x) = Dash
       /\ <<Dash>> \o Tail(x) = Left(f, i) \o w
    \/ i = Len(f) /\ pend = <<Dash>> /\ Head(x) = Dash /\ Tail(x) = w
    \/ /\ i < Len(f) /\ pend = <<>> /\ Head(x) = f[i + 1] /\ Head(x) \notin {Dash, Quest}
       /\ Tail(x) = Left(f, i + 1) \o w
    \/ /\ i < Len(f) /\ pend = <<>> /\ Head(x) = Quest
       /\ <<Quest>> \o Tail(x) = Left(f, i) \o w
    \/ /\ i < Len(f) /\ pend = <<Quest>> /\ Head(x) = Dash /\ f[i + 1] = Dash
       /\ Tail(x) = Left(f, i + 1) \o w
    \/ /\ i < Len(f) /\ pend = <<Quest>> /\ Head(x) = Star /\ f[i + 1] = Quest
       /\ Tail(x) = Left(f, i + 1) \o w

LEMMA NextByte ==
    ASSUME NEW f \in Seq(Byte), NEW i \in 0 .. Len(f), NEW w \in Seq(Byte),
           NEW pend \in {<<>>, <<Dash>>, <<Quest>>}, NEW x \in Seq(Byte),
           x # <<>>
    PROVE  pend \o x = Left(f, i) \o w => Follows(f, i, w, pend, x)
  <1>h. SUFFICES ASSUME pend \o x = Left(f, i) \o w
                 PROVE  Follows(f, i, w, pend, x)
    OBVIOUS
  <1>0. Dash \in Byte /\ Quest \in Byte /\ Star \in Byte /\ Dash # Quest
    BY Bytes
  <1>p. pend = <<>> \/ pend = <<Dash>> \/ pend = <<Quest>>
    OBVIOUS
  <1>u. PICK u : u = Left(f, i) \o w
    OBVIOUS
  <1>i. pend \o x = u
    BY <1>h, <1>u, Zenon
  <1>e. ASSUME pend = <<>> PROVE x = u
    <2>1. <<>> \o x = x
      OBVIOUS
    <2> QED
      BY <1>i, <1>e, <2>1, Zenon
  <1>1. CASE i = Len(f)
    <2>1. PICK y : y = <<Dash>> \o w
      OBVIOUS
    <2>2. y \in Seq(Byte)
      BY <1>0, <2>1, OneFirst
    <2>3. u = <<Dash>> \o y
      <3>1. <<Dash, Dash>> \o w = <<Dash>> \o (<<Dash>> \o w)
        BY <1>0, TwoFirst
      <3> QED
        BY <1>1, <1>u, <2>1, <3>1, LeftLast, Zenon
    <2>4. CASE pend = <<>>
      <3>1. Head(x) = Dash /\ Tail(x) = y
        <4>1. Head(<<Dash>> \o y) = Dash /\ Tail(<<Dash>> \o y) = y
          BY <1>0, <2>2, OneFirst
        <4> QED
          BY <1>e, <2>3, <2>4, <4>1, Zenon
      <3>2. i = Len(f) /\ pend = <<>> /\ Head(x) = Dash /\ <<Dash>> \o Tail(x) = Left(f, i) \o w
        BY <1>1, <1>u, <2>3, <2>4, <3>1, Zenon
      <3> QED
        BY <3>2, Zenon DEF Follows
    <2>5. CASE pend = <<Dash>>
      <3>1. x = <<Dash>> \o w
        <4>1. <<Dash>> \o x = <<Dash>> \o y
          BY <1>i, <2>3, <2>5, Zenon
        <4>2. Tail(<<Dash>> \o x) = x /\ Tail(<<Dash>> \o y) = y
          BY <1>0, <2>2, OneFirst
        <4>3. x = y
          BY <4>1, <4>2, Zenon
        <4> QED
          BY <2>1, <4>3, Zenon
      <3>2. Head(x) = Dash /\ Tail(x) = w
        BY <1>0, <3>1, OneFirst
      <3> QED
        BY <1>1, <2>5, <3>2, Zenon DEF Follows
    <2>6. CASE pend = <<Quest>>
      <3>1. <<Quest>> \o x = <<Dash>> \o y
        BY <1>i, <2>3, <2>6, Zenon
      <3>2. Head(<<Quest>> \o x) = Quest /\ Head(<<Dash>> \o y) = Dash
        BY <1>0, <2>2, OneFirst
      <3>3. Quest = Dash
        BY <3>1, <3>2, Zenon
      <3> QED
        BY <1>0, <3>3, Zenon
    <2> QED
      BY <1>p, <2>4, <2>5, <2>6, Zenon
  <1>2. CASE i < Len(f)
    <2>1. PICK b, l, r : b = f[i + 1] /\ l = Left(f, i + 1) /\ r = l \o w
      OBVIOUS
    <2>2. b \in Byte /\ l \in Seq(Byte) /\ r \in Seq(Byte)
      <3>1. i + 1 \in 1 .. Len(f) /\ i + 1 \in 0 .. Len(f)
        BY <1>2
      <3>2. b \in Byte /\ l \in Seq(Byte)
        BY <2>1, <3>1, LeftType
      <3> QED
        BY <2>1, <3>2
    <2>3. Left(f, i) = Escape(b) \o l
      BY <1>2, <2>1, LeftNext
    <2>4. PICK e : e = Escape(b)
      OBVIOUS
    <2>5. e \in Seq(Byte)
      BY <2>2, <2>4, EscapeType
    <2>6. u = e \o r
      <3>1. (e \o l) \o w = e \o (l \o w)
        BY <2>2, <2>5
      <3> QED
        BY <1>u, <2>1, <2>3, <2>4, <3>1, Zenon
    <2>7. CASE b \in {Dash, Quest}
      <3>1. PICK d : d = IF b = Dash THEN Dash ELSE Star
        OBVIOUS
      <3>2. d \in Byte /\ e = <<Quest, d>>
        BY <1>0, <2>4, <2>7, <3>1 DEF Escape
      <3>3. PICK y : y = <<d>> \o r
        OBVIOUS
      <3>4. y \in Seq(Byte)
        BY <2>2, <3>2, <3>3, OneFirst
      <3>5. u = <<Quest>> \o y
        <4>1. <<Quest, d>> \o r = <<Quest>> \o (<<d>> \o r)
          BY <1>0, <2>2, <3>2, TwoFirst
        <4> QED
          BY <2>6, <3>2, <3>3, <4>1, Zenon
      <3>6. CASE pend = <<>>
        <4>1. Head(x) = Quest /\ Tail(x) = y
          <5>1. Head(<<Quest>> \o y) = Quest /\ Tail(<<Quest>> \o y) = y
            BY <1>0, <3>4, OneFirst
          <5> QED
            BY <1>e, <3>5, <3>6, <5>1, Zenon
        <4>2. <<Quest>> \o Tail(x) = Left(f, i) \o w
          BY <1>u, <3>5, <4>1, Zenon
        <4> QED
          BY <1>2, <3>6, <4>1, <4>2, Zenon DEF Follows
      <3>7. CASE pend = <<Dash>>
        <4>1. <<Dash>> \o x = <<Quest>> \o y
          BY <1>i, <3>5, <3>7, Zenon
        <4>2. Head(<<Dash>> \o x) = Dash /\ Head(<<Quest>> \o y) = Quest
          BY <1>0, <3>4, OneFirst
        <4>3. Quest = Dash
          BY <4>1, <4>2, Zenon
        <4> QED
          BY <1>0, <4>3, Zenon
      <3>8. CASE pend = <<Quest>>
        <4>1. x = <<d>> \o r
          <5>1. <<Quest>> \o x = <<Quest>> \o y
            BY <1>i, <3>5, <3>8, Zenon
          <5>2. Tail(<<Quest>> \o x) = x /\ Tail(<<Quest>> \o y) = y
            BY <1>0, <3>4, OneFirst
          <5>3. x = y
            BY <5>1, <5>2, Zenon
          <5> QED
            BY <3>3, <5>3, Zenon
        <4>2. Head(x) = d /\ Tail(x) = r
          BY <2>2, <3>2, <4>1, OneFirst, Zenon
        <4>3. CASE b = Dash
          BY <1>2, <2>1, <3>1, <3>8, <4>2, <4>3, Zenon DEF Follows
        <4>4. CASE b # Dash
          BY <1>2, <2>1, <2>7, <3>1, <3>8, <4>2, <4>4, Zenon DEF Follows
        <4> QED
          BY <4>3, <4>4
      <3> QED
        BY <1>p, <3>6, <3>7, <3>8, Zenon
    <2>8. CASE b \notin {Dash, Quest}
      <3>1. e = <<b>>
        BY <2>4, <2>8 DEF Escape
      <3>2. pend \o x = <<b>> \o r
        BY <1>i, <2>6, <3>1, Zenon
      <3>3. CASE pend = <<>>
        <4>1. Head(x) = b /\ Tail(x) = r
          <5>1. Head(<<b>> \o r) = b /\ Tail(<<b>> \o r) = r
            BY <2>2, OneFirst
          <5> QED
            BY <1>e, <1>i, <3>2, <3>3, <5>1, Zenon
        <4> QED
          BY <1>2, <2>1, <2>8, <3>3, <4>1, Zenon DEF Follows
      <3>4. CASE pend = <<Dash>>
        <4>1. <<Dash>> \o x = <<b>> \o r
          BY <3>2, <3>4, Zenon
        <4>2. Head(<<Dash>> \o x) = Dash /\ Head(<<b>> \o r) = b
          BY <1>0, <2>2, OneFirst
        <4>3. b = Dash
          BY <4>1, <4>2, Zenon
        <4> QED
          BY <2>8, <4>3, Zenon
      <3>5. CASE pend = <<Quest>>
        <4>1. <<Quest>> \o x = <<b>> \o r
          BY <3>2, <3>5, Zenon
        <4>2. Head(<<Quest>> \o x) = Quest /\ Head(<<b>> \o r) = b
          BY <1>0, <2>2, OneFirst
        <4>3. b = Quest
          BY <4>1, <4>2, Zenon
        <4> QED
          BY <2>8, <4>3, Zenon
      <3> QED
        BY <1>p, <3>3, <3>4, <3>5, Zenon
    <2> QED
      BY <2>7, <2>8
  <1>3. i = Len(f) \/ i < Len(f)
    OBVIOUS
  <1> QED
    BY <1>1, <1>2, <1>3, Zenon

-----------------------------------------------------------------------------
(* The receive loop *)

(* What verify_packet says of a frame. *)
LEMMA FrameVerified ==
    ASSUME NEW call \in Calls, NEW n \in 0 .. MaxNumber
    PROVE  /\ IsTorn(call) => ~Verify(n, Frame(call))
           /\ ~IsTorn(call) => (Verify(n, Frame(call)) <=> call.pn >= n \/ n >= MaxNumber - Allowance)
  <1>1. PICK f : f = Frame(call)
    OBVIOUS
  <1>2. /\ f \in Seq(Byte) /\ f[1] = call.pn /\ f[2] = call.size
        /\ Len(f) = 3 + (IF IsTorn(call) THEN Len(call.data) ELSE call.size)
        /\ ~IsTorn(call) => Last(f) = Xor(Front(f))
    BY <1>1, FrameFacts
  <1>3. call.size \in Nat /\ Len(call.data) \in Nat /\ (IsTorn(call) <=> Len(call.data) > call.size)
    BY PayloadsAreShort, FramingAssumption DEF Calls, Byte, IsTorn
  <1>4. IsTorn(call) => f[2] # Len(f) - HeaderSize - FooterSize
    BY <1>2, <1>3 DEF HeaderSize, FooterSize
  <1>5. ~IsTorn(call) => f[2] = Len(f) - HeaderSize - FooterSize /\ Len(f) >= HeaderSize + FooterSize
    BY <1>2, <1>3 DEF HeaderSize, FooterSize
  <1> QED
    BY <1>1, <1>2, <1>4, <1>5, Zenon DEF Verify

(* Where the loop is: it has i bytes of the frame f, and w is behind it. *)
Ahead(f, i, w) ==
    \/ /\ i = Len(f) /\ sep_count = 0 /\ prevc # Quest /\ Head(stream) = Dash
       /\ <<Dash>> \o Tail(stream) = Left(f, i) \o w
    \/ i = Len(f) /\ sep_count = 1 /\ Head(stream) = Dash /\ Tail(stream) = w
    \/ /\ i < Len(f) /\ sep_count = 0 /\ prevc # Quest
       /\ Head(stream) = f[i + 1] /\ Head(stream) \notin {Dash, Quest}
       /\ Tail(stream) = Left(f, i + 1) \o w
    \/ /\ i < Len(f) /\ sep_count = 0 /\ prevc # Quest /\ Head(stream) = Quest
       /\ <<Quest>> \o Tail(stream) = Left(f, i) \o w
    \/ /\ i < Len(f) /\ sep_count = 0 /\ prevc = Quest /\ Head(stream) = Dash /\ f[i + 1] = Dash
       /\ Tail(stream) = Left(f, i + 1) \o w
    \/ /\ i < Len(f) /\ sep_count = 0 /\ prevc = Quest /\ Head(stream) = Star /\ f[i + 1] = Quest
       /\ Tail(stream) = Left(f, i + 1) \o w

Place(f, i, w) ==
    /\ sent # <<>> /\ sent[1] \in Calls /\ f = Frame(sent[1])
    /\ f \in Seq(Byte) /\ i \in 0 .. Len(f) /\ i = Len(packet_buf)
    /\ packet_buf = SubSeq(f, 1, i)
    /\ Tail(sent) \in Seq(Calls) /\ w = Wire(Tail(sent)) /\ w \in Seq(Byte)

LEMMA PlaceInFrame ==
    ASSUME Framed, stream # <<>>
    PROVE  \E f, i, w : Place(f, i, w) /\ Ahead(f, i, w)
  <1>1. /\ stream \in Seq(Byte) /\ packet_buf \in Seq(Byte) /\ sent \in Seq(Calls)
        /\ sep_count \in 0 .. 1 /\ BytesAgree /\ (sep_count = 1 => prevc # Quest)
    BY DEF Framed, TypeOK, SeparatorSize
  <1>2. sent # <<>>
    BY <1>1 DEF BytesAgree
  <1>3. PICK f, i, w : f = Frame(sent[1]) /\ i = Len(packet_buf) /\ w = Wire(Tail(sent))
    OBVIOUS
  <1>4. sent[1] \in Calls /\ Tail(sent) \in Seq(Calls)
    BY <1>1, <1>2
  <1>5. f \in Seq(Byte) /\ w \in Seq(Byte)
    BY <1>3, <1>4, ImageType, WireType
  <1>6. /\ i <= Len(f) /\ packet_buf = SubSeq(f, 1, i)
        /\ Pending \o stream = Left(f, i) \o w
    BY <1>1, <1>2, <1>3, Zenon DEF BytesAgree
  <1>7. i \in 0 .. Len(f)
    BY <1>1, <1>3, <1>5, <1>6
  <1>8. Place(f, i, w)
    BY <1>2, <1>3, <1>4, <1>5, <1>6, <1>7 DEF Place
  <1>9. PICK pend : pend = Pending
    OBVIOUS
  <1>10. /\ pend \in {<<>>, <<Dash>>, <<Quest>>}
         /\ pend = <<>> => sep_count = 0 /\ prevc # Quest
         /\ pend = <<Dash>> => sep_count = 1
         /\ pend = <<Quest>> => sep_count = 0 /\ prevc = Quest
    <2>1. <<Dash>> # <<Quest>> /\ <<>> # <<Dash>> /\ <<>> # <<Quest>>
      BY Bytes
    <2>2. CASE sep_count = 1
      BY <1>9, <2>1, <2>2 DEF Pending
    <2>3. CASE sep_count # 1
      <3>1. sep_count = 0
        BY <1>1, <2>3
      <3> QED
        BY <1>9, <2>1, <2>3, <3>1, Zenon DEF Pending
    <2> QED
      BY <2>2, <2>3
  <1>11. pend \o stream = Left(f, i) \o w
    BY <1>6, <1>9, Zenon
  <1>12. Follows(f, i, w, pend, stream)
    BY <1>1, <1>5, <1>7, <1>10, <1>11, NextByte, Zenon
  <1>13. Ahead(f, i, w)
    BY <1>10, <1>12, Zenon DEF Ahead, Follows
  <1> QED
    BY <1>8, <1>13, Zenon

(* The loop stores the next byte of the frame. *)
LEMMA Stored ==
    ASSUME Framed, NEW f, NEW i, NEW w, Place(f, i, w), i < Len(f),
           packet_buf' = Append(packet_buf, f[i + 1]), sent' = sent,
           sep_count' = 0, prevc' # Quest, stream' = Left(f, i + 1) \o w
    PROVE  packet_buf' \in Seq(Byte) /\ stream' \in Seq(Byte) /\ BytesAgree'
  <1>1. /\ sent # <<>> /\ f = Frame(sent[1]) /\ f \in Seq(Byte) /\ i \in 0 .. Len(f)
        /\ i = Len(packet_buf) /\ packet_buf = SubSeq(f, 1, i)
        /\ w = Wire(Tail(sent)) /\ w \in Seq(Byte) /\ i \in Nat /\ i + 1 \in 0 .. Len(f)
    BY DEF Place
  <1>2. packet_buf \in Seq(Byte) /\ f[i + 1] \in Byte
    BY <1>1 DEF Framed, TypeOK
  <1>3. packet_buf' \in Seq(Byte) /\ Len(packet_buf') = i + 1
    BY <1>1, <1>2
  <1>4. packet_buf' = SubSeq(f, 1, i + 1)
    <2>1. SubSeq(f, 1, i + 1) = Append(SubSeq(f, 1, i), f[i + 1])
      BY <1>1, OneMore
    <2> QED
      BY <1>1, <2>1, Zenon
  <1>5. Pending' = <<>>
    BY Bytes DEF Pending
  <1>6. PICK l : l = Left(f, i + 1)
    OBVIOUS
  <1>7. l \in Seq(Byte)
    BY <1>1, <1>6, LeftType
  <1>8. stream' \in Seq(Byte)
    BY <1>1, <1>6, <1>7
  <1>9. <<>> \o stream' = stream'
    BY <1>8
  <1>10. i + 1 <= Len(f)
    BY <1>1
  <1> QED
    BY <1>1, <1>3, <1>4, <1>5, <1>8, <1>9, <1>10, Zenon DEF BytesAgree

(* The loop holds a byte back. *)
LEMMA HeldBack ==
    ASSUME Framed, stream # <<>>, NEW f, NEW i, NEW w, Place(f, i, w), stream' = Tail(stream),
           packet_buf' = packet_buf, sent' = sent,
           Pending' \o Tail(stream) = Left(f, i) \o w
    PROVE  packet_buf' \in Seq(Byte) /\ stream' \in Seq(Byte) /\ BytesAgree'
  <1>1. /\ sent # <<>> /\ f = Frame(sent[1]) /\ f \in Seq(Byte) /\ i \in 0 .. Len(f)
        /\ i = Len(packet_buf) /\ packet_buf = SubSeq(f, 1, i) /\ w = Wire(Tail(sent)) /\ i <= Len(f)
    BY DEF Place
  <1>2. packet_buf \in Seq(Byte) /\ Tail(stream) \in Seq(Byte)
    BY DEF Framed, TypeOK
  <1> QED
    BY <1>1, <1>2, Zenon DEF BytesAgree

LEMMA NextNumbers ==
    ASSUME NEW n \in 0 .. MaxNumber
    PROVE  NextNumber(n) = IF n = MaxNumber THEN 0 ELSE n + 1
  <1>1. MaxNumber \in Nat /\ n \in Nat
    BY Bytes
  <1>2. CASE n = MaxNumber
    <2>1. (MaxNumber + 1) % (MaxNumber + 1) = 0
      BY <1>1
    <2> QED
      BY <1>2, <2>1 DEF NextNumber
  <1>3. CASE n # MaxNumber
    <2>1. (n + 1) % (MaxNumber + 1) = n + 1
      BY <1>1, <1>3
    <2> QED
      BY <1>3, <2>1 DEF NextNumber
  <1> QED
    BY <1>2, <1>3

LEMMA FramedIf ==
    ASSUME Framed, UNCHANGED <<send_pn, torn, sent, recv_pn, got>>,
           packet_buf' \in Seq(Byte), stream' \in Seq(Byte), BytesAgree',
           prevc' \in Byte, sep_count' \in 0 .. 1, sep_count' = 1 => prevc' # Quest
    PROVE  Framed'
  <1>1. SeparatorSize - 1 = 1
    BY DEF SeparatorSize
  <1> QED
    BY <1>1, Zenon DEF Framed, TypeOK

LEMMA FramedEscapedDash ==
    ASSUME Framed, EscapedDash, UNCHANGED <<send_pn, torn>>
    PROVE  Framed' /\ UNCHANGED <<sent, recv_pn, got>>
  <1>1. /\ stream # <<>> /\ Head(stream) = Dash /\ stream' = Tail(stream) /\ prevc = Quest
        /\ packet_buf' = Append(packet_buf, Dash) /\ prevc' = Dash
        /\ UNCHANGED <<sep_count, recv_pn, sent, got>>
    BY DEF EscapedDash, Arrives, Keep
  <1>2. sep_count \in 0 .. 1 /\ sep_count # 1
    BY <1>1 DEF Framed, TypeOK, SeparatorSize
  <1>3. PICK f, i, w : Place(f, i, w) /\ Ahead(f, i, w)
    BY <1>1, PlaceInFrame
  <1>4. i < Len(f) /\ f[i + 1] = Dash /\ sep_count = 0 /\ Tail(stream) = Left(f, i + 1) \o w
    BY <1>1, <1>2, <1>3, Bytes, Zenon DEF Ahead
  <1>5. packet_buf' \in Seq(Byte) /\ stream' \in Seq(Byte) /\ BytesAgree'
    BY <1>1, <1>3, <1>4, Bytes, Stored
  <1> QED
    BY <1>1, <1>4, <1>5, Bytes, FramedIf

LEMMA FramedHalfSeparator ==
    ASSUME Framed, HalfSeparator, UNCHANGED <<send_pn, torn>>
    PROVE  Framed' /\ UNCHANGED <<sent, recv_pn, got>>
  <1>1. /\ stream # <<>> /\ Head(stream) = Dash /\ stream' = Tail(stream) /\ prevc # Quest
        /\ sep_count + 1 # 2 /\ sep_count' = sep_count + 1 /\ prevc' = Dash
        /\ UNCHANGED <<packet_buf, recv_pn, sent, got>>
    BY DEF HalfSeparator, Arrives, SeparatorSize
  <1>2. sep_count = 0 /\ sep_count' = 1
    BY <1>1 DEF Framed, TypeOK, SeparatorSize
  <1>3. PICK f, i, w : Place(f, i, w) /\ Ahead(f, i, w)
    BY <1>1, PlaceInFrame
  <1>4. <<Dash>> \o Tail(stream) = Left(f, i) \o w
    <2>1. sep_count # 1 /\ Head(stream) \in {Dash, Quest} /\ Head(stream) # Quest /\ prevc # Quest
      BY <1>1, <1>2, Bytes
    <2> QED
      BY <1>3, <2>1, Zenon DEF Ahead
  <1>5. Pending' = <<Dash>>
    BY <1>2 DEF Pending
  <1>6. packet_buf' \in Seq(Byte) /\ stream' \in Seq(Byte) /\ BytesAgree'
    <2>1. Pending' \o Tail(stream) = Left(f, i) \o w
      BY <1>4, <1>5, Zenon
    <2> QED
      BY <1>1, <1>3, <2>1, HeldBack, Zenon
  <1> QED
    BY <1>1, <1>2, <1>6, Bytes, FramedIf

LEMMA FramedStarByte ==
    ASSUME Framed, StarByte, UNCHANGED <<send_pn, torn>>
    PROVE  Framed' /\ UNCHANGED <<sent, recv_pn, got>>
  <1>1. /\ stream # <<>> /\ Head(stream) = Star /\ stream' = Tail(stream) /\ prevc' = Star
        /\ packet_buf' = Append(packet_buf, IF prevc = Quest THEN Quest ELSE Star)
        /\ UNCHANGED <<sep_count, recv_pn, sent, got>>
    BY DEF StarByte, Arrives, Keep
  <1>2. PICK f, i, w : Place(f, i, w) /\ Ahead(f, i, w)
    BY <1>1, PlaceInFrame
  <1>3. /\ i < Len(f) /\ sep_count = 0 /\ f[i + 1] = IF prevc = Quest THEN Quest ELSE Star
        /\ Tail(stream) = Left(f, i + 1) \o w
    <2>1. Head(stream) # Dash /\ Head(stream) # Quest
      BY <1>1, Bytes
    <2> QED
      BY <1>1, <1>2, <2>1, Zenon DEF Ahead
  <1>4. packet_buf' \in Seq(Byte) /\ stream' \in Seq(Byte) /\ BytesAgree'
    BY <1>1, <1>2, <1>3, Bytes, Stored
  <1> QED
    BY <1>1, <1>3, <1>4, Bytes, FramedIf

LEMMA FramedOtherByte ==
    ASSUME Framed, OtherByte, UNCHANGED <<send_pn, torn>>
    PROVE  Framed' /\ UNCHANGED <<sent, recv_pn, got>>
  <1>1. PICK c \in Byte \ {Dash, Star} :
            /\ Arrives(c)
            /\ IF prevc = Quest \/ sep_count > 0
               THEN StartOver /\ UNCHANGED <<recv_pn, sent, got>>
               ELSE IF c = Quest
               THEN prevc' = c /\ UNCHANGED <<packet_buf, sep_count, recv_pn, sent, got>>
               ELSE Keep(c, c)
    BY DEF OtherByte
  <1>2. stream # <<>> /\ Head(stream) = c /\ stream' = Tail(stream) /\ c # Dash /\ c # Star
    BY <1>1 DEF Arrives
  <1>3. PICK f, i, w : Place(f, i, w) /\ Ahead(f, i, w)
    BY <1>2, PlaceInFrame
  <1>4. sep_count = 0 /\ prevc # Quest
    BY <1>2, <1>3, Zenon DEF Ahead
  <1>5. CASE c = Quest
    <2>1. prevc' = Quest /\ UNCHANGED <<packet_buf, sep_count, recv_pn, sent, got>>
      BY <1>1, <1>4, <1>5
    <2>2. <<Quest>> \o Tail(stream) = Left(f, i) \o w
      <3>1. Head(stream) = Quest /\ Head(stream) # Dash
        BY <1>2, <1>5
      <3> QED
        BY <1>2, <1>3, <1>4, <3>1, Zenon DEF Ahead
    <2>3. Pending' = <<Quest>>
      BY <1>4, <2>1 DEF Pending
    <2>4. Pending' \o Tail(stream) = Left(f, i) \o w
      BY <2>2, <2>3, Zenon
    <2>5. packet_buf' \in Seq(Byte) /\ stream' \in Seq(Byte) /\ BytesAgree'
      BY <1>2, <1>3, <2>1, <2>4, HeldBack, Zenon
    <2> QED
      BY <1>4, <2>1, <2>5, Bytes, FramedIf
  <1>6. CASE c # Quest
    <2>1. packet_buf' = Append(packet_buf, c) /\ prevc' = c /\ UNCHANGED <<sep_count, recv_pn, sent, got>>
      BY <1>1, <1>4, <1>6 DEF Keep
    <2>2. i < Len(f) /\ c = f[i + 1] /\ Tail(stream) = Left(f, i + 1) \o w
      <3>1. Head(stream) # Dash /\ Head(stream) # Quest /\ Head(stream) # Star
        BY <1>2, <1>6
      <3> QED
        BY <1>2, <1>3, <1>4, <3>1, Zenon DEF Ahead
    <2>3. packet_buf' \in Seq(Byte) /\ stream' \in Seq(Byte) /\ BytesAgree'
      BY <1>2, <1>3, <1>4, <1>6, <2>1, <2>2, Stored
    <2> QED
      BY <1>4, <1>6, <2>1, <2>3, FramedIf
  <1> QED
    BY <1>5, <1>6

(* The frame is complete when its separator is: what is verified and       *)
(* dropped or processed is one whole frame, the one sent first.            *)
LEMMA FramedSeparator ==
    ASSUME Framed, Separator, UNCHANGED <<send_pn, torn>>
    PROVE  /\ Framed'
           /\ sent # <<>> /\ sent[1] \in Calls /\ sent' = Tail(sent)
           /\ packet_buf = Frame(sent[1])
  <1>1. /\ stream # <<>> /\ Head(stream) = Dash /\ stream' = Tail(stream) /\ prevc # Quest
        /\ sep_count + 1 = 2 /\ sent' = Tail(sent)
        /\ packet_buf' = <<>> /\ prevc' = 0 /\ sep_count' = 0
    BY DEF Separator, Arrives, SeparatorSize, StartOver
  <1>2. sep_count = 1
    BY <1>1 DEF Framed, TypeOK, SeparatorSize
  <1>3. PICK f, i, w : Place(f, i, w) /\ Ahead(f, i, w)
    BY <1>1, PlaceInFrame
  <1>4. i = Len(f) /\ Tail(stream) = w
    <2>1. sep_count # 0
      BY <1>2
    <2> QED
      BY <1>3, <2>1, Zenon DEF Ahead
  <1>5. /\ sent # <<>> /\ sent[1] \in Calls /\ f = Frame(sent[1]) /\ f \in Seq(Byte)
        /\ packet_buf = SubSeq(f, 1, i) /\ Tail(sent) \in Seq(Calls)
        /\ w = Wire(Tail(sent)) /\ w \in Seq(Byte)
    BY <1>3, Zenon DEF Place
  <1>6. packet_buf = f
    BY <1>4, <1>5, SubSeqFull
  <1>7. PICK call, rest : call = sent[1] /\ rest = Tail(sent)
    OBVIOUS
  <1>8. BytesAgree'
    <2>1. Pending' = <<>>
      BY <1>1, Bytes DEF Pending
    <2>2. CASE rest = <<>>
      <3>1. stream' = <<>>
        BY <1>1, <1>4, <1>5, <1>7, <2>2, WireEmpty, Zenon
      <3> QED
        BY <1>1, <1>7, <2>1, <2>2, <3>1, Zenon DEF BytesAgree
    <2>3. CASE rest # <<>>
      <3>1. rest \in Seq(Calls) /\ rest[1] \in Calls
        BY <1>5, <1>7, <2>3
      <3>2. PICK g : g = Frame(rest[1])
        OBVIOUS
      <3>3. g \in Seq(Byte) /\ Image(rest[1]) = Left(g, 0)
        BY <3>1, <3>2, ImageType, Zenon
      <3>4. Wire(rest) = Left(g, 0) \o Wire(Tail(rest))
        BY <2>3, <3>1, <3>3, WireFirst, Zenon
      <3>5. SubSeq(g, 1, 0) = <<>>
        BY SubSeqEmpty
      <3>6. Len(packet_buf') = 0 /\ 0 <= Len(g) /\ packet_buf' = SubSeq(g, 1, 0)
        BY <1>1, <3>3, <3>5
      <3>7. <<>> \o stream' = stream'
        BY <1>1, <1>4, <1>5
      <3>8. Pending' \o stream' = Left(g, 0) \o Wire(Tail(rest))
        BY <1>1, <1>4, <1>5, <1>7, <2>1, <3>4, <3>7, Zenon
      <3>9. sent' # <<>> /\ g = Frame(sent'[1]) /\ rest = sent'
        BY <1>1, <1>7, <2>3, <3>2, Zenon
      <3> QED
        BY <3>6, <3>8, <3>9, Zenon DEF BytesAgree
    <2> QED
      BY <2>2, <2>3
  <1>9. recv_pn' \in 0 .. MaxNumber /\ got' \in Payloads
    <2>1. recv_pn \in 0 .. MaxNumber /\ got \in Payloads
      BY DEF Framed, TypeOK
    <2>2. CASE ~Verify(recv_pn, packet_buf)
      BY <2>1, <2>2 DEF Separator
    <2>3. CASE Verify(recv_pn, packet_buf)
      <3>1. ~IsTorn(call)
        BY <1>5, <1>6, <1>7, <2>1, <2>3, FrameVerified, Zenon
      <3>2. /\ recv_pn' = NextNumber(packet_buf[1])
            /\ got' = SubSeq(packet_buf, HeaderSize + 1, HeaderSize + packet_buf[2])
        BY <2>3 DEF Separator
      <3>3. /\ packet_buf[1] = call.pn /\ packet_buf[2] = call.size
            /\ SubSeq(packet_buf, 3, 2 + call.size) = Padded(call.size, call.data)
        BY <1>5, <1>6, <1>7, <3>1, FrameFacts, Zenon
      <3>4. call.pn \in 0 .. MaxNumber /\ Padded(call.size, call.data) \in Payloads
        BY <1>5, <1>7, PaddedFacts DEF Calls
      <3>5. recv_pn' \in 0 .. MaxNumber
        BY <3>2, <3>3, <3>4, NextNumbers, Bytes
      <3>6. HeaderSize + 1 = 3 /\ HeaderSize = 2
        BY DEF HeaderSize
      <3> QED
        BY <3>2, <3>3, <3>4, <3>5, <3>6, Zenon
    <2> QED
      BY <2>2, <2>3
  <1>10. SeparatorSize - 1 = 1 /\ 0 \in 0 .. 1 /\ 0 # 1 /\ 0 \in Byte
    BY Bytes DEF SeparatorSize
  <1>11. stream' \in Seq(Byte) /\ sent' \in Seq(Calls) /\ <<>> \in Seq(Byte)
    <2>1. <<>> \in Seq(Byte)
      OBVIOUS
    <2> QED
      BY <1>1, <1>4, <1>5, <2>1, Zenon
  <1>12. Framed'
    BY <1>1, <1>8, <1>9, <1>10, <1>11, Zenon DEF Framed, TypeOK
  <1> QED
    BY <1>1, <1>5, <1>6, <1>12, Zenon

-----------------------------------------------------------------------------
(* send_packet *)

LEMMA FramedSend ==
    ASSUME Framed, NEW size \in 0 .. MaxData, NEW data \in Payloads, Send(size, data),
           torn' \in 0 .. MaxTorn
    PROVE  Framed'
  <1>1. PICK call : call = [pn |-> send_pn, size |-> size, data |-> data]
    OBVIOUS
  <1>2. /\ stream' = stream \o Image(call) /\ sent' = Append(sent, call)
        /\ send_pn' = NextNumber(send_pn)
        /\ UNCHANGED <<packet_buf, prevc, sep_count, recv_pn, got>>
    BY <1>1, Zenon DEF Send, loop
  <1>3. /\ send_pn \in 0 .. MaxNumber /\ stream \in Seq(Byte) /\ sent \in Seq(Calls)
        /\ packet_buf \in Seq(Byte) /\ BytesAgree
    BY DEF Framed, TypeOK
  <1>4. call \in Calls
    BY <1>1, <1>3 DEF Calls
  <1>5. PICK m : m = Image(call)
    OBVIOUS
  <1>6. m \in Seq(Byte) /\ m = Left(Frame(call), 0) /\ Frame(call) \in Seq(Byte)
    BY <1>4, <1>5, ImageType, Zenon
  <1>7. stream' \in Seq(Byte) /\ sent' \in Seq(Calls) /\ sent' # <<>>
    BY <1>2, <1>3, <1>4, <1>5, <1>6
  <1>8. send_pn' \in 0 .. MaxNumber
    BY <1>2, <1>3, NextNumbers, Bytes
  <1>9. PICK pend : pend = Pending
    OBVIOUS
  <1>10. pend \in Seq(Byte) /\ Pending' = pend
    <2>1. Pending' = Pending
      BY <1>2, Zenon DEF Pending
    <2> QED
      BY <1>9, <2>1, Bytes DEF Pending
  <1>11. BytesAgree'
    <2>1. CASE sent = <<>>
      <3>1. packet_buf = <<>> /\ pend = <<>> /\ stream = <<>>
        BY <1>3, <1>9, <2>1, Zenon DEF BytesAgree
      <3>2. sent'[1] = call /\ Tail(sent') = <<>>
        BY <1>2, <2>1
      <3>3. stream' = m
        BY <1>2, <1>5, <1>6, <3>1
      <3>4. <<>> \o m = m /\ m \o <<>> = m
        BY <1>6
      <3>5. PICK g : g = Frame(call)
        OBVIOUS
      <3>6. SubSeq(g, 1, 0) = <<>>
        BY SubSeqEmpty
      <3>7. Len(packet_buf') = 0 /\ 0 <= Len(g) /\ packet_buf' = SubSeq(g, 1, 0)
        BY <1>2, <1>6, <3>1, <3>5, <3>6
      <3>8. Pending' \o stream' = Left(g, 0) \o Wire(Tail(sent'))
        BY <1>6, <1>10, <3>1, <3>2, <3>3, <3>4, <3>5, WireEmpty, Zenon
      <3> QED
        BY <1>7, <3>2, <3>5, <3>7, <3>8, Zenon DEF BytesAgree
    <2>2. CASE sent # <<>>
      <3>1. PICK g, i, rest : g = Frame(sent[1]) /\ i = Len(packet_buf) /\ rest = Tail(sent)
        OBVIOUS
      <3>2. /\ i <= Len(g) /\ packet_buf = SubSeq(g, 1, i)
            /\ pend \o stream = Left(g, i) \o Wire(rest)
        BY <1>3, <1>9, <2>2, <3>1, Zenon DEF BytesAgree
      <3>3. rest \in Seq(Calls) /\ sent[1] \in Calls /\ sent'[1] = sent[1] /\ Tail(sent') = Append(rest, call)
        BY <1>2, <1>3, <1>4, <2>2, <3>1
      <3>4. PICK l, w : l = Left(g, i) /\ w = Wire(rest)
        OBVIOUS
      <3>5. l \in Seq(Byte) /\ w \in Seq(Byte)
        <4>1. g \in Seq(Byte)
          BY <3>1, <3>3, ImageType, Zenon
        <4>2. i \in 0 .. Len(g)
          BY <1>3, <3>1, <3>2, <4>1
        <4> QED
          BY <3>3, <3>4, <4>1, <4>2, LeftType, WireType, Zenon
      <3>6. Wire(Tail(sent')) = w \o m
        BY <1>4, <1>5, <3>3, <3>4, WireAppend, Zenon
      <3>7. pend \o (stream \o m) = (pend \o stream) \o m
        <4>1. PICK x : x = stream
          OBVIOUS
        <4>2. pend \in Seq(Byte) /\ x \in Seq(Byte) /\ m \in Seq(Byte)
          BY <1>3, <1>6, <1>10, <4>1, Zenon
        <4>3. pend \o (x \o m) = (pend \o x) \o m
          BY <4>2
        <4> QED
          BY <4>1, <4>3, Zenon
      <3>8. (l \o w) \o m = l \o (w \o m)
        BY <1>6, <3>5
      <3>9. Pending' \o stream' = Left(g, i) \o Wire(Tail(sent'))
        BY <1>2, <1>5, <1>10, <3>2, <3>4, <3>6, <3>7, <3>8, Zenon
      <3> QED
        BY <1>2, <1>7, <3>1, <3>2, <3>3, <3>9, Zenon DEF BytesAgree
    <2> QED
      BY <2>1, <2>2
  <1> QED
    BY <1>2, <1>7, <1>8, <1>11, Zenon DEF Framed, TypeOK

-----------------------------------------------------------------------------
(* The bytes: types and buffer, whatever is torn *)

LEMMA FramedInit == ASSUME Init PROVE Framed
  <1>1. /\ 0 \in 0 .. MaxNumber /\ 0 \in 0 .. MaxTorn /\ 0 \in Byte /\ 0 \in 0 .. SeparatorSize - 1
        /\ <<>> \in Seq(Byte) /\ <<>> \in Seq(Calls) /\ <<>> \in Payloads
    <2>1. <<>> \in Seq(Byte) /\ <<>> \in Seq(Calls) /\ Len(<<>>) = 0
      OBVIOUS
    <2>2. MaxData \in Nat /\ MaxTorn \in Nat
      BY FramingAssumption DEF Byte
    <2>3. <<>> \in Payloads
      <3>1. 0 <= MaxData
        BY <2>2
      <3> QED
        BY <2>1, <3>1, PayloadsAreShort, Zenon
    <2> QED
      BY <2>1, <2>2, <2>3, Bytes DEF SeparatorSize
  <1>2. Pending = <<>>
    BY Bytes DEF Init, Pending
  <1> QED
    BY <1>1, <1>2 DEF Init, Framed, TypeOK, BytesAgree

LEMMA FramedStep == ASSUME Framed, [Next]_vars PROVE Framed'
  <1>1. ASSUME NEW size \in 0 .. MaxData, NEW data \in Payloads, SendPacket(size, data)
        PROVE  Framed'
    <2>1. torn' \in 0 .. MaxTorn
      BY <1>1, FramingAssumption DEF SendPacket
    <2> QED
      BY <1>1, <2>1, FramedSend DEF SendPacket
  <1>2. ASSUME NEW size \in 0 .. MaxData, NEW data \in Payloads, SendTorn(size, data)
        PROVE  Framed'
    <2>1. torn' \in 0 .. MaxTorn
      BY <1>2, FramingAssumption DEF SendTorn, Framed, TypeOK
    <2> QED
      BY <1>2, <2>1, FramedSend DEF SendTorn
  <1>3. CASE Receive
    BY <1>3, FramedEscapedDash, FramedHalfSeparator, FramedSeparator, FramedStarByte, FramedOtherByte
       DEF Receive
  <1>4. CASE UNCHANGED vars
    BY <1>4 DEF vars, loop, Framed, TypeOK, BytesAgree, Pending
  <1> QED
    BY <1>1, <1>2, <1>3, <1>4 DEF Next

(* Every byte read belongs to the packet sent first, whatever was sent.    *)
THEOREM FramedInvariance == Spec => []Framed
  BY FramedInit, FramedStep, PTL DEF Spec

(* The type invariant. *)
THEOREM FramingTypeCorrect == Spec => []TypeOK
  <1>1. Framed => TypeOK
    BY DEF Framed
  <1> QED
    BY <1>1, FramedInvariance, PTL

LEMMA FramedBuffer == ASSUME Framed PROVE BufferHoldsPacket
  <1>1. packet_buf \in Seq(Byte) /\ sent \in Seq(Calls) /\ BytesAgree /\ MaxData \in Nat
    BY FramingAssumption DEF Framed, TypeOK, Byte
  <1>2. CASE sent = <<>>
    BY <1>1, <1>2 DEF BytesAgree, BufferHoldsPacket, HeaderSize, FooterSize
  <1>3. CASE sent # <<>>
    <2>1. PICK f : f = Frame(sent[1])
      OBVIOUS
    <2>2. Len(packet_buf) <= Len(f)
      BY <1>1, <1>3, <2>1, Zenon DEF BytesAgree
    <2>3. f \in Seq(Byte) /\ Len(f) <= 3 + MaxData
      <3>1. sent[1] \in Calls
        BY <1>1, <1>3
      <3> QED
        BY <2>1, <3>1, FrameFacts, Zenon
    <2>4. Len(packet_buf) \in Nat /\ Len(f) \in Nat
      BY <1>1, <2>3
    <2> QED
      BY <1>1, <2>2, <2>3, <2>4 DEF BufferHoldsPacket, HeaderSize, FooterSize
  <1> QED
    BY <1>2, <1>3

(* The receive loop never writes behind packet_buf, not even when it takes *)
(* in torn packets one after the other.                                    *)
THEOREM BufferCorrect == Spec => []BufferHoldsPacket
  <1>1. Framed => BufferHoldsPacket
    BY FramedBuffer
  <1> QED
    BY <1>1, FramedInvariance, PTL

-----------------------------------------------------------------------------
(* The packet numbers *)

(* What the steps do to the numbers and to the history. *)
Sends(call) ==
    /\ call \in Calls /\ call.pn = send_pn /\ sent' = Append(sent, call)
    /\ send_pn' = NextNumber(send_pn) /\ recv_pn' = recv_pn /\ got' = got
    /\ torn' = (IF IsTorn(call) THEN torn + 1 ELSE 0) /\ torn' \in 0 .. MaxTorn

Verifies ==
    /\ sent # <<>> /\ sent[1] \in Calls /\ sent' = Tail(sent)
    /\ UNCHANGED <<send_pn, torn>>
    /\ IF IsTorn(sent[1])
       THEN UNCHANGED <<recv_pn, got>>
       ELSE IF sent[1].pn >= recv_pn \/ recv_pn >= MaxNumber - Allowance
       THEN /\ recv_pn' = NextNumber(sent[1].pn)
            /\ got' = Padded(sent[1].size, sent[1].data)
       ELSE UNCHANGED <<recv_pn, got>>

LEMMA StepKinds ==
    ASSUME Framed, [Next]_vars
    PROVE  \/ UNCHANGED <<send_pn, torn, sent, recv_pn, got>>
           \/ \E call : Sends(call)
           \/ Verifies
  <1>1. ASSUME NEW size \in 0 .. MaxData, NEW data \in Payloads, torn' \in 0 .. MaxTorn,
               torn' = (IF Len(data) > size THEN torn + 1 ELSE 0), Send(size, data)
        PROVE  \E call : Sends(call)
    <2>1. PICK call : call = [pn |-> send_pn, size |-> size, data |-> data]
      OBVIOUS
    <2>2. call \in Calls /\ call.pn = send_pn /\ call.size = size /\ call.data = data
      BY <2>1 DEF Framed, TypeOK, Calls
    <2>3. /\ sent' = Append(sent, call) /\ send_pn' = NextNumber(send_pn)
          /\ recv_pn' = recv_pn /\ got' = got
      BY <1>1, <2>1, Zenon DEF Send, loop
    <2> QED
      BY <1>1, <2>2, <2>3, Zenon DEF Sends, IsTorn
  <1>2. ASSUME NEW size \in 0 .. MaxData, NEW data \in Payloads, SendPacket(size, data)
        PROVE  \E call : Sends(call)
    <2>1. Len(data) \in Nat /\ size \in Nat
      BY PayloadsAreShort
    <2>2. torn' \in 0 .. MaxTorn /\ torn' = (IF Len(data) > size THEN torn + 1 ELSE 0)
      BY <1>2, <2>1, FramingAssumption DEF SendPacket
    <2> QED
      BY <1>1, <1>2, <2>2, Zenon DEF SendPacket
  <1>3. ASSUME NEW size \in 0 .. MaxData, NEW data \in Payloads, SendTorn(size, data)
        PROVE  \E call : Sends(call)
    <2>1. torn' \in 0 .. MaxTorn /\ torn' = (IF Len(data) > size THEN torn + 1 ELSE 0)
      BY <1>3, FramingAssumption DEF SendTorn, Framed, TypeOK
    <2> QED
      BY <1>1, <1>3, <2>1, Zenon DEF SendTorn
  <1>4. ASSUME Separator, UNCHANGED <<send_pn, torn>>
        PROVE  Verifies
    <2>1. /\ sent # <<>> /\ sent[1] \in Calls /\ sent' = Tail(sent)
          /\ packet_buf = Frame(sent[1])
      BY <1>4, FramedSeparator
    <2>2. recv_pn \in 0 .. MaxNumber
      BY DEF Framed, TypeOK
    <2>3. /\ IsTorn(sent[1]) => ~Verify(recv_pn, packet_buf)
          /\ ~IsTorn(sent[1]) =>
                (Verify(recv_pn, packet_buf)
                 <=> sent[1].pn >= recv_pn \/ recv_pn >= MaxNumber - Allowance)
      BY <2>1, <2>2, FrameVerified, Zenon
    <2>4. HeaderSize + 1 = 3 /\ HeaderSize = 2
      BY DEF HeaderSize
    <2>5. ~IsTorn(sent[1]) =>
             /\ packet_buf[1] = sent[1].pn /\ packet_buf[2] = sent[1].size
             /\ SubSeq(packet_buf, 3, 2 + sent[1].size) = Padded(sent[1].size, sent[1].data)
      BY <2>1, FrameFacts, Zenon
    <2>6. IF Verify(recv_pn, packet_buf)
          THEN /\ recv_pn' = NextNumber(packet_buf[1])
               /\ got' = SubSeq(packet_buf, 3, 2 + packet_buf[2])
          ELSE UNCHANGED <<recv_pn, got>>
      BY <1>4, <2>4, Zenon DEF Separator
    <2> QED
      BY <1>4, <2>1, <2>3, <2>5, <2>6, Zenon DEF Verifies
  <1>5. CASE Receive
    BY <1>4, <1>5, FramedEscapedDash, FramedHalfSeparator, FramedStarByte, FramedOtherByte
       DEF Receive
  <1>6. CASE UNCHANGED vars
    BY <1>6 DEF vars, loop
  <1> QED
    BY <1>2, <1>3, <1>5, <1>6 DEF Next

(* run[k] is how many torn packets were sent in a row before the k-th. *)
Runs(run) ==
    /\ run \in [1 .. Len(sent) + 1 -> 0 .. MaxTorn]
    /\ run[Len(sent) + 1] = torn
    /\ \A k \in 1 .. Len(sent) : run[k + 1] = IF IsTorn(sent[k]) THEN run[k] + 1 ELSE 0
    /\ Number(1) \in {recv_pn + run[1], recv_pn + run[1] - (MaxNumber + 1)}

LEMMA NumbersInit == ASSUME Init PROVE NumbersAgree
  <1>1. Len(sent) = 0 /\ torn = 0 /\ recv_pn = 0 /\ send_pn = 0
    BY DEF Init
  <1>2. PICK run : run = [k \in 1 .. Len(sent) + 1 |-> 0]
    OBVIOUS
  <1>3. run \in [1 .. Len(sent) + 1 -> 0 .. MaxTorn] /\ run[1] = 0
    BY <1>1, <1>2, FramingAssumption
  <1>4. Number(1) = 0
    BY <1>1 DEF Number
  <1> QED
    BY <1>1, <1>3, <1>4 DEF NumbersAgree

LEMMA NumbersSend ==
    ASSUME Framed, NumbersAgree, NEW call, Sends(call)
    PROVE  NumbersAgree'
  <1>1. /\ sent \in Seq(Calls) /\ send_pn \in 0 .. MaxNumber /\ torn \in 0 .. MaxTorn
        /\ recv_pn \in 0 .. MaxNumber /\ MaxTorn \in Nat
    BY FramingAssumption DEF Framed, TypeOK
  <1>2. /\ call.pn = send_pn /\ sent' = Append(sent, call) /\ send_pn' = NextNumber(send_pn)
        /\ recv_pn' = recv_pn
        /\ torn' = (IF IsTorn(call) THEN torn + 1 ELSE 0) /\ torn' \in 0 .. MaxTorn
        /\ call \in Calls
    BY DEF Sends
  <1>3. PICK L : L = Len(sent) /\ L \in Nat
    BY <1>1
  <1>4. /\ Len(sent') = L + 1 /\ sent'[L + 1] = call
        /\ \A k \in 1 .. L : sent'[k] = sent[k]
    BY <1>1, <1>2, <1>3
  <1>5. \A k \in 1 .. L + 1 : Number(k)' = Number(k)
    <2> TAKE k \in 1 .. L + 1
    <2>1. CASE k <= L
      BY <1>3, <1>4, <2>1 DEF Number
    <2>2. CASE k = L + 1
      BY <1>2, <1>3, <1>4, <2>2 DEF Number
    <2> QED
      BY <1>3, <2>1, <2>2
  <1>6. Number(L + 1) = send_pn /\ Number(L + 2)' = NextNumber(send_pn)
    BY <1>2, <1>3, <1>4 DEF Number
  <1>7. \A k \in 1 .. L + 1 : Number(k + 1)' = NextNumber(Number(k)')
    <2> TAKE k \in 1 .. L + 1
    <2>1. CASE k <= L
      <3>1. k \in 1 .. L /\ k + 1 \in 1 .. L + 1
        BY <1>3, <2>1
      <3>2. Number(k + 1) = NextNumber(Number(k))
        BY <1>3, <3>1 DEF NumbersAgree
      <3> QED
        BY <1>5, <3>1, <3>2
    <2>2. CASE k = L + 1
      <3>1. k + 1 = L + 2
        BY <1>3, <2>2
      <3> QED
        BY <1>5, <1>6, <2>2, <3>1
    <2> QED
      BY <1>3, <2>1, <2>2
  <1>8. PICK run : Runs(run)
    BY Zenon DEF NumbersAgree, Runs
  <1>9. PICK more : more = [k \in 1 .. L + 2 |-> IF k <= L + 1 THEN run[k] ELSE torn']
    OBVIOUS
  <1>10. /\ run \in [1 .. L + 1 -> 0 .. MaxTorn] /\ run[L + 1] = torn
         /\ \A k \in 1 .. L : run[k + 1] = IF IsTorn(sent[k]) THEN run[k] + 1 ELSE 0
         /\ Number(1) \in {recv_pn + run[1], recv_pn + run[1] - (MaxNumber + 1)}
    BY <1>3, <1>8 DEF Runs
  <1>11. /\ more \in [1 .. L + 2 -> 0 .. MaxTorn] /\ more[L + 2] = torn'
         /\ \A k \in 1 .. L + 1 : more[k] = run[k]
    BY <1>2, <1>3, <1>9, <1>10
  <1>12. \A k \in 1 .. L + 1 : more[k + 1] = IF IsTorn(sent'[k]) THEN more[k] + 1 ELSE 0
    <2> TAKE k \in 1 .. L + 1
    <2>1. CASE k <= L
      <3>1. k \in 1 .. L /\ k + 1 \in 1 .. L + 1 /\ sent'[k] = sent[k]
        BY <1>3, <1>4, <2>1
      <3> QED
        BY <1>10, <1>11, <3>1
    <2>2. CASE k = L + 1
      <3>1. more[k] = torn /\ more[k + 1] = torn' /\ sent'[k] = call
        BY <1>3, <1>4, <1>10, <1>11, <2>2
      <3> QED
        BY <1>2, <3>1
    <2> QED
      BY <1>3, <2>1, <2>2
  <1>13. Number(1)' \in {recv_pn' + more[1], recv_pn' + more[1] - (MaxNumber + 1)}
    <2>1. 1 \in 1 .. L + 1
      BY <1>3
    <2> QED
      BY <1>2, <1>5, <1>10, <1>11, <2>1
  <1>14. Runs(more)'
    <2>1. Len(sent') + 1 = L + 2
      BY <1>3, <1>4
    <2> QED
      BY <1>4, <1>11, <1>12, <1>13, <2>1 DEF Runs
  <1>15. Len(sent') = L + 1
    BY <1>4
  <1> QED
    BY <1>7, <1>14, <1>15, Zenon DEF NumbersAgree, Runs

(* The window of packet numbers is wide enough for the torn packets. *)
LEMMA InWindow ==
    ASSUME MaxTorn <= Allowance + 1, Framed, NumbersAgree, sent # <<>>, ~IsTorn(sent[1])
    PROVE  sent[1].pn >= recv_pn \/ recv_pn >= MaxNumber - Allowance
  <1>1. /\ sent \in Seq(Calls) /\ recv_pn \in 0 .. MaxNumber /\ MaxTorn \in Nat
        /\ Allowance \in Nat /\ MaxNumber \in Nat
    BY FramingAssumption, Bytes DEF Framed, TypeOK
  <1>2. PICK run : Runs(run)
    BY Zenon DEF NumbersAgree, Runs
  <1>3. run[1] \in 0 .. MaxTorn
    BY <1>1, <1>2 DEF Runs
  <1>4. Number(1) = sent[1].pn /\ sent[1].pn \in 0 .. MaxNumber
    <2>1. 1 <= Len(sent) /\ sent[1] \in Calls
      BY <1>1
    <2> QED
      BY <2>1 DEF Number, Calls
  <1>5. sent[1].pn \in {recv_pn + run[1], recv_pn + run[1] - (MaxNumber + 1)}
    BY <1>2, <1>4 DEF Runs
  <1> QED
    BY <1>1, <1>3, <1>4, <1>5

LEMMA NumbersVerify ==
    ASSUME MaxTorn <= Allowance + 1, Framed, NumbersAgree, Verifies
    PROVE  NumbersAgree'
  <1>1. /\ sent \in Seq(Calls) /\ sent # <<>> /\ send_pn \in 0 .. MaxNumber
        /\ recv_pn \in 0 .. MaxNumber /\ MaxTorn \in Nat /\ Allowance \in Nat
        /\ MaxNumber \in Nat /\ Allowance <= MaxNumber
    BY FramingAssumption, Bytes DEF Framed, TypeOK, Verifies
  <1>2. /\ sent' = Tail(sent) /\ send_pn' = send_pn /\ torn' = torn
        /\ recv_pn' = IF IsTorn(sent[1]) THEN recv_pn ELSE NextNumber(sent[1].pn)
    BY <1>1, InWindow DEF Verifies
  <1>3. PICK L : L = Len(sent') /\ L \in Nat /\ Len(sent) = L + 1
    BY <1>1, <1>2
  <1>4. \A k \in 1 .. L : sent'[k] = sent[k + 1]
    BY <1>1, <1>2, <1>3
  <1>5. \A k \in 1 .. L + 1 : Number(k)' = Number(k + 1)
    BY <1>2, <1>3, <1>4 DEF Number
  <1>6. \A k \in 1 .. L + 1 : Number(k + 1) = NextNumber(Number(k))
    BY <1>3 DEF NumbersAgree
  <1>7. \A k \in 1 .. L : Number(k + 1)' = NextNumber(Number(k)')
    <2> TAKE k \in 1 .. L
    <2>1. k \in 1 .. L + 1 /\ k + 1 \in 1 .. L + 1
      BY <1>3
    <2>2. Number(k)' = Number(k + 1) /\ Number(k + 1)' = Number((k + 1) + 1)
      BY <1>5, <2>1, Zenon
    <2>3. Number((k + 1) + 1) = NextNumber(Number(k + 1))
      BY <1>6, <2>1, Zenon
    <2> QED
      BY <2>2, <2>3, Zenon
  <1>8. PICK run : Runs(run)
    BY Zenon DEF NumbersAgree, Runs
  <1>9. /\ run \in [1 .. L + 2 -> 0 .. MaxTorn] /\ run[L + 2] = torn
        /\ \A k \in 1 .. L + 1 : run[k + 1] = IF IsTorn(sent[k]) THEN run[k] + 1 ELSE 0
        /\ Number(1) \in {recv_pn + run[1], recv_pn + run[1] - (MaxNumber + 1)}
    <2>1. Len(sent) + 1 = L + 2
      BY <1>3
    <2> QED
      BY <1>3, <1>8, <2>1 DEF Runs
  <1>10. PICK less : less = [k \in 1 .. L + 1 |-> run[k + 1]]
    OBVIOUS
  <1>11. less \in [1 .. L + 1 -> 0 .. MaxTorn] /\ less[L + 1] = torn'
    BY <1>2, <1>3, <1>9, <1>10
  <1>12. \A k \in 1 .. L : less[k + 1] = IF IsTorn(sent'[k]) THEN less[k] + 1 ELSE 0
    <2> TAKE k \in 1 .. L
    <2>1. k \in 1 .. L + 1 /\ k + 1 \in 1 .. L + 1 /\ sent'[k] = sent[k + 1]
      BY <1>3, <1>4
    <2>2. less[k] = run[k + 1] /\ less[k + 1] = run[(k + 1) + 1]
      BY <1>10, <2>1
    <2> QED
      BY <1>9, <2>1, <2>2
  <1>13. Number(1)' \in {recv_pn' + less[1], recv_pn' + less[1] - (MaxNumber + 1)}
    <2>1. 1 \in 1 .. L + 1 /\ 1 \in 1 .. L + 2 /\ 2 \in 1 .. L + 2
      BY <1>3
    <2>2. PICK n : n = sent[1].pn /\ n \in 0 .. MaxNumber /\ Number(1) = n
      <3>1. 1 <= Len(sent) /\ sent[1] \in Calls
        BY <1>1
      <3>2. sent[1].pn \in 0 .. MaxNumber /\ Number(1) = sent[1].pn
        BY <3>1 DEF Number, Calls
      <3> QED
        BY <3>2
    <2>3. Number(1)' = NextNumber(n)
      <3>1. Number(1)' = Number(1 + 1) /\ Number(1 + 1) = NextNumber(Number(1))
        BY <1>5, <1>6, <2>1, Zenon
      <3> QED
        BY <2>2, <3>1
    <2>4. NextNumber(n) = IF n = MaxNumber THEN 0 ELSE n + 1
      BY <2>2, NextNumbers
    <2>5. /\ run[1] \in 0 .. MaxTorn /\ less[1] \in 0 .. MaxTorn
          /\ less[1] = IF IsTorn(sent[1]) THEN run[1] + 1 ELSE 0
      BY <1>9, <1>10, <1>11, <2>1
    <2>6. CASE IsTorn(sent[1])
      <3>1. recv_pn' = recv_pn /\ less[1] = run[1] + 1
        BY <1>2, <2>5, <2>6
      <3>2. n \in {recv_pn + run[1], recv_pn + run[1] - (MaxNumber + 1)}
        BY <1>9, <2>2
      <3> QED
        <4>1. PICK e, r : e = recv_pn /\ r = run[1]
          OBVIOUS
        <4>2. /\ e \in 0 .. MaxNumber /\ r \in Nat /\ r + 1 <= MaxTorn
              /\ n \in {e + r, e + r - (MaxNumber + 1)}
          BY <1>1, <2>5, <3>1, <3>2, <4>1
        <4>3. NextNumber(n) \in {e + (r + 1), e + (r + 1) - (MaxNumber + 1)}
          BY <1>1, <2>2, <2>4, <4>2
        <4> QED
          BY <2>3, <3>1, <4>1, <4>3, Zenon
    <2>7. CASE ~IsTorn(sent[1])
      <3>1. recv_pn' = NextNumber(n) /\ less[1] = 0
        BY <1>2, <2>2, <2>5, <2>7
      <3>2. NextNumber(n) \in Int
        BY <1>1, <2>2, <2>4
      <3> QED
        BY <2>3, <3>1, <3>2
    <2> QED
      BY <2>6, <2>7
  <1>14. Runs(less)'
    BY <1>3, <1>11, <1>12, <1>13 DEF Runs
  <1> QED
    BY <1>3, <1>7, <1>14, Zenon DEF NumbersAgree, Runs

LEMMA NumbersStep ==
    ASSUME MaxTorn <= Allowance + 1, IInv, [Next]_vars
    PROVE  IInv'
  <1>1. Framed /\ NumbersAgree
    BY DEF IInv
  <1>2. ASSUME UNCHANGED <<send_pn, torn, sent, recv_pn, got>>
        PROVE  NumbersAgree'
    <2>1. send_pn' = send_pn /\ torn' = torn /\ sent' = sent /\ recv_pn' = recv_pn
      BY <1>2, Zenon
    <2> QED
      BY <1>1, <2>1, Zenon DEF NumbersAgree, Number
  <1>3. NumbersAgree'
    BY <1>1, <1>2, StepKinds, NumbersSend, NumbersVerify
  <1> QED
    BY <1>1, <1>3, FramedStep DEF IInv

(* The inductive invariant: with no more than Allowance + 1 torn packets   *)
(* in a row every number in the connection stays within the window that    *)
(* verify_packet accepts.                                                  *)
THEOREM FramingInvariance ==
    MaxTorn <= Allowance + 1 => (Spec => []IInv)
  <1> SUFFICES ASSUME MaxTorn <= Allowance + 1 PROVE Spec => []IInv
    OBVIOUS
  <1>1. Init => IInv
    BY FramedInit, NumbersInit DEF IInv
  <1>2. IInv /\ [Next]_vars => IInv'
    BY NumbersStep
  <1> QED
    BY <1>1, <1>2, PTL DEF Spec

-----------------------------------------------------------------------------
(* The channel *)

Due == [k \in DOMAIN sent |-> Content(sent[k])]

LEMMA DueType ==
    ASSUME sent \in Seq(Calls)
    PROVE  /\ Due \in Seq(Payloads \cup {Torn}) /\ Len(Due) = Len(sent)
           /\ \A k \in 1 .. Len(sent) : Due[k] = Content(sent[k])
  <1>1. ASSUME NEW call \in Calls PROVE Content(call) \in Payloads \cup {Torn}
    <2>1. Padded(call.size, call.data) \in Payloads
      BY PaddedFacts DEF Calls
    <2> QED
      BY <2>1, Zenon DEF Content
  <1>2. Len(sent) \in Nat /\ DOMAIN sent = 1 .. Len(sent) /\ \A k \in 1 .. Len(sent) : sent[k] \in Calls
    OBVIOUS
  <1>3. Due = [k \in 1 .. Len(sent) |-> Content(sent[k])]
    BY <1>2 DEF Due
  <1>4. PICK S : S = Payloads \cup {Torn}
    OBVIOUS
  <1>5. Due \in [1 .. Len(sent) -> S]
    BY <1>1, <1>2, <1>3, <1>4
  <1>6. Due \in Seq(S) /\ Len(Due) = Len(sent)
    BY <1>2, <1>5
  <1> QED
    BY <1>3, <1>4, <1>6

(* A torn packet can be told from every other. *)
LEMMA TornIsNoPayload == Torn \notin Payloads
  <1>1. ASSUME Torn \in Payloads PROVE FALSE
    <2>1. Torn \in Seq(Byte)
      BY <1>1, PayloadsAreShort, Zenon
    <2>2. -1 \in Byte
      BY <2>1 DEF Torn
    <2> QED
      BY <2>2, Bytes DEF Byte
  <1> QED
    BY <1>1

LEMMA ChannelInit == ASSUME Init PROVE Channel!Init
  <1>1. sent = <<>> /\ got = <<>>
    BY DEF Init
  <1>2. Due = <<>>
    BY <1>1 DEF Due
  <1> QED
    BY <1>1, <1>2, Zenon DEF Channel!Init, Due

LEMMA ChannelStep ==
    ASSUME MaxTorn <= Allowance + 1, IInv, IInv', [Next]_vars
    PROVE  [Channel!Next]_<<Due, got>>
  <1>1. /\ Framed /\ NumbersAgree /\ sent \in Seq(Calls) /\ sent' \in Seq(Calls)
    BY DEF IInv, Framed, TypeOK
  <1>2. /\ Due \in Seq(Payloads \cup {Torn}) /\ Len(Due) = Len(sent)
        /\ \A k \in 1 .. Len(sent) : Due[k] = Content(sent[k])
    BY <1>1, DueType
  <1>3. /\ Due' \in Seq(Payloads \cup {Torn}) /\ Len(Due') = Len(sent')
        /\ \A k \in 1 .. Len(sent') : Due'[k] = Content(sent'[k])
    <2>1. (sent \in Seq(Calls))' =>
             (/\ Due \in Seq(Payloads \cup {Torn}) /\ Len(Due) = Len(sent)
              /\ \A k \in 1 .. Len(sent) : Due[k] = Content(sent[k]))'
      BY DueType, PTL
    <2> QED
      BY <1>1, <2>1
  <1>4. CASE UNCHANGED <<send_pn, torn, sent, recv_pn, got>>
    <2>1. Due' = Due
      BY <1>4, Zenon DEF Due
    <2> QED
      BY <1>4, <2>1, Zenon
  <1>5. ASSUME NEW call, Sends(call) PROVE Channel!Send
    <2>1. call \in Calls /\ sent' = Append(sent, call) /\ got' = got
      BY <1>5 DEF Sends
    <2>2. Content(call) \in Payloads \cup {Torn}
      <3>1. Padded(call.size, call.data) \in Payloads
        BY <2>1, PaddedFacts DEF Calls
      <3> QED
        BY <3>1, Zenon DEF Content
    <2>3. Due' = Append(Due, Content(call))
      <3>1. PICK d, e, m, S : d = Due /\ e = Due' /\ m = Content(call) /\ S = Payloads \cup {Torn}
        OBVIOUS
      <3>2. d \in Seq(S) /\ e \in Seq(S) /\ m \in S /\ Len(e) = Len(d) + 1 /\ Len(d) = Len(sent)
        BY <1>1, <1>2, <1>3, <2>1, <2>2, <3>1
      <3>3. \A k \in 1 .. Len(d) : e[k] = d[k]
        BY <1>1, <1>2, <1>3, <2>1, <3>1, <3>2
      <3>4. e[Len(d) + 1] = m
        BY <1>1, <1>3, <2>1, <3>1, <3>2
      <3>5. e = Append(d, m)
        BY <3>2, <3>3, <3>4
      <3> QED
        BY <3>1, <3>5, Zenon
    <2> QED
      BY <2>1, <2>2, <2>3, Zenon DEF Channel!Send, Due
  <1>6. ASSUME Verifies PROVE Channel!Deliver \/ Channel!Drop
    <2>1. sent # <<>> /\ sent[1] \in Calls /\ sent' = Tail(sent)
      BY <1>6 DEF Verifies
    <2>2. PICK call : call = sent[1]
      OBVIOUS
    <2>3. Due # <<>> /\ Head(Due) = Content(call) /\ Due' = Tail(Due)
      <3>1. PICK d, e, S : d = Due /\ e = Due' /\ S = Payloads \cup {Torn}
        OBVIOUS
      <3>2. d \in Seq(S) /\ e \in Seq(S) /\ d # <<>> /\ d[1] = Content(call) /\ Len(e) = Len(d) - 1
        BY <1>1, <1>2, <1>3, <2>1, <2>2, <3>1
      <3>3. \A k \in 1 .. Len(e) : e[k] = d[k + 1]
        BY <1>1, <1>2, <1>3, <2>1, <3>1, <3>2
      <3>4. e = Tail(d) /\ Head(d) = d[1]
        BY <3>2, <3>3
      <3> QED
        BY <3>1, <3>2, <3>4, Zenon
    <2>4. CASE IsTorn(call)
      <3>1. got' = got /\ Content(call) = Torn
        BY <1>6, <2>2, <2>4 DEF Verifies, Content
      <3> QED
        BY <2>3, <3>1, Zenon DEF Channel!Drop, Due
    <2>5. CASE ~IsTorn(call)
      <3>1. call.pn >= recv_pn \/ recv_pn >= MaxNumber - Allowance
        BY <1>1, <2>1, <2>2, <2>5, InWindow
      <3>2. got' = Padded(call.size, call.data) /\ Content(call) = Padded(call.size, call.data)
        BY <1>6, <2>2, <2>5, <3>1, Zenon DEF Verifies, Content
      <3>3. Content(call) # Torn
        BY <2>1, <2>2, <3>2, PaddedFacts, TornIsNoPayload DEF Calls
      <3> QED
        BY <2>3, <3>2, <3>3, Zenon DEF Channel!Deliver, Due
    <2> QED
      BY <2>4, <2>5
  <1> QED
    BY <1>1, <1>4, <1>5, <1>6, StepKinds, Zenon DEF Channel!Next

(* Framing, escaping, verification and the packet number window together   *)
(* implement the channel: no packet is lost, doubled, altered or merged    *)
(* with its neighbour, also when the packet number wraps around, as long   *)
(* as no more than Allowance + 1 torn packets are sent in a row.           *)
THEOREM FramingImplementsChannel ==
    MaxTorn <= Allowance + 1 => (Spec => Channel!Spec)
  <1> SUFFICES ASSUME MaxTorn <= Allowance + 1 PROVE Spec => Channel!Spec
    OBVIOUS
  <1>1. Init => Channel!Init
    BY ChannelInit
  <1>2. IInv /\ IInv' /\ [Next]_vars => [Channel!Next]_<<Due, got>>
    BY ChannelStep
  <1>3. Spec => []IInv
    BY FramingInvariance
  <1> QED
    BY <1>1, <1>2, <1>3, PTL DEF Spec, Channel!Spec, Due

==============================================================================
