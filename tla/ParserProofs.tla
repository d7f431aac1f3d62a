---------------------------- MODULE ParserProofs ----------------------------
(***************************************************************************)
(* Theorems about the three parsers, AtomFilter, HttpRequest and Hybi13:   *)
(* whatever is sent, and however it is cut into reads or cut off, what a   *)
(* parser hands out is what was sent.  They are inductions on the number   *)
(* of parts, lines or frames, from the least number principle.             *)
(***************************************************************************)
EXTENDS AtomFilter, HttpRequest, SequenceTheorems, WellFoundedInduction, TLAPS

-----------------------------------------------------------------------------
(* Induction, and sequences of sequences. *)

(* A set of natural numbers that is not empty has a least one. *)
LEMMA LeastOne ==
  ASSUME NEW T, T \subseteq Nat, T # {}
  PROVE  \E i \in T : \A j \in T : i <= j
<1> DEFINE R == OpToRel(<, Nat)
<1>1. \A x, y \in Nat : x < y => <<x, y>> \in R
  BY DEF OpToRel
<1>2. IsWellFoundedOn(R, Nat)
  BY NatLessThanWellFounded
<1> HIDE DEF R
<1>3. PICK x \in T : \A y \in T : ~(<<y, x>> \in R)
  BY <1>2, WFMin
<1>4. \A y \in T : ~(y < x)
  BY <1>1, <1>3
<1> QED
  BY <1>4

(* Induction, for a set in place of a predicate. *)
LEMMA Induction ==
  ASSUME NEW T, 0 \in T, \A n \in Nat : n \in T => n + 1 \in T
  PROVE  Nat \subseteq T
<1> SUFFICES ASSUME NEW m \in Nat, m \notin T
             PROVE  FALSE
  OBVIOUS
<1> DEFINE Missing == {n \in Nat : n \notin T}
<1>1. PICK n \in Missing : \A k \in Missing : n <= k
  <2>1. Missing \subseteq Nat /\ Missing # {}
    OBVIOUS
  <2> HIDE DEF Missing
  <2> QED
    BY <2>1, LeastOne
<1>2. n \in Nat /\ n \notin T /\ n # 0
  BY <1>1
<1>3. n - 1 \in Nat /\ n - 1 < n /\ (n - 1) + 1 = n
  BY <1>2
<1>4. n - 1 \in T
  BY <1>1, <1>3
<1> QED
  BY <1>2, <1>3, <1>4

(* Where the elements of two sequences are when they are joined. *)
LEMMA Joined ==
  ASSUME NEW X, NEW s \in Seq(X), NEW t \in Seq(X)
  PROVE  /\ s \o t \in Seq(X) /\ Len(s \o t) = Len(s) + Len(t)
         /\ Len(s) \in Nat /\ Len(t) \in Nat
         /\ \A i \in 1..Len(s) : i \in 1..Len(s \o t) /\ (s \o t)[i] = s[i]
         /\ \A i \in 1..Len(t) :
              Len(s) + i \in 1..Len(s \o t) /\ (s \o t)[Len(s) + i] = t[i]
<1>1. /\ s \o t \in Seq(X) /\ Len(s \o t) = Len(s) + Len(t)
      /\ Len(s) \in Nat /\ Len(t) \in Nat
      /\ \A i \in 1..(Len(s) + Len(t)) :
           (s \o t)[i] = IF i <= Len(s) THEN s[i] ELSE t[i - Len(s)]
  OBVIOUS
<1>2. ASSUME NEW i \in 1..Len(t)
      PROVE  /\ Len(s) + i \in 1..(Len(s) + Len(t)) /\ ~(Len(s) + i <= Len(s))
             /\ (Len(s) + i) - Len(s) = i
  BY <1>1
<1>3. ASSUME NEW i \in 1..Len(s)
      PROVE  i \in 1..(Len(s) + Len(t)) /\ i <= Len(s)
  BY <1>1
<1> QED
  BY <1>1, <1>2, <1>3

(* The concatenations that FlattenSeq makes on its way. *)
Flattens(s, f) ==
  f = [i \in 1..Len(s) |-> IF i = 1 THEN s[i] ELSE f[i - 1] \o s[i]]

LEMMA FlattenChooses ==
  ASSUME NEW s, Len(s) # 0
  PROVE  FlattenSeq(s) = (CHOOSE f : Flattens(s, f))[Len(s)]
BY DEF FlattenSeq, Flattens

(* One part more. *)
Longer(s, e, f, g) ==
  g[Len(s) + 1] = IF s = <<>> THEN e ELSE f[Len(s)] \o e

LEMMA FlattensExtended ==
  ASSUME NEW X, NEW s \in Seq(Seq(X)), NEW e \in Seq(X),
         NEW f \in [1..Len(s) -> Seq(X)], Flattens(s, f)
  PROVE  \E g \in [1..(Len(s) + 1) -> Seq(X)] :
           Flattens(Append(s, e), g) /\ Longer(s, e, f, g)
<1> DEFINE n == Len(s)
           last == IF s = <<>> THEN e ELSE f[n] \o e
           g == [i \in 1..(n + 1) |-> IF i = n + 1 THEN last ELSE f[i]]
           t == Append(s, e)
<1>1. /\ n \in Nat
      /\ n = 0 <=> s = <<>>
      /\ t \in Seq(Seq(X)) /\ Len(t) = n + 1 /\ t[n + 1] = e
      /\ \A i \in 1..n : t[i] = s[i]
  OBVIOUS
<1>2. last \in Seq(X)
  <2>1. CASE s = <<>>
    BY <2>1
  <2>2. CASE s # <<>>
    <3>1. n \in 1..n
      BY <1>1, <2>2
    <3>2. f[n] \in Seq(X)
      BY <3>1
    <3> HIDE DEF n
    <3>3. f[n] \o e \in Seq(X)
      BY <3>2
    <3> QED
      BY <2>2, <3>3
  <2> QED
    BY <2>1, <2>2
<1>3. \A i \in 1..n : f[i] = IF i = 1 THEN s[i] ELSE f[i - 1] \o s[i]
  BY DEF Flattens
<1> HIDE DEF last
<1>4. /\ g \in [1..(n + 1) -> Seq(X)]
      /\ \A i \in 1..n : g[i] = f[i]
      /\ g[n + 1] = last
  BY <1>1, <1>2
<1> HIDE DEF n, t
<1>5. \A i \in 1..(n + 1) :
        g[i] = IF i = 1 THEN t[i] ELSE g[i - 1] \o t[i]
  <2> SUFFICES ASSUME NEW i \in 1..(n + 1)
               PROVE  g[i] = IF i = 1 THEN t[i] ELSE g[i - 1] \o t[i]
    OBVIOUS
  <2> HIDE DEF g
  <2>1. CASE i = n + 1 /\ n = 0
    BY <1>1, <1>4, <2>1 DEF last
  <2>2. CASE i = n + 1 /\ n # 0
    <3>1. n \in 1..n /\ i # 1 /\ i - 1 = n
      <4>1. n \in Nat
        BY <1>1
      <4> QED
        BY <2>2, <4>1
    <3>2. g[i] = f[n] \o e
      BY <1>1, <1>4, <2>2 DEF last
    <3> QED
      BY <1>1, <1>4, <2>2, <3>1, <3>2
  <2>3. CASE i # n + 1
    <3>1. i \in 1..n /\ (i # 1 => i - 1 \in 1..n)
      <4>1. n \in Nat
        BY <1>1
      <4> QED
        BY <2>3, <4>1
    <3>2. t[i] = s[i] /\ g[i] = f[i] /\ (i # 1 => g[i - 1] = f[i - 1])
      BY <1>1, <1>4, <3>1
    <3> QED
      BY <1>3, <3>1, <3>2
  <2> QED
    BY <2>1, <2>2, <2>3
<1>6. Flattens(t, g)
  <2>1. g = [i \in 1..(n + 1) |-> g[i]]
    OBVIOUS
  <2>2. [i \in 1..(n + 1) |-> g[i]]
          = [i \in 1..(n + 1) |->
               IF i = 1 THEN t[i] ELSE g[i - 1] \o t[i]]
    <3> HIDE DEF g
    <3> QED
      BY <1>5
  <2> QED
    BY <1>1, <2>1, <2>2 DEF Flattens
<1>7. Longer(s, e, f, g)
  BY <1>4 DEF last, n, Longer
<1> QED
  BY <1>4, <1>6, <1>7 DEF n, t

(* Two of them agree: no entry has been chosen. *)
LEMMA FlattensOnce ==
  ASSUME NEW s, Len(s) \in Nat, NEW f, NEW g, Flattens(s, f), Flattens(s, g)
  PROVE  f = g
<1> DEFINE n == Len(s)
           T == {k \in Nat : k \in 1..n => f[k] = g[k]}
<1>1. /\ f = [i \in 1..n |-> IF i = 1 THEN s[i] ELSE f[i - 1] \o s[i]]
      /\ g = [i \in 1..n |-> IF i = 1 THEN s[i] ELSE g[i - 1] \o s[i]]
  BY DEF Flattens
<1> HIDE DEF n
<1>2. /\ \A i \in 1..n : f[i] = IF i = 1 THEN s[i] ELSE f[i - 1] \o s[i]
      /\ \A i \in 1..n : g[i] = IF i = 1 THEN s[i] ELSE g[i - 1] \o s[i]
      /\ f = [i \in 1..n |-> f[i]] /\ g = [i \in 1..n |-> g[i]]
  BY <1>1
<1>3. n \in Nat
  BY DEF n
<1>4. 0 \in T
  OBVIOUS
<1>5. ASSUME NEW k \in Nat, k \in T
      PROVE  k + 1 \in T
  <2>1. CASE k = 0
    <3>1. k + 1 = 1
      BY <2>1
    <3>2. 1 \in 1..n => f[1] = g[1]
      BY <1>2
    <3> QED
      BY <3>1, <3>2
  <2>2. CASE k # 0 /\ k + 1 \in 1..n
    <3>1. k \in 1..n /\ (k + 1) - 1 = k /\ k + 1 # 1
      BY <1>3, <2>2
    <3>2. f[k] = g[k]
      BY <1>5, <3>1
    <3>3. f[k + 1] = f[k] \o s[k + 1] /\ g[k + 1] = g[k] \o s[k + 1]
      BY <1>2, <2>2, <3>1
    <3>4. f[k + 1] = g[k + 1]
      BY <3>2, <3>3, Zenon
    <3> QED
      BY <3>4
  <2> QED
    BY <2>1, <2>2
<1>6. Nat \subseteq T
  <2> HIDE DEF T
  <2> QED
    BY <1>4, <1>5, Induction
<1>7. \A k \in 1..n : f[k] = g[k]
  BY <1>3, <1>6
<1> QED
  BY <1>2, <1>7

LEMMA FlattensExists ==
  ASSUME NEW X
  PROVE  \A s \in Seq(Seq(X)) :
           \E f \in [1..Len(s) -> Seq(X)] : Flattens(s, f)
<1> DEFINE T == {n \in Nat : \A s \in Seq(Seq(X)) :
                   Len(s) = n =>
                     \E f \in [1..Len(s) -> Seq(X)] : Flattens(s, f)}
<1>1. 0 \in T
  <2> SUFFICES ASSUME NEW s \in Seq(Seq(X)), Len(s) = 0
               PROVE  \E f \in [1..Len(s) -> Seq(X)] : Flattens(s, f)
    OBVIOUS
  <2> DEFINE f == [i \in 1..Len(s) |-> <<>>]
  <2>1. f \in [1..Len(s) -> Seq(X)]
    OBVIOUS
  <2>2. 1..Len(s) = {}
    OBVIOUS
  <2>3. Flattens(s, f)
    BY <2>2 DEF Flattens
  <2> QED
    BY <2>1, <2>3
<1>2. ASSUME NEW n \in Nat, n \in T
      PROVE  n + 1 \in T
  <2> SUFFICES ASSUME NEW s \in Seq(Seq(X)), Len(s) = n + 1
               PROVE  \E f \in [1..Len(s) -> Seq(X)] : Flattens(s, f)
    OBVIOUS
  <2>1. PICK r \in Seq(Seq(X)), e \in Seq(X) : s = Append(r, e)
    <3>1. s # <<>>
      OBVIOUS
    <3> QED
      BY <3>1, SequenceEmptyOrAppend
  <2>2. Len(r) = n
    BY <2>1
  <2>3. PICK f \in [1..Len(r) -> Seq(X)] : Flattens(r, f)
    BY <1>2, <2>2
  <2>4. \E g \in [1..(Len(r) + 1) -> Seq(X)] : Flattens(Append(r, e), g)
    BY <2>3, FlattensExtended
  <2> QED
    BY <2>1, <2>2, <2>4
<1>3. Nat \subseteq T
  <2> HIDE DEF T
  <2> QED
    BY <1>1, <1>2, Induction
<1> QED
  BY <1>3

(* What FlattenSeq is, part after part. *)
LEMMA Flattening ==
  ASSUME NEW X
  PROVE  /\ FlattenSeq(<<>>) = <<>>
         /\ \A s \in Seq(Seq(X)) :
              /\ FlattenSeq(s) \in Seq(X)
              /\ \A e \in Seq(X) :
                   FlattenSeq(Append(s, e)) = FlattenSeq(s) \o e
<1>1. FlattenSeq(<<>>) = <<>>
  BY DEF FlattenSeq
<1>2. ASSUME NEW s \in Seq(Seq(X)), s # <<>>,
             NEW f \in [1..Len(s) -> Seq(X)], Flattens(s, f)
      PROVE  FlattenSeq(s) = f[Len(s)] /\ f[Len(s)] \in Seq(X)
  <2>1. Len(s) \in Nat /\ Len(s) # 0 /\ Len(s) \in 1..Len(s)
    BY <1>2
  <2>2. (CHOOSE g : Flattens(s, g)) = f
    <3>1. Flattens(s, CHOOSE g : Flattens(s, g))
      BY <1>2, Zenon
    <3> QED
      BY <1>2, <2>1, <3>1, FlattensOnce
  <2> QED
    BY <2>1, <2>2, FlattenChooses
<1>3. ASSUME NEW s \in Seq(Seq(X))
      PROVE  FlattenSeq(s) \in Seq(X)
  <2>1. CASE s = <<>>
    <3>1. FlattenSeq(s) = <<>>
      BY <1>1, <2>1, Zenon
    <3> QED
      BY <3>1
  <2>2. CASE s # <<>>
    <3>1. PICK f \in [1..Len(s) -> Seq(X)] : Flattens(s, f)
      BY FlattensExists
    <3> QED
      BY <1>2, <2>2, <3>1, Zenon
  <2> QED
    BY <2>1, <2>2
<1>4. ASSUME NEW s \in Seq(Seq(X)), NEW e \in Seq(X)
      PROVE  FlattenSeq(Append(s, e)) = FlattenSeq(s) \o e
  <2> DEFINE t == Append(s, e)
  <2>1. PICK f \in [1..Len(s) -> Seq(X)] : Flattens(s, f)
    BY FlattensExists
  <2>2. /\ t \in Seq(Seq(X)) /\ t # <<>> /\ Len(t) = Len(s) + 1
    OBVIOUS
  <2>3. PICK g \in [1..(Len(s) + 1) -> Seq(X)] :
          Flattens(t, g) /\ Longer(s, e, f, g)
    BY <2>1, FlattensExtended
  <2> HIDE DEF t
  <2>4. FlattenSeq(t) = g[Len(s) + 1]
    BY <1>2, <2>2, <2>3
  <2>5. CASE s = <<>>
    BY <1>1, <2>3, <2>4, <2>5 DEF t, Longer
  <2>6. CASE s # <<>>
    BY <1>2, <2>1, <2>3, <2>4, <2>6 DEF t, Longer
  <2> QED
    BY <2>5, <2>6
<1> QED
  BY <1>1, <1>3, <1>4

(* Where the parts are in the whole: part k is behind the first k - 1. *)
LEMMA PartsInPlace ==
  ASSUME NEW X, NEW s \in Seq(Seq(X)), NEW k \in 0..Len(s)
  PROVE  /\ SubSeq(s, 1, k) \in Seq(Seq(X))
         /\ FlattenSeq(SubSeq(s, 1, k)) \in Seq(X)
         /\ Len(FlattenSeq(SubSeq(s, 1, k))) <= Len(FlattenSeq(s))
         /\ \A i \in 1..Len(FlattenSeq(SubSeq(s, 1, k))) :
              FlattenSeq(s)[i] = FlattenSeq(SubSeq(s, 1, k))[i]
         /\ k < Len(s) =>
              FlattenSeq(SubSeq(s, 1, k + 1))
                = FlattenSeq(SubSeq(s, 1, k)) \o s[k + 1]
<1> DEFINE F(j) == FlattenSeq(SubSeq(s, 1, j))
<1>1. \A j \in 0..Len(s) : SubSeq(s, 1, j) \in Seq(Seq(X))
  OBVIOUS
<1>2. \A j \in 0..Len(s) : F(j) \in Seq(X)
  BY <1>1, Flattening
<1>3. ASSUME NEW j \in 0..Len(s), j < Len(s)
      PROVE  F(j + 1) = F(j) \o s[j + 1] /\ s[j + 1] \in Seq(X)
  <2>1. /\ s[j + 1] \in Seq(X)
        /\ SubSeq(s, 1, j + 1) = Append(SubSeq(s, 1, j), s[j + 1])
    BY <1>3
  <2> QED
    BY <1>1, <2>1, Flattening
<1> DEFINE T == {d \in Nat : k + d <= Len(s) =>
                   /\ Len(F(k)) <= Len(F(k + d))
                   /\ \A i \in 1..Len(F(k)) : F(k + d)[i] = F(k)[i]}
<1>4. 0 \in T
  BY <1>2
<1> HIDE DEF F
<1>5. ASSUME NEW d \in Nat, d \in T
      PROVE  d + 1 \in T
  <2> SUFFICES ASSUME k + (d + 1) <= Len(s)
               PROVE  /\ Len(F(k)) <= Len(F(k + (d + 1)))
                      /\ \A i \in 1..Len(F(k)) : F(k + (d + 1))[i] = F(k)[i]
    OBVIOUS
  <2>1. k + d \in 0..Len(s) /\ k + d < Len(s) /\ k + (d + 1) = (k + d) + 1
    OBVIOUS
  <2> DEFINE a == F(k)
             b == F(k + d)
             c == F(k + (d + 1))
             e == s[(k + d) + 1]
  <2>2. c = b \o e /\ e \in Seq(X)
    BY <1>3, <2>1
  <2>3. a \in Seq(X) /\ b \in Seq(X)
    BY <1>2, <2>1
  <2>4. Len(a) <= Len(b) /\ \A i \in 1..Len(a) : b[i] = a[i]
    BY <1>5, <2>1
  <2> HIDE DEF a, b, c, e
  <2>5. Len(a) <= Len(c) /\ \A i \in 1..Len(a) : c[i] = a[i]
    <3>1. /\ Len(c) = Len(b) + Len(e) /\ Len(e) \in Nat /\ Len(b) \in Nat
          /\ Len(a) \in Nat
          /\ \A i \in 1..Len(b) : c[i] = b[i]
      BY <2>2, <2>3
    <3> QED
      BY <2>4, <3>1
  <2> QED
    BY <2>5, Zenon DEF a, c
<1>6. Nat \subseteq T
  <2> HIDE DEF T
  <2> QED
    BY <1>4, <1>5, Induction
<1>7. /\ Len(F(k)) <= Len(F(Len(s)))
      /\ \A i \in 1..Len(F(k)) : F(Len(s))[i] = F(k)[i]
  <2>1. Len(s) - k \in Nat /\ k + (Len(s) - k) = Len(s)
    OBVIOUS
  <2>2. Len(s) - k \in T
    BY <1>6, <2>1
  <2> QED
    BY <2>1, <2>2
<1>8. F(Len(s)) = FlattenSeq(s)
  BY SubSeqFull DEF F
<1> QED
  BY <1>1, <1>2, <1>3, <1>7, <1>8 DEF F

-----------------------------------------------------------------------------
(* AtomFilter. *)

Byte == [box : Nat, at : Nat, of : BoxKinds]

(* The bytes of each box, and those of them that are kept. *)
Parts(bs) == [n \in 1..Len(bs) |-> BoxBytes(bs[n], n)]
Kept(b, n) == IF b.type \in {"ftyp", "moov"} THEN <<>> ELSE BoxBytes(b, n)
KeptParts(bs) == [n \in 1..Len(bs) |-> Kept(bs[n], n)]

BoxEnd(n) == Len(AllBytes(SubSeq(boxes, 1, n)))
Media(n) == FlattenSeq([k \in 1..n |-> IF boxes[k].type \in {"ftyp", "moov"}
                                         THEN <<>> ELSE BoxBytes(boxes[k], k)])

LEMMA BoxTyped ==
  ASSUME NEW b \in BoxKinds, NEW n \in Nat
  PROVE  /\ b.size \in Nat /\ b.size >= 8
         /\ BoxBytes(b, n) \in Seq(Byte) /\ Len(BoxBytes(b, n)) = b.size
         /\ \A i \in 1..b.size :
              BoxBytes(b, n)[i] = [box |-> n, at |-> i, of |-> b]
         /\ Kept(b, n) \in Seq(Byte)
<1>1. b.size \in Nat /\ b.size >= 8
  BY BoxAssumption
<1> DEFINE m == b.size
           s == [i \in 1..m |-> [box |-> n, at |-> i, of |-> b]]
<1>2. BoxBytes(b, n) = s
  BY DEF BoxBytes
<1>3. \A i \in 1..m : [box |-> n, at |-> i, of |-> b] \in Byte
  BY DEF Byte
<1>4. m \in Nat
  BY <1>1
<1> HIDE DEF m
<1>5. /\ s \in Seq(Byte) /\ Len(s) = m
      /\ \A i \in 1..m : s[i] = [box |-> n, at |-> i, of |-> b]
  BY <1>3, <1>4
<1> HIDE DEF s
<1>6. Kept(b, n) \in Seq(Byte)
  BY <1>2, <1>5 DEF Kept
<1> QED
  BY <1>1, <1>2, <1>5, <1>6 DEF m

LEMMA BoxesInPlace ==
  ASSUME NEW bs \in Seq(BoxKinds), NEW k \in 0..Len(bs)
  PROVE  /\ AllBytes(SubSeq(bs, 1, k)) \in Seq(Byte)
         /\ Len(AllBytes(SubSeq(bs, 1, k))) <= Len(AllBytes(bs))
         /\ k = 0 => AllBytes(SubSeq(bs, 1, k)) = <<>>
         /\ k = Len(bs) => AllBytes(SubSeq(bs, 1, k)) = AllBytes(bs)
         /\ k < Len(bs) =>
              /\ Len(AllBytes(SubSeq(bs, 1, k + 1)))
                   = Len(AllBytes(SubSeq(bs, 1, k))) + bs[k + 1].size
              /\ \A i \in 1..bs[k + 1].size :
                   AllBytes(bs)[Len(AllBytes(SubSeq(bs, 1, k))) + i]
                     = [box |-> k + 1, at |-> i, of |-> bs[k + 1]]
<1> DEFINE s == Parts(bs)
           A(j) == AllBytes(SubSeq(bs, 1, j))
<1>1. s \in Seq(Seq(Byte)) /\ Len(s) = Len(bs)
  <2>1. \A n \in 1..Len(bs) : BoxBytes(bs[n], n) \in Seq(Byte)
    BY BoxTyped
  <2> QED
    BY <2>1 DEF Parts
<1>2. \A j \in 0..Len(bs) : A(j) = FlattenSeq(SubSeq(s, 1, j))
  <2> SUFFICES ASSUME NEW j \in 0..Len(bs)
               PROVE  A(j) = FlattenSeq(SubSeq(s, 1, j))
    OBVIOUS
  <2>1. /\ Len(SubSeq(bs, 1, j)) = j
        /\ \A n \in 1..j : SubSeq(bs, 1, j)[n] = bs[n]
    OBVIOUS
  <2>2. [n \in 1..j |-> BoxBytes(SubSeq(bs, 1, j)[n], n)]
          = [n \in 1..j |-> BoxBytes(bs[n], n)]
    BY <2>1
  <2>3. SubSeq(s, 1, j) = [n \in 1..j |-> BoxBytes(bs[n], n)]
    BY DEF Parts
  <2> QED
    BY <2>1, <2>2, <2>3 DEF AllBytes
<1>3. AllBytes(bs) = FlattenSeq(s)
  BY DEF AllBytes, Parts
<1>4. SubSeq(s, 1, 0) = <<>> /\ SubSeq(s, 1, Len(bs)) = s
  <2> HIDE DEF s
  <2> QED
    BY <1>1, SubSeqFull
<1>5. \A n \in 1..Len(bs) : s[n] = BoxBytes(bs[n], n)
  BY DEF Parts
<1> HIDE DEF s, A
<1>6. /\ A(k) \in Seq(Byte) /\ Len(A(k)) <= Len(AllBytes(bs))
      /\ k = 0 => A(k) = <<>>
      /\ k = Len(bs) => A(k) = AllBytes(bs)
  <2>1. k \in 0..Len(s)
    BY <1>1
  <2>2. /\ FlattenSeq(SubSeq(s, 1, k)) \in Seq(Byte)
        /\ Len(FlattenSeq(SubSeq(s, 1, k))) <= Len(FlattenSeq(s))
    BY <1>1, <2>1, PartsInPlace
  <2>3. FlattenSeq(<<>>) = <<>>
    BY Flattening
  <2> QED
    BY <1>2, <1>3, <1>4, <2>2, <2>3
<1>7. ASSUME k < Len(bs)
      PROVE  /\ Len(A(k + 1)) = Len(A(k)) + bs[k + 1].size
             /\ \A i \in 1..bs[k + 1].size :
                  AllBytes(bs)[Len(A(k)) + i]
                    = [box |-> k + 1, at |-> i, of |-> bs[k + 1]]
  <2>1. k \in 0..Len(s) /\ k < Len(s) /\ k + 1 \in 0..Len(s)
    BY <1>1, <1>7
  <2> DEFINE a == A(k)
             b == BoxBytes(bs[k + 1], k + 1)
             c == A(k + 1)
             m == bs[k + 1].size
  <2>2. k + 1 \in 1..Len(bs)
    BY <1>7
  <2>3. s[k + 1] = b
    BY <1>5, <2>2
  <2>4. c = a \o b
    <3>1. FlattenSeq(SubSeq(s, 1, k + 1))
            = FlattenSeq(SubSeq(s, 1, k)) \o s[k + 1]
      BY <1>1, <2>1, PartsInPlace
    <3>2. A(k) = FlattenSeq(SubSeq(s, 1, k))
      BY <1>2
    <3>3. A(k + 1) = FlattenSeq(SubSeq(s, 1, k + 1))
      BY <1>1, <1>2, <2>1
    <3> QED
      BY <2>3, <3>1, <3>2, <3>3, Zenon
  <2>5. \A i \in 1..Len(c) : AllBytes(bs)[i] = c[i]
    <3>1. \A i \in 1..Len(FlattenSeq(SubSeq(s, 1, k + 1))) :
            FlattenSeq(s)[i] = FlattenSeq(SubSeq(s, 1, k + 1))[i]
      BY <1>1, <2>1, PartsInPlace
    <3>2. A(k + 1) = FlattenSeq(SubSeq(s, 1, k + 1))
      BY <1>1, <1>2, <2>1
    <3> QED
      BY <1>3, <3>1, <3>2, Zenon
  <2>6. /\ m \in Nat /\ b \in Seq(Byte) /\ Len(b) = m
        /\ \A i \in 1..m : b[i] = [box |-> k + 1, at |-> i, of |-> bs[k + 1]]
    <3>1. bs[k + 1] \in BoxKinds /\ k + 1 \in Nat
      BY <2>2
    <3> QED
      BY <3>1, BoxTyped
  <2>7. a \in Seq(Byte)
    BY <1>6
  <2> HIDE DEF a, b, c, m
  <2>8. /\ Len(c) = Len(a) + m
        /\ \A i \in 1..m : Len(a) + i \in 1..Len(c) /\ c[Len(a) + i] = b[i]
    <3>1. b \in Seq(Byte)
      BY <2>6
    <3>2. /\ Len(a \o b) = Len(a) + Len(b)
          /\ \A i \in 1..Len(b) : /\ Len(a) + i \in 1..Len(a \o b)
                                  /\ (a \o b)[Len(a) + i] = b[i]
      BY <2>7, <3>1, Joined
    <3> QED
      BY <2>4, <2>6, <3>2
  <2>9. \A i \in 1..m : AllBytes(bs)[Len(a) + i]
                          = [box |-> k + 1, at |-> i, of |-> bs[k + 1]]
    BY <2>5, <2>6, <2>8
  <2> QED
    BY <2>8, <2>9 DEF a, c, m
<1> QED
  BY <1>6, <1>7 DEF A

LEMMA MediaGrows ==
  ASSUME boxes \in Seq(BoxKinds), NEW k \in 0..Len(boxes)
  PROVE  /\ Media(0) = <<>> /\ Media(k) \in Seq(Byte)
         /\ k < Len(boxes) =>
              Media(k + 1) = Media(k) \o Kept(boxes[k + 1], k + 1)
<1> DEFINE s == KeptParts(boxes)
<1>1. s \in Seq(Seq(Byte)) /\ Len(s) = Len(boxes)
  <2>1. \A n \in 1..Len(boxes) : Kept(boxes[n], n) \in Seq(Byte)
    BY BoxTyped
  <2> QED
    BY <2>1 DEF KeptParts
<1>2. \A j \in 0..Len(boxes) : Media(j) = FlattenSeq(SubSeq(s, 1, j))
  <2> SUFFICES ASSUME NEW j \in 0..Len(boxes)
               PROVE  Media(j) = FlattenSeq(SubSeq(s, 1, j))
    OBVIOUS
  <2>1. SubSeq(s, 1, j) = [n \in 1..j |-> Kept(boxes[n], n)]
    BY DEF KeptParts
  <2> QED
    BY <2>1 DEF Media, Kept
<1>3. \A n \in 1..Len(boxes) : s[n] = Kept(boxes[n], n)
  BY DEF KeptParts
<1> HIDE DEF s
<1>4. Media(0) = <<>>
  <2>1. SubSeq(s, 1, 0) = <<>> /\ 0 \in 0..Len(boxes)
    BY <1>1
  <2> QED
    BY <1>2, <2>1, Flattening
<1>5. k \in 0..Len(s)
  BY <1>1
<1>6. Media(k) \in Seq(Byte)
  BY <1>1, <1>2, <1>5, PartsInPlace
<1>7. ASSUME k < Len(boxes)
      PROVE  Media(k + 1) = Media(k) \o Kept(boxes[k + 1], k + 1)
  <2>1. k < Len(s) /\ k + 1 \in 0..Len(boxes) /\ k + 1 \in 1..Len(boxes)
    BY <1>1, <1>7
  <2>2. FlattenSeq(SubSeq(s, 1, k + 1))
          = FlattenSeq(SubSeq(s, 1, k)) \o s[k + 1]
    BY <1>1, <1>5, <2>1, PartsInPlace
  <2>3. /\ Media(k) = FlattenSeq(SubSeq(s, 1, k))
        /\ Media(k + 1) = FlattenSeq(SubSeq(s, 1, k + 1))
        /\ s[k + 1] = Kept(boxes[k + 1], k + 1)
    BY <1>2, <1>3, <2>1
  <2> QED
    BY <2>2, <2>3, Zenon
<1> QED
  BY <1>4, <1>6, <1>7

(* The loop is between two boxes, and what it has kept is the media of those it
   has passed. *)
Filtered ==
  /\ boxes \in Seq(BoxKinds)
  /\ Len(packet) \in 0..Len(AllBytes(boxes))
  /\ packet = SubSeq(AllBytes(boxes), 1, Len(packet))
  /\ filtering =>
       \E k \in 0..Len(boxes) :
         /\ offset = BoxEnd(k) /\ BoxEnd(k) <= Len(packet)
         /\ filtered_packet = Media(k)

LEMMA FilteredInit == FilterInit => Filtered /\ FilterKeepsMedia
<1> SUFFICES ASSUME FilterInit
             PROVE  Filtered /\ FilterKeepsMedia
  OBVIOUS
<1>1. boxes \in Seq(BoxKinds)
  BY BoxAssumption DEF FilterInit
<1>2. /\ AllBytes(boxes) \in Seq(Byte)
      /\ AllBytes(SubSeq(boxes, 1, 0)) = <<>>
  <2>1. 0 \in 0..Len(boxes) /\ Len(boxes) \in 0..Len(boxes)
    BY <1>1
  <2> QED
    BY <1>1, <2>1, BoxesInPlace
<1>3. PICK n \in 0..Len(AllBytes(boxes)) :
        packet = SubSeq(AllBytes(boxes), 1, n)
  BY DEF FilterInit
<1>4. Len(packet) = n
  BY <1>2, <1>3
<1>5. BoxEnd(0) = 0 /\ Media(0) = <<>>
  <2>1. Media(0) = <<>>
    BY <1>1, MediaGrows
  <2> QED
    BY <1>2, <2>1 DEF BoxEnd
<1>6. offset = 0 /\ filtered_packet = <<>> /\ filtering
  BY DEF FilterInit
<1>7. 0 \in 0..Len(boxes) /\ 0 <= Len(packet)
  BY <1>1, <1>4
<1> QED
  BY <1>1, <1>3, <1>4, <1>5, <1>6, <1>7 DEF Filtered, FilterKeepsMedia

LEMMA FilteredInductive ==
  ASSUME Filtered, FilterKeepsMedia, [FilterNext]_filterVars
  PROVE  Filtered' /\ FilterKeepsMedia'
<1>1. CASE UNCHANGED filterVars
  BY <1>1 DEF filterVars, Filtered, FilterKeepsMedia, BoxEnd, Media
<1> SUFFICES ASSUME FilterNext
             PROVE  Filtered' /\ FilterKeepsMedia'
  BY <1>1
<1>2. /\ boxes \in Seq(BoxKinds) /\ Len(packet) \in 0..Len(AllBytes(boxes))
      /\ packet = SubSeq(AllBytes(boxes), 1, Len(packet))
  BY DEF Filtered
<1>3. filtering /\ UNCHANGED <<boxes, packet>>
  BY DEF FilterNext, ReadBox, ReadThrows, PacketEnds
<1>4. PICK k \in 0..Len(boxes) :
        /\ offset = BoxEnd(k) /\ BoxEnd(k) <= Len(packet)
        /\ filtered_packet = Media(k)
  BY <1>3 DEF Filtered
<1>5. /\ AllBytes(boxes) \in Seq(Byte) /\ offset \in Nat
      /\ Len(packet) \in Nat
  <2>1. AllBytes(SubSeq(boxes, 1, k)) \in Seq(Byte)
    BY <1>2, BoxesInPlace
  <2>2. Len(boxes) \in 0..Len(boxes)
    BY <1>2
  <2>3. AllBytes(boxes) \in Seq(Byte)
    BY <1>2, <2>2, BoxesInPlace
  <2> QED
    BY <1>2, <1>4, <2>1, <2>3 DEF BoxEnd
<1> DEFINE b == boxes[k + 1]
(* The next box, if there is one. *)
<1>6. ASSUME k < Len(boxes)
      PROVE  /\ b \in BoxKinds /\ b.size \in Nat /\ b.size >= 8
             /\ BoxEnd(k + 1) = offset + b.size
             /\ BoxEnd(k + 1) \in Nat
             /\ \A i \in 1..b.size :
                  offset + i <= Len(packet) =>
                    packet[offset + i] = [box |-> k + 1, at |-> i, of |-> b]
  <2>1. b \in BoxKinds /\ b.size \in Nat /\ b.size >= 8
    BY <1>2, <1>6, BoxAssumption
  <2>2. BoxEnd(k + 1) = offset + b.size
    BY <1>2, <1>4, <1>6, BoxesInPlace DEF BoxEnd
  <2>3. \A i \in 1..b.size : AllBytes(boxes)[offset + i]
                               = [box |-> k + 1, at |-> i, of |-> b]
    BY <1>2, <1>4, <1>6, BoxesInPlace DEF BoxEnd
  <2>4. \A j \in 1..Len(packet) : packet[j] = AllBytes(boxes)[j]
    BY <1>2, <1>5
  <2> DEFINE m == b.size
  <2>5. m \in Nat
    BY <2>1
  <2> HIDE DEF b
  <2>6. \A i \in 1..m : offset + i <= Len(packet) =>
          packet[offset + i] = [box |-> k + 1, at |-> i, of |-> b]
    <3> SUFFICES ASSUME NEW i \in 1..m, offset + i <= Len(packet)
                 PROVE  packet[offset + i] = AllBytes(boxes)[offset + i]
      BY <2>3
    <3> HIDE DEF m
    <3>1. offset + i \in 1..Len(packet)
      BY <1>5, <2>5
    <3> QED
      BY <2>4, <3>1
  <2>7. offset + m \in Nat
    <3> HIDE DEF m
    <3> QED
      BY <1>5, <2>5
  <2> QED
    BY <2>1, <2>2, <2>6, <2>7
<1>7. offset < Len(packet) => k < Len(boxes)
  <2>1. CASE k = Len(boxes)
    <3>1. AllBytes(SubSeq(boxes, 1, k)) = AllBytes(boxes)
      BY <1>2, <2>1, BoxesInPlace
    <3>2. offset = Len(AllBytes(boxes))
      BY <1>4, <3>1 DEF BoxEnd
    <3> QED
      BY <1>2, <1>5, <3>2
  <2>2. CASE k # Len(boxes)
    BY <1>2, <2>2
  <2> QED
    BY <2>1, <2>2
<1> HIDE DEF b
<1>8. ASSUME offset < Len(packet), HeaderThere
      PROVE  size = b.size /\ type = b.type
  <2>1. k < Len(boxes)
    BY <1>7, <1>8
  <2> DEFINE m == b.size
             P(i) == [box |-> k + 1, at |-> i, of |-> b]
  <2>2. /\ m \in Nat /\ m >= 8
        /\ \A i \in 1..m : offset + i <= Len(packet)
                             => packet[offset + i] = P(i)
    BY <1>6, <2>1
  <2> HIDE DEF m, P
  <2>3. packet[offset + 1] = P(1) /\ packet[offset + 5] = P(5)
    BY <1>5, <1>8, <2>2 DEF HeaderThere
  <2> QED
    BY <2>3 DEF size, type, P
<1>9. CASE ReadBox
  <2>1. /\ offset < Len(packet) /\ BoxThere
        /\ offset' = offset + size /\ filtering' = filtering
        /\ filtered_packet' =
             IF type \in {"ftyp", "moov"} THEN filtered_packet
             ELSE filtered_packet \o SubSeq(packet, offset + 1, offset + size)
    BY <1>9 DEF ReadBox
  <2> DEFINE m == b.size
  <2>2. k < Len(boxes) /\ HeaderThere /\ size = m /\ type = b.type
    BY <1>7, <1>8, <2>1 DEF BoxThere
  <2>3. /\ b \in BoxKinds /\ m \in Nat /\ m >= 8
        /\ BoxEnd(k + 1) = offset + m
        /\ \A i \in 1..m : offset + i <= Len(packet) =>
             packet[offset + i] = [box |-> k + 1, at |-> i, of |-> b]
    BY <1>6, <2>2
  <2>4. offset + m <= Len(packet)
    <3>1. offset + 8 + m - 8 <= Len(packet)
      BY <2>1, <2>2 DEF BoxThere
    <3> HIDE DEF m
    <3> QED
      BY <1>5, <2>3, <3>1
  <2>5. SubSeq(packet, offset + 1, offset + m) = BoxBytes(b, k + 1)
    <3> DEFINE s == SubSeq(packet, offset + 1, offset + m)
               t == BoxBytes(b, k + 1)
    <3>1. /\ t \in Seq(Byte) /\ Len(t) = m
          /\ \A i \in 1..m : t[i] = [box |-> k + 1, at |-> i, of |-> b]
      BY <2>3, BoxTyped
    <3>2. packet \in Seq(Byte)
      BY <1>2, <1>5
    <3> HIDE DEF m
    <3>3. /\ s \in Seq(Byte) /\ Len(s) = m
          /\ \A i \in 1..m : s[i] = packet[offset + i]
      BY <1>5, <2>3, <2>4, <3>2
    <3>4. \A i \in 1..m : offset + i <= Len(packet)
      BY <1>5, <2>3, <2>4
    <3> HIDE DEF s, t
    <3>5. \A i \in 1..m : s[i] = t[i]
      BY <2>3, <3>1, <3>3, <3>4
    <3>6. s = t
      BY <3>1, <3>3, <3>5, SeqEqual
    <3> QED
      BY <3>6 DEF s, t
  <2>6. filtered_packet' = Media(k + 1)
    <3>1. Media(k + 1) = Media(k) \o Kept(b, k + 1) /\ Media(k) \in Seq(Byte)
      BY <1>2, <2>2, MediaGrows DEF b
    <3>2. CASE b.type \in {"ftyp", "moov"}
      <4>1. filtered_packet' = Media(k) /\ Kept(b, k + 1) = <<>>
        BY <1>4, <2>1, <2>2, <3>2 DEF Kept
      <4> QED
        BY <3>1, <4>1, ConcatEmptySeq
    <3>3. CASE b.type \notin {"ftyp", "moov"}
      <4>1. filtered_packet'
              = filtered_packet \o SubSeq(packet, offset + 1, offset + size)
        BY <2>1, <2>2, <3>3
      <4>2. Kept(b, k + 1) = BoxBytes(b, k + 1)
        BY <3>3 DEF Kept
      <4> QED
        BY <1>4, <2>2, <2>5, <3>1, <4>1, <4>2, Zenon
    <3> QED
      BY <3>2, <3>3
  <2>7. k + 1 \in 0..Len(boxes)
    BY <1>2, <2>2
  <2>8. offset' = BoxEnd(k + 1) /\ BoxEnd(k + 1) <= Len(packet)
    BY <2>1, <2>2, <2>3, <2>4
  <2>9. Filtered'
    BY <1>2, <1>3, <2>6, <2>7, <2>8 DEF Filtered, BoxEnd, Media
  <2> QED
    BY <1>3, <2>1, <2>9 DEF FilterKeepsMedia
(* The loop is left: the next box, if there is one, is not whole. *)
<1>10. ASSUME filtering' = FALSE, filtered_packet' = filtered_packet,
              k < Len(boxes) => BoxEnd(k + 1) > Len(packet)
       PROVE  Filtered' /\ FilterKeepsMedia'
  <2>1. Filtered'
    BY <1>2, <1>3, <1>10 DEF Filtered
  <2>2. /\ Len(AllBytes(SubSeq(boxes, 1, k))) <= Len(packet)
        /\ k < Len(boxes) =>
             Len(AllBytes(SubSeq(boxes, 1, k + 1))) > Len(packet)
        /\ filtered_packet' =
             FlattenSeq([j \in 1..k |-> IF boxes[j].type \in {"ftyp", "moov"}
                                          THEN <<>> ELSE BoxBytes(boxes[j], j)])
    BY <1>4, <1>10 DEF BoxEnd, Media
  <2>3. FilterKeepsMedia'
    BY <1>3, <1>10, <2>2 DEF FilterKeepsMedia
  <2> QED
    BY <2>1, <2>3
<1>11. CASE ReadThrows
  <2>1. /\ offset < Len(packet) /\ ~BoxThere
        /\ filtering' = FALSE /\ filtered_packet' = filtered_packet
    BY <1>11 DEF ReadThrows
  <2> DEFINE m == b.size
  <2>2. /\ k < Len(boxes) /\ m \in Nat /\ m >= 8
        /\ BoxEnd(k + 1) = offset + m
    BY <1>6, <1>7, <2>1
  <2>3. CASE HeaderThere
    <3>1. ~(offset + 8 + m - 8 <= Len(packet))
      BY <1>8, <2>1, <2>3 DEF BoxThere
    <3> HIDE DEF m
    <3>2. offset + m > Len(packet)
      BY <1>5, <2>2, <3>1
    <3> QED
      BY <1>10, <2>1, <2>2, <3>2
  <2>4. CASE ~HeaderThere
    <3> HIDE DEF m
    <3>1. offset + m > Len(packet)
      BY <1>5, <2>2, <2>4 DEF HeaderThere
    <3> QED
      BY <1>10, <2>1, <2>2, <3>1
  <2> QED
    BY <2>3, <2>4
<1>12. CASE PacketEnds
  <2>1. /\ offset >= Len(packet)
        /\ filtering' = FALSE /\ filtered_packet' = filtered_packet
    BY <1>12 DEF PacketEnds
  <2>2. ASSUME k < Len(boxes)
        PROVE  BoxEnd(k + 1) > Len(packet)
    <3> DEFINE m == b.size
    <3>1. m \in Nat /\ m >= 8 /\ BoxEnd(k + 1) = offset + m
      BY <1>6, <2>2
    <3> HIDE DEF m
    <3> QED
      BY <1>5, <2>1, <3>1
  <2> QED
    BY <1>10, <2>1, <2>2
<1> QED
  BY <1>9, <1>11, <1>12 DEF FilterNext

(* readBox, filterAtoms: whatever boxes a packet is made of and wherever it is
   cut off, the filter keeps the whole media boxes, all of them, unchanged and
   in order, and nothing else. *)
THEOREM MediaIsKept == FilterSpec => []FilterKeepsMedia
<1> QED
  BY FilteredInit, FilteredInductive, PTL DEF FilterSpec

-----------------------------------------------------------------------------
(* HttpRequest. *)

(* A line of n bytes counts for n + 3, and takes n + 2 away; a read that ends in
   the header counts for three, and there are no more reads than bytes. *)
Counting ==
  /\ read \in Nat /\ m_header_bytes \in Nat /\ begin \in Nat
  /\ m_buf \in Seq(Int)
  /\ thrown = "no" /\ ~consuming =>
       2 * m_header_bytes <= 3 * (read - Len(m_buf)) + 6 * read
  /\ consuming =>
       /\ begin <= Len(m_buf)
       /\ 2 * m_header_bytes
            <= 3 * (read - Len(m_buf) + begin) + 6 * (read - 1)

(* Where the search ends: in front of a delimiter, or with the bytes. *)
LEMMA SearchEnds ==
  ASSUME Counting, consuming
  PROVE  /\ end \in Nat /\ begin <= end /\ end <= Len(m_buf)
         /\ Delimiters = {} => end = Len(m_buf)
         /\ Delimiters # {} => end <= Len(m_buf) - 2
<1>1. begin \in Nat /\ Len(m_buf) \in Nat /\ begin <= Len(m_buf)
  BY DEF Counting
<1>2. Delimiters \subseteq begin..(Len(m_buf) - 2)
  BY DEF Delimiters
<1>3. CASE Delimiters = {}
  BY <1>1, <1>3 DEF end
<1>4. CASE Delimiters # {}
  <2>1. Delimiters \subseteq Nat
    BY <1>1, <1>2
  <2>2. end = CHOOSE e \in Delimiters : \A d \in Delimiters : e <= d
    BY <1>4 DEF end
  <2>3. \E e \in Delimiters : \A d \in Delimiters : e <= d
    BY <1>4, <2>1, LeastOne
  <2>4. end \in Delimiters
    BY <2>2, <2>3
  <2> QED
    BY <1>1, <1>2, <1>4, <2>4
<1> QED
  BY <1>3, <1>4

(* What is counted with the line under way. *)
LEMMA CountedBound ==
  ASSUME Counting, consuming
  PROVE  /\ Counted \in Nat
         /\ 2 * Counted
              <= 3 * (read - Len(m_buf) + begin) + 6 * read
                   + 2 * (end - begin)
<1>1. /\ read \in Nat /\ m_header_bytes \in Nat /\ begin \in Nat
      /\ Len(m_buf) \in Nat /\ begin <= Len(m_buf)
      /\ 2 * m_header_bytes
           <= 3 * (read - Len(m_buf) + begin) + 6 * (read - 1)
  BY DEF Counting
<1>2. end \in Nat /\ begin <= end
  BY SearchEnds
<1>3. Counted = m_header_bytes + (end - begin + 3)
  BY DEF Counted
<1> HIDE DEF end, Counted
<1> QED
  BY <1>1, <1>2, <1>3

(* A read adds its bytes to the buffer. *)
LEMMA PlacesAdded ==
  ASSUME NEW s \in Seq(Int), NEW a \in Nat, NEW b \in Nat, a < b
  PROVE  /\ s \o Places(a + 1, b) \in Seq(Int)
         /\ Len(s \o Places(a + 1, b)) = Len(s) + (b - a)
<1>1. b - (a + 1) + 1 = b - a /\ b - a \in Nat
  OBVIOUS
<1>2. Places(a + 1, b) = [i \in 1..(b - a) |-> (a + 1) + i - 1]
  BY <1>1 DEF Places
<1> DEFINE q == [i \in 1..(b - a) |-> (a + 1) + i - 1]
<1>3. q \in Seq(Int) /\ Len(q) = b - a
  BY <1>1
<1> HIDE DEF q
<1>4. s \o q \in Seq(Int) /\ Len(s \o q) = Len(s) + Len(q)
  BY <1>3
<1> QED
  BY <1>2, <1>3, <1>4 DEF q

(* What is kept of the buffer for the next read. *)
LEMMA RestKept ==
  ASSUME NEW s \in Seq(Int), NEW b \in Nat, b <= Len(s)
  PROVE  /\ SubSeq(s, b + 1, Len(s)) \in Seq(Int)
         /\ Len(SubSeq(s, b + 1, Len(s))) = Len(s) - b
OBVIOUS

(* The sums in the steps below: h counted, r bytes read, l of them kept, the
   line under way from b to e. *)
LEMMA Sums ==
  /\ \A h, r, l, t \in Nat :
       2 * h <= 3 * (r - l) + 6 * r /\ r < t
         => /\ 2 * h <= 3 * (t - (l + (t - r)) + 0) + 6 * (t - 1)
            /\ 2 * h <= 3 * (t - l) + 6 * t
  /\ \A c, r, l, b, e, m \in Nat :
       /\ b <= e /\ e <= l /\ c > m
       /\ 2 * c <= 3 * (r - l + b) + 6 * r + 2 * (e - b)
       => 2 * m < 9 * r
  /\ \A h, l, b \in Nat :
       b <= l => (h + (l - b + 3)) - (l - b) = h + 3
  /\ \A h, r, l, b \in Nat :
       2 * h <= 3 * (r - l + b) + 6 * (r - 1)
         => 2 * (h + 3) <= 3 * (r - (l - b)) + 6 * r
OBVIOUS

LEMMA CountingInductive ==
  ASSUME Counting, ShortHeadersPass, [RequestNext]_requestVars
  PROVE  Counting' /\ ShortHeadersPass'
<1> USE RequestAssumption
<1>1. CASE UNCHANGED requestVars
  BY <1>1 DEF requestVars, Counting, ShortHeadersPass
<1>2. /\ read \in Nat /\ m_header_bytes \in Nat /\ begin \in Nat
      /\ m_buf \in Seq(Int) /\ Len(m_buf) \in Nat
  BY DEF Counting
<1>3. ASSUME Read
      PROVE  read' \in Nat /\ read < read'
  BY <1>2, <1>3 DEF Read
<1>4. CASE ReadHeader
  <2>1. read' \in Nat /\ read < read'
    BY <1>3, <1>4 DEF ReadHeader
  <2>2. /\ m_buf' = m_buf \o Places(read + 1, read')
        /\ begin' = 0 /\ consuming' = TRUE
        /\ m_header_bytes' = m_header_bytes /\ thrown' = thrown
        /\ thrown = "no" /\ ~consuming
    BY <1>4 DEF ReadHeader, Read
  <2>3. /\ m_buf' \in Seq(Int)
        /\ Len(m_buf') = Len(m_buf) + (read' - read)
    BY <1>2, <2>1, <2>2, PlacesAdded
  <2>4. 2 * m_header_bytes <= 3 * (read - Len(m_buf)) + 6 * read
    BY <2>2 DEF Counting
  <2>5. 2 * m_header_bytes <= 3 * (read' - Len(m_buf') + 0) + 6 * (read' - 1)
    <3>1. 2 * m_header_bytes <= 3 * (read' - (Len(m_buf) + (read' - read)) + 0)
                                  + 6 * (read' - 1)
      BY <1>2, <2>1, <2>4, Sums
    <3> QED
      BY <2>3, <3>1
  <2>6. Counting'
    <3>1. Len(m_buf') \in Nat /\ 0 <= Len(m_buf')
      BY <2>3
    <3> QED
      BY <1>2, <2>1, <2>2, <2>3, <2>5, <3>1 DEF Counting
  <2> QED
    BY <2>2, <2>6 DEF ShortHeadersPass
<1>5. CASE ReadBody
  <2>1. read' \in Nat /\ read < read'
    BY <1>3, <1>5 DEF ReadBody
  <2>2. /\ UNCHANGED <<consuming, begin, m_buf, m_header_bytes, thrown>>
        /\ thrown = "no" /\ ~consuming
    BY <1>5 DEF ReadBody, Read
  <2>3. 2 * m_header_bytes <= 3 * (read - Len(m_buf)) + 6 * read
    BY <2>2 DEF Counting
  <2>4. 2 * m_header_bytes <= 3 * (read' - Len(m_buf)) + 6 * read'
    BY <1>2, <2>1, <2>3, Sums
  <2>5. Counting'
    BY <1>2, <2>1, <2>2, <2>4 DEF Counting
  <2> QED
    BY <2>2, <2>5 DEF ShortHeadersPass
<1>6. ASSUME consuming
      PROVE  /\ end \in Nat /\ begin <= end /\ end <= Len(m_buf)
             /\ Delimiters = {} => end = Len(m_buf)
             /\ Delimiters # {} => end <= Len(m_buf) - 2
             /\ Counted \in Nat
             /\ 2 * Counted
                  <= 3 * (read - Len(m_buf) + begin) + 6 * read
                       + 2 * (end - begin)
  BY <1>6, SearchEnds, CountedBound
<1>7. ASSUME NEW why, why # "no", Throw(why)
      PROVE  /\ Counting'
             /\ consuming /\ read' = read /\ thrown' = why
  <2>1. /\ consuming /\ consuming' = FALSE /\ thrown' = why
        /\ UNCHANGED <<read, begin, m_buf, m_header_bytes>>
    BY <1>7 DEF Throw, Round
  <2> QED
    BY <1>2, <1>7, <2>1 DEF Counting
<1>8. CASE HeaderTooLarge
  <2>1. Counted > max_header_size /\ Throw("header too large")
    BY <1>8 DEF HeaderTooLarge
  <2>2. Counting' /\ consuming /\ read' = read
    BY <1>7, <2>1
  <2>3. 2 * max_header_size < 9 * read
    <3> DEFINE e == end
               c == Counted
    <3>1. /\ e \in Nat /\ begin <= e /\ e <= Len(m_buf)
          /\ c \in Nat /\ c > max_header_size
          /\ 2 * c
               <= 3 * (read - Len(m_buf) + begin) + 6 * read + 2 * (e - begin)
      BY <1>6, <2>1, <2>2
    <3> HIDE DEF e, c
    <3> QED
      BY <1>2, <3>1, Sums
  <2> QED
    BY <2>2, <2>3 DEF ShortHeadersPass
<1>9. CASE BadLine
  <2>1. Throw("bad")
    BY <1>9 DEF BadLine
  <2>2. Counting' /\ thrown' = "bad"
    BY <1>7, <2>1
  <2> QED
    BY <2>2 DEF ShortHeadersPass
<1>10. CASE Incomplete
  <2>1. Throw("bad")
    BY <1>10 DEF Incomplete
  <2>2. Counting' /\ thrown' = "bad"
    BY <1>7, <2>1
  <2> QED
    BY <2>2 DEF ShortHeadersPass
<1>11. CASE BodyTooLarge
  <2>1. Throw("body too large")
    BY <1>11 DEF BodyTooLarge
  <2>2. Counting' /\ thrown' = "body too large"
    BY <1>7, <2>1
  <2> QED
    BY <2>2 DEF ShortHeadersPass
<1>12. CASE OutOfBytes
  <2>1. /\ consuming /\ consuming' = FALSE /\ Delimiters = {}
        /\ m_buf' = SubSeq(m_buf, begin + 1, Len(m_buf))
        /\ m_header_bytes' = Counted - Len(m_buf')
        /\ UNCHANGED <<read, begin, thrown>>
    BY <1>12 DEF OutOfBytes, Round
  <2>2. begin <= Len(m_buf) /\ end = Len(m_buf)
    BY <1>6, <2>1
  <2>3. m_buf' \in Seq(Int) /\ Len(m_buf') = Len(m_buf) - begin
    BY <1>2, <2>1, <2>2, RestKept
  <2>4. Counted = m_header_bytes + (Len(m_buf) - begin + 3)
    BY <2>2 DEF Counted
  <2>5. m_header_bytes' = m_header_bytes + 3
    <3>1. m_header_bytes'
            = (m_header_bytes + (Len(m_buf) - begin + 3))
                - (Len(m_buf) - begin)
      <4>1. m_header_bytes' = Counted - Len(m_buf')
        BY <2>1
      <4>2. Len(m_buf') = Len(m_buf) - begin
        BY <2>3
      <4> QED
        BY <2>4, <4>1, <4>2, Zenon
    <3> QED
      BY <1>2, <2>2, <3>1, Sums
  <2>6. 2 * m_header_bytes
          <= 3 * (read - Len(m_buf) + begin) + 6 * (read - 1)
    BY <2>1 DEF Counting
  <2>7. 2 * m_header_bytes' <= 3 * (read - Len(m_buf')) + 6 * read
    BY <1>2, <2>3, <2>5, <2>6, Sums
  <2>8. Counting'
    <3>1. UNCHANGED <<read, begin, thrown>> /\ consuming' = FALSE
      BY <2>1
    <3>2. m_buf' \in Seq(Int)
      BY <2>3
    <3> QED
      BY <1>2, <2>5, <2>7, <3>1, <3>2 DEF Counting
  <2> QED
    BY <2>1, <2>8 DEF ShortHeadersPass
<1>13. CASE ProcessLine
  <2>1. /\ consuming /\ consuming' /\ Delimiters # {}
        /\ m_header_bytes' = Counted /\ begin' = end + 2
        /\ UNCHANGED <<read, m_buf, thrown>>
    BY <1>13 DEF ProcessLine, Round, LineThere, Counting
  <2> DEFINE e == end
             c == Counted
  <2>2. /\ e \in Nat /\ begin <= e /\ e <= Len(m_buf) - 2
        /\ c \in Nat /\ c = m_header_bytes + (e - begin + 3)
    BY <1>6, <2>1 DEF Counted
  <2>3. 2 * m_header_bytes
          <= 3 * (read - Len(m_buf) + begin) + 6 * (read - 1)
    BY <2>1 DEF Counting
  <2>4. m_header_bytes' = c /\ begin' = e + 2
    BY <2>1
  <2> HIDE DEF e, c
  <2>5. 2 * c <= 3 * (read - Len(m_buf) + (e + 2)) + 6 * (read - 1)
    BY <1>2, <2>2, <2>3
  <2>6. e + 2 \in Nat /\ e + 2 <= Len(m_buf)
    BY <1>2, <2>2
  <2>7. Counting'
    BY <1>2, <2>1, <2>2, <2>4, <2>5, <2>6 DEF Counting
  <2> QED
    BY <2>1, <2>7 DEF ShortHeadersPass
<1>14. CASE EndHeader
  <2>1. /\ consuming /\ consuming' = FALSE /\ Delimiters # {}
        /\ m_header_bytes' = Counted /\ m_buf' = <<>>
        /\ UNCHANGED <<read, begin, thrown>>
    BY <1>14 DEF EndHeader, Round, HeaderEnds
  <2> DEFINE e == end
             c == Counted
  <2>2. /\ e \in Nat /\ begin <= e /\ e <= Len(m_buf) - 2
        /\ c \in Nat /\ c = m_header_bytes + (e - begin + 3)
    BY <1>6, <2>1 DEF Counted
  <2>3. 2 * m_header_bytes
          <= 3 * (read - Len(m_buf) + begin) + 6 * (read - 1)
    BY <2>1 DEF Counting
  <2>4. m_header_bytes' = c /\ m_buf' \in Seq(Int) /\ Len(m_buf') = 0
    BY <2>1
  <2> HIDE DEF e, c
  <2>5. 2 * c <= 3 * (read - 0) + 6 * read
    BY <1>2, <2>2, <2>3
  <2>6. Counting'
    BY <1>2, <2>1, <2>2, <2>4, <2>5 DEF Counting
  <2> QED
    BY <2>1, <2>6 DEF ShortHeadersPass
<1> QED
  BY <1>1, <1>4, <1>5, <1>8, <1>9, <1>10, <1>11, <1>12, <1>13, <1>14
  DEF RequestNext

(* request::consume: however a header is cut into reads, it is refused for its
   size only when it has more than two ninths of max_header_size bytes. *)
THEOREM ShortHeadersGetThrough == RequestSpec => []ShortHeadersPass
<1>1. RequestInit => Counting /\ ShortHeadersPass
  BY DEF RequestInit, Counting, ShortHeadersPass
<1>2. Counting /\ ShortHeadersPass /\ [RequestNext]_requestVars
        => Counting' /\ ShortHeadersPass'
  BY CountingInductive
<1> QED
  BY <1>1, <1>2, PTL DEF RequestSpec

(* Where the lines are in what is sent. *)
Chars == {"CR", "LF", "x"}
LineBytes(n) == request.lines[n].text \o <<"CR", "LF">>
AllLines == [n \in 1..Len(request.lines) |-> LineBytes(n)]

LEMMA RequestTyped ==
  ASSUME request \in Requests
  PROVE  /\ request.behind \in Nat /\ Len(request.lines) \in Nat
         /\ request.lines \in Seq([text : Seq(Chars), means : STRING,
                                   length : Nat])
         /\ \A n \in 1..Len(request.lines) :
              /\ request.lines[n].text \in Seq(Chars)
              /\ Len(request.lines[n].text) \in Nat
              /\ request.lines[n].length \in Nat
              /\ \A i \in 1..(Len(request.lines[n].text) - 1) :
                   request.lines[n].text[i] = "CR"
                     => request.lines[n].text[i + 1] # "LF"
<1>1. /\ request.behind \in Nat
      /\ request.lines \in Seq([text : Seq(Chars), means : STRING,
                                length : Nat])
      /\ \A n \in 1..Len(request.lines) :
           \A i \in 1..(Len(request.lines[n].text) - 1) :
             request.lines[n].text[i] = "CR"
               => request.lines[n].text[i + 1] # "LF"
  BY RequestAssumption DEF Chars
<1>2. \A n \in 1..Len(request.lines) :
        request.lines[n] \in [text : Seq(Chars), means : STRING, length : Nat]
  BY <1>1, ElementOfSeq
<1>3. \A n \in 1..Len(request.lines) :
        request.lines[n].text \in Seq(Chars) /\ request.lines[n].length \in Nat
  BY <1>2
<1> QED
  BY <1>1, <1>3

LEMMA LineTyped ==
  ASSUME request \in Requests, NEW n \in 1..Len(request.lines)
  PROVE  /\ LineBytes(n) \in Seq(Chars)
         /\ Len(LineBytes(n)) = Len(request.lines[n].text) + 2
         /\ \A i \in 1..Len(request.lines[n].text) :
              LineBytes(n)[i] = request.lines[n].text[i]
         /\ LineBytes(n)[Len(request.lines[n].text) + 1] = "CR"
         /\ LineBytes(n)[Len(request.lines[n].text) + 2] = "LF"
<1> DEFINE t == request.lines[n].text
           u == <<"CR", "LF">>
<1>1. t \in Seq(Chars)
  BY RequestTyped
<1>2. u \in Seq(Chars) /\ Len(u) = 2 /\ u[1] = "CR" /\ u[2] = "LF"
  BY DEF Chars
<1> HIDE DEF t, u
<1>3. /\ t \o u \in Seq(Chars) /\ Len(t \o u) = Len(t) + 2
      /\ \A i \in 1..Len(t) : (t \o u)[i] = t[i]
      /\ \A i \in 1..2 : (t \o u)[Len(t) + i] = u[i]
  <2>1. u \in Seq(Chars)
    BY <1>2
  <2>2. /\ t \o u \in Seq(Chars) /\ Len(t \o u) = Len(t) + Len(u)
        /\ \A i \in 1..Len(t) : (t \o u)[i] = t[i]
        /\ \A i \in 1..Len(u) : (t \o u)[Len(t) + i] = u[i]
    BY <1>1, <2>1, Joined
  <2>3. Len(u) = 2
    BY <1>2
  <2> QED
    BY <2>2, <2>3
<1> QED
  BY <1>2, <1>3 DEF LineBytes, t, u

LEMMA LinesArePrefixes ==
  ASSUME request \in Requests
  PROVE  /\ AllLines \in Seq(Seq(Chars)) /\ Len(AllLines) = Len(request.lines)
         /\ \A n \in 0..Len(request.lines) :
              Lines(n) = FlattenSeq(SubSeq(AllLines, 1, n))
         /\ \A n \in 0..Len(request.lines) :
              Lines(n) \in Seq(Chars) /\ LineEnd(n) = Len(Lines(n))
<1> DEFINE s == AllLines
<1>1. s \in Seq(Seq(Chars)) /\ Len(s) = Len(request.lines)
  <2>1. \A n \in 1..Len(request.lines) : LineBytes(n) \in Seq(Chars)
    BY LineTyped
  <2> QED
    BY <2>1, RequestTyped DEF AllLines
<1>2. \A n \in 0..Len(request.lines) : Lines(n) = FlattenSeq(SubSeq(s, 1, n))
  <2> SUFFICES ASSUME NEW n \in 0..Len(request.lines)
               PROVE  Lines(n) = FlattenSeq(SubSeq(s, 1, n))
    OBVIOUS
  <2>1. SubSeq(s, 1, n) = [k \in 1..n |-> LineBytes(k)]
    BY RequestTyped DEF AllLines
  <2> QED
    BY <2>1 DEF Lines, LineBytes
<1> HIDE DEF s
<1>3. \A n \in 0..Len(s) : FlattenSeq(SubSeq(s, 1, n)) \in Seq(Chars)
  BY <1>1, PartsInPlace
<1> QED
  BY <1>1, <1>2, <1>3 DEF LineEnd, s

LEMMA LinesInPlace ==
  ASSUME request \in Requests, NEW n \in 0..Len(request.lines)
  PROVE  /\ LineEnd(n) \in Nat /\ (n = 0 => LineEnd(n) = 0)
         /\ Text \in Seq(Chars)
         /\ Len(Text) = LineEnd(Len(request.lines)) + request.behind
         /\ LineEnd(n) <= Len(Text)
         /\ n < Len(request.lines) =>
              LET t == request.lines[n + 1].text
              IN  /\ LineEnd(n + 1) = LineEnd(n) + Len(t) + 2
                  /\ LineEnd(n + 1) <= Len(Text)
                  /\ \A i \in 1..Len(t) : Text[LineEnd(n) + i] = t[i]
                  /\ Text[LineEnd(n) + Len(t) + 1] = "CR"
                  /\ Text[LineEnd(n) + Len(t) + 2] = "LF"
         /\ n = Len(request.lines) =>
              \A q \in Nat : LineEnd(n) < q /\ q <= Len(Text) => Text[q] = "x"
<1> DEFINE s == AllLines
           m == Len(request.lines)
           w == Lines(m)
           z == [i \in 1..request.behind |-> "x"]
<1>1. /\ s \in Seq(Seq(Chars)) /\ Len(s) = m /\ m \in Nat
      /\ \A k \in 0..m : Lines(k) = FlattenSeq(SubSeq(s, 1, k))
      /\ \A k \in 0..m : Lines(k) \in Seq(Chars) /\ LineEnd(k) = Len(Lines(k))
      /\ request.behind \in Nat
  BY LinesArePrefixes, RequestTyped
<1>2. n \in 0..Len(s) /\ n \in 0..m
  BY <1>1
<1>3. z \in Seq(Chars) /\ Len(z) = request.behind /\
      \A i \in 1..request.behind : z[i] = "x"
  BY <1>1 DEF Chars
<1>4. w \in Seq(Chars) /\ LineEnd(m) = Len(w) /\ m \in 0..m
  BY <1>1
<1> HIDE DEF z, w, s, m
<1>5. /\ w \o z \in Seq(Chars) /\ Len(w \o z) = Len(w) + request.behind
      /\ \A i \in 1..Len(w) : (w \o z)[i] = w[i]
      /\ \A q \in Nat : Len(w) < q /\ q <= Len(w) + request.behind
                          => (w \o z)[q] = "x"
  <2>1. /\ w \o z \in Seq(Chars) /\ Len(w \o z) = Len(w) + Len(z)
        /\ \A i \in 1..(Len(w) + Len(z)) :
             (w \o z)[i] = IF i <= Len(w) THEN w[i] ELSE z[i - Len(w)]
    BY <1>3, <1>4
  <2>2. Len(w) \in Nat /\ request.behind \in Nat
    BY <1>1, <1>4
  <2>3. ASSUME NEW q \in Nat, Len(w) < q, q <= Len(w) + request.behind
        PROVE  (w \o z)[q] = "x"
    <3>1. /\ q \in 1..(Len(w) + Len(z)) /\ ~(q <= Len(w))
          /\ q - Len(w) \in 1..request.behind
      BY <1>3, <2>2, <2>3
    <3> QED
      BY <1>3, <2>1, <3>1
  <2>4. \A i \in 1..Len(w) : i \in 1..(Len(w) + Len(z)) /\ i <= Len(w)
    BY <1>3, <2>2
  <2> QED
    BY <1>3, <2>1, <2>3, <2>4
<1>6. Text = w \o z
  BY DEF Text, w, z, m
<1>7. FlattenSeq(s) = w
  <2>1. SubSeq(s, 1, m) = s
    BY <1>1, SubSeqFull
  <2> QED
    BY <1>1, <1>4, <2>1 DEF w
<1>8. /\ LineEnd(n) \in Nat /\ LineEnd(n) <= Len(w)
      /\ \A i \in 1..LineEnd(n) : w[i] = Lines(n)[i]
  <2>1. /\ Len(FlattenSeq(SubSeq(s, 1, n))) <= Len(FlattenSeq(s))
        /\ \A i \in 1..Len(FlattenSeq(SubSeq(s, 1, n))) :
             FlattenSeq(s)[i] = FlattenSeq(SubSeq(s, 1, n))[i]
    BY <1>1, <1>2, PartsInPlace
  <2>2. /\ FlattenSeq(SubSeq(s, 1, n)) = Lines(n)
        /\ LineEnd(n) = Len(Lines(n)) /\ Lines(n) \in Seq(Chars)
    BY <1>1, <1>2
  <2>3. Len(Lines(n)) \in Nat
    BY <2>2
  <2> QED
    BY <1>7, <2>1, <2>2, <2>3
<1>9. n = 0 => LineEnd(n) = 0
  <2>1. SubSeq(s, 1, 0) = <<>>
    BY <1>1
  <2>2. n = 0 => Lines(n) = <<>>
    BY <1>1, <1>2, <2>1, Flattening
  <2> QED
    BY <1>1, <1>2, <2>2
<1>10. ASSUME n < m
       PROVE  LET t == request.lines[n + 1].text
              IN  /\ LineEnd(n + 1) = LineEnd(n) + Len(t) + 2
                  /\ LineEnd(n + 1) <= Len(w)
                  /\ \A i \in 1..Len(t) : w[LineEnd(n) + i] = t[i]
                  /\ w[LineEnd(n) + Len(t) + 1] = "CR"
                  /\ w[LineEnd(n) + Len(t) + 2] = "LF"
  <2> DEFINE t == request.lines[n + 1].text
             a == Lines(n)
             b == LineBytes(n + 1)
             c == Lines(n + 1)
  <2>1. n + 1 \in 0..m /\ n + 1 \in 1..m /\ n + 1 \in 0..Len(s) /\ n < Len(s)
    BY <1>1, <1>2, <1>10
  <2>2. /\ FlattenSeq(SubSeq(s, 1, n + 1))
             = FlattenSeq(SubSeq(s, 1, n)) \o s[n + 1]
        /\ Len(FlattenSeq(SubSeq(s, 1, n + 1))) <= Len(FlattenSeq(s))
        /\ \A i \in 1..Len(FlattenSeq(SubSeq(s, 1, n + 1))) :
             FlattenSeq(s)[i] = FlattenSeq(SubSeq(s, 1, n + 1))[i]
    BY <1>1, <1>2, <2>1, PartsInPlace
  <2>3. /\ c = FlattenSeq(SubSeq(s, 1, n + 1))
        /\ a = FlattenSeq(SubSeq(s, 1, n))
        /\ LineEnd(n) = Len(a) /\ LineEnd(n + 1) = Len(c)
        /\ a \in Seq(Chars)
    BY <1>1, <1>2, <2>1
  <2>4. s[n + 1] = b
    BY <2>1 DEF s, m, AllLines
  <2>5. /\ b \in Seq(Chars) /\ Len(b) = Len(t) + 2 /\ Len(t) \in Nat
        /\ \A i \in 1..Len(t) : b[i] = t[i]
        /\ b[Len(t) + 1] = "CR" /\ b[Len(t) + 2] = "LF"
    BY <2>1, LineTyped, RequestTyped DEF m
  <2> HIDE DEF a, b, c, t
  <2>6. /\ c = a \o b /\ Len(c) <= Len(w)
        /\ \A i \in 1..Len(c) : w[i] = c[i]
    BY <1>7, <2>2, <2>3, <2>4
  <2>7. /\ Len(c) = Len(a) + Len(b) /\ Len(a) \in Nat
        /\ \A i \in 1..Len(b) : Len(a) + i \in 1..Len(c) /\ c[Len(a) + i] = b[i]
    <3>1. /\ b \in Seq(Chars) /\ a \in Seq(Chars)
      BY <2>3, <2>5
    <3>2. /\ Len(a \o b) = Len(a) + Len(b) /\ Len(a) \in Nat
          /\ \A i \in 1..Len(b) : /\ Len(a) + i \in 1..Len(a \o b)
                                  /\ (a \o b)[Len(a) + i] = b[i]
      BY <3>1, Joined
    <3>3. c = a \o b
      BY <2>6
    <3> QED
      BY <3>2, <3>3
  <2>8. \A i \in 1..Len(b) : w[Len(a) + i] = b[i]
    BY <2>6, <2>7
  <2>9. /\ \A i \in 1..Len(t) : i \in 1..Len(b)
        /\ Len(t) + 1 \in 1..Len(b) /\ Len(t) + 2 \in 1..Len(b)
        /\ Len(a) + (Len(t) + 1) = Len(a) + Len(t) + 1
        /\ Len(a) + (Len(t) + 2) = Len(a) + Len(t) + 2
        /\ Len(c) = Len(a) + Len(t) + 2
    BY <2>5, <2>7
  <2>10. /\ \A i \in 1..Len(t) : w[Len(a) + i] = t[i]
         /\ w[Len(a) + Len(t) + 1] = "CR" /\ w[Len(a) + Len(t) + 2] = "LF"
    BY <2>5, <2>8, <2>9
  <2> QED
    BY <2>3, <2>6, <2>9, <2>10 DEF t
<1>11. Len(Text) = LineEnd(m) + request.behind /\ Text \in Seq(Chars)
  BY <1>4, <1>5, <1>6
<1>12. Len(w) \in Nat /\ Len(w) <= Len(Text) /\ LineEnd(n) <= Len(Text)
  BY <1>1, <1>4, <1>5, <1>6, <1>8
<1>13. ASSUME n < m
       PROVE  LET t == request.lines[n + 1].text
              IN  /\ LineEnd(n + 1) = LineEnd(n) + Len(t) + 2
                  /\ LineEnd(n + 1) <= Len(Text)
                  /\ \A i \in 1..Len(t) : Text[LineEnd(n) + i] = t[i]
                  /\ Text[LineEnd(n) + Len(t) + 1] = "CR"
                  /\ Text[LineEnd(n) + Len(t) + 2] = "LF"
  <2> DEFINE t == request.lines[n + 1].text
             a == LineEnd(n)
             c == LineEnd(n + 1)
  <2>1. /\ c = a + Len(t) + 2 /\ c <= Len(w) /\ a \in Nat
        /\ \A i \in 1..Len(t) : w[a + i] = t[i]
        /\ w[a + Len(t) + 1] = "CR" /\ w[a + Len(t) + 2] = "LF"
    BY <1>8, <1>10, <1>13
  <2>2. Len(t) \in Nat
    <3>1. n + 1 \in 1..Len(request.lines)
      BY <1>1, <1>2, <1>13 DEF m
    <3> QED
      BY <3>1, RequestTyped
  <2> HIDE DEF a, c, t
  <2>3. /\ \A i \in 1..Len(t) : a + i \in 1..Len(w)
        /\ a + Len(t) + 1 \in 1..Len(w) /\ a + Len(t) + 2 \in 1..Len(w)
        /\ c <= Len(Text)
    BY <1>12, <2>1, <2>2
  <2>4. \A i \in 1..Len(w) : Text[i] = w[i]
    BY <1>5, <1>6
  <2> QED
    BY <2>1, <2>3, <2>4 DEF a, c, t
<1>14. ASSUME n = m
       PROVE  \A q \in Nat : LineEnd(n) < q /\ q <= Len(Text) => Text[q] = "x"
  BY <1>4, <1>5, <1>6, <1>14
<1> QED
  BY <1>8, <1>9, <1>11, <1>12, <1>13, <1>14 DEF m

(* A line takes two bytes at least. *)
LEMMA LineEndsGrow ==
  ASSUME request \in Requests, NEW n \in 0..Len(request.lines),
         NEW m \in 0..Len(request.lines), n < m
  PROVE  LineEnd(n) + 2 <= LineEnd(m)
<1> DEFINE t == SubSeq(AllLines, 1, m)
<1>1. /\ AllLines \in Seq(Seq(Chars)) /\ Len(AllLines) = Len(request.lines)
      /\ \A k \in 0..Len(request.lines) :
           Lines(k) = FlattenSeq(SubSeq(AllLines, 1, k))
      /\ Len(request.lines) \in Nat
  BY LinesArePrefixes, RequestTyped
<1>2. /\ t \in Seq(Seq(Chars)) /\ Len(t) = m /\ n + 1 \in 0..Len(t)
      /\ SubSeq(t, 1, n + 1) = SubSeq(AllLines, 1, n + 1)
      /\ n + 1 \in 0..Len(request.lines)
  <2> DEFINE s == AllLines
  <2>1. s \in Seq(Seq(Chars)) /\ m \in 0..Len(s) /\ n + 1 \in 0..m /\ m \in Nat
    BY <1>1
  <2> HIDE DEF s
  <2>2. /\ SubSeq(s, 1, m) \in Seq(Seq(Chars)) /\ Len(SubSeq(s, 1, m)) = m
        /\ SubSeq(SubSeq(s, 1, m), 1, n + 1) = SubSeq(s, 1, n + 1)
    BY <2>1
  <2> QED
    BY <1>1, <2>1, <2>2 DEF s
<1> HIDE DEF t
<1>3. Len(FlattenSeq(SubSeq(t, 1, n + 1))) <= Len(FlattenSeq(t))
  BY <1>2, PartsInPlace
<1>4. LineEnd(n + 1) <= LineEnd(m)
  BY <1>1, <1>2, <1>3 DEF LineEnd, t
<1> DEFINE x == request.lines[n + 1].text
<1>5. LineEnd(n + 1) = LineEnd(n) + Len(x) + 2 /\ LineEnd(n) \in Nat
  <2>1. n < Len(request.lines)
    BY <1>1
  <2> QED
    BY <2>1, LinesInPlace
<1>6. Len(x) \in Nat /\ LineEnd(m) \in Nat
  <2>1. n + 1 \in 1..Len(request.lines)
    BY <1>1
  <2> QED
    BY <2>1, RequestTyped, LinesInPlace
<1> HIDE DEF x
<1> QED
  BY <1>4, <1>5, <1>6

(* Behind line n the first delimiter ends line n + 1; behind all lines there is
   none. *)
EndsAt(q) == Text[q] = "CR" /\ Text[q + 1] = "LF"

LEMMA FirstEnd ==
  ASSUME request \in Requests, NEW n \in 0..Len(request.lines)
  PROVE  /\ n < Len(request.lines) =>
              /\ LineEnd(n) + 1 <= LineEnd(n + 1) - 1
              /\ EndsAt(LineEnd(n + 1) - 1)
              /\ \A q \in (LineEnd(n) + 1)..(LineEnd(n + 1) - 2) : ~EndsAt(q)
         /\ n = Len(request.lines) =>
              \A q \in (LineEnd(n) + 1)..(Len(Text) - 1) : ~EndsAt(q)
<1>1. ASSUME n < Len(request.lines)
      PROVE  /\ LineEnd(n) + 1 <= LineEnd(n + 1) - 1
             /\ EndsAt(LineEnd(n + 1) - 1)
             /\ \A q \in (LineEnd(n) + 1)..(LineEnd(n + 1) - 2) : ~EndsAt(q)
  <2> DEFINE t == request.lines[n + 1].text
             a == LineEnd(n)
             c == LineEnd(n + 1)
  <2>1. /\ c = a + Len(t) + 2 /\ a \in Nat
        /\ \A i \in 1..Len(t) : Text[a + i] = t[i]
        /\ Text[a + Len(t) + 1] = "CR" /\ Text[a + Len(t) + 2] = "LF"
    BY <1>1, LinesInPlace
  <2>2. /\ Len(t) \in Nat
        /\ \A i \in 1..(Len(t) - 1) : t[i] = "CR" => t[i + 1] # "LF"
    <3>1. n + 1 \in 1..Len(request.lines)
      BY <1>1, RequestTyped
    <3> QED
      BY <3>1, RequestTyped
  <2> HIDE DEF a, c, t
  <2>3. c - 1 = a + Len(t) + 1 /\ (c - 1) + 1 = a + Len(t) + 2 /\ a + 1 <= c - 1
    BY <2>1, <2>2
  <2>4. EndsAt(c - 1)
    BY <2>1, <2>3 DEF EndsAt
  <2>5. ASSUME NEW q \in (a + 1)..(c - 2)
        PROVE  ~EndsAt(q)
    <3> DEFINE i == q - a
    <3>1. /\ i \in 1..Len(t) /\ q = a + i /\ q + 1 = a + (i + 1)
          /\ i = Len(t) => q + 1 = a + Len(t) + 1
          /\ i # Len(t) => i \in 1..(Len(t) - 1) /\ i + 1 \in 1..Len(t)
      <4> DEFINE l == Len(t)
      <4>1. c = a + l + 2 /\ a \in Nat /\ l \in Nat
        BY <2>1, <2>2
      <4> HIDE DEF l
      <4>2. /\ i \in 1..l /\ q = a + i /\ q + 1 = a + (i + 1)
            /\ i = l => q + 1 = a + l + 1
            /\ i # l => i \in 1..(l - 1) /\ i + 1 \in 1..l
        BY <4>1
      <4> QED
        BY <4>2 DEF l
    <3> HIDE DEF i
    <3>2. CASE i = Len(t)
      <4>1. Text[q + 1] = "CR"
        BY <2>1, <3>1, <3>2
      <4> QED
        BY <4>1 DEF EndsAt
    <3>3. CASE i # Len(t)
      <4>1. Text[q] = t[i] /\ Text[q + 1] = t[i + 1]
        BY <2>1, <3>1, <3>3
      <4> QED
        BY <2>2, <3>1, <3>3, <4>1 DEF EndsAt
    <3> QED
      BY <3>2, <3>3
  <2> QED
    BY <2>3, <2>4, <2>5 DEF a, c
<1>2. ASSUME n = Len(request.lines)
      PROVE  \A q \in (LineEnd(n) + 1)..(Len(Text) - 1) : ~EndsAt(q)
  <2>1. /\ LineEnd(n) \in Nat /\ Text \in Seq(Chars)
        /\ \A q \in Nat : LineEnd(n) < q /\ q <= Len(Text) => Text[q] = "x"
    BY <1>2, LinesInPlace
  <2> DEFINE a == LineEnd(n)
             z == Len(Text)
  <2>2. a \in Nat /\ z \in Nat
    BY <2>1
  <2>3. ASSUME NEW q \in (a + 1)..(z - 1)
        PROVE  Text[q] = "x"
    <3> HIDE DEF a, z
    <3>1. q \in Nat /\ a < q /\ q <= z
      BY <2>2
    <3> QED
      BY <2>1, <3>1 DEF a, z
  <2> QED
    BY <2>3 DEF EndsAt
<1> QED
  BY <1>1, <1>2

-----------------------------------------------------------------------------
(* HttpRequest: what the lines passed so far say of the request. *)

Legal(n) == request.lines[n].means \in (IF n = 1 THEN {"method"} ELSE Headers)
Passed(n) == \A k \in 1..n : request.lines[k].text # <<>> /\ Legal(k)

(* The least of a set, as the definitions choose it. *)
LEMMA Chosen ==
  ASSUME NEW S, S \subseteq Nat, S # {}
  PROVE  /\ (CHOOSE n \in S : \A k \in S : n <= k) \in S
         /\ \A k \in S : (CHOOSE n \in S : \A j \in S : n <= j) <= k
<1>1. \E n \in S : \A k \in S : n <= k
  BY LeastOne
<1> QED
  BY <1>1

LEMMA TheLeast ==
  ASSUME NEW S, S \subseteq Nat, NEW m \in S, \A k \in S : m <= k
  PROVE  (CHOOSE n \in S : \A k \in S : n <= k) = m
<1> DEFINE c == CHOOSE n \in S : \A k \in S : n <= k
<1>1. c \in S /\ \A k \in S : c <= k
  BY Chosen
<1> HIDE DEF c
<1>2. c <= m /\ m <= c /\ c \in Nat /\ m \in Nat
  BY <1>1
<1>3. c = m
  BY <1>2
<1> QED
  BY <1>3 DEF c

(* The blank line that ends the header is behind the lines passed. *)
LEMMA BlankAhead ==
  ASSUME request \in Requests, NEW n \in 0..Len(request.lines), Passed(n)
  PROVE  /\ Blank # {} => LastLine \in (n + 1)..Len(request.lines)
         /\ Blank = {} => LastLine = Len(request.lines)
         /\ n < Len(request.lines) /\ request.lines[n + 1].text = <<>>
              => Blank # {} /\ LastLine = n + 1
<1>1. Len(request.lines) \in Nat
  BY RequestTyped
<1>2. Blank \subseteq (n + 1)..Len(request.lines)
  <2> SUFFICES ASSUME NEW k \in Blank
               PROVE  k \in (n + 1)..Len(request.lines)
    OBVIOUS
  <2>1. k \in 1..Len(request.lines) /\ request.lines[k].text = <<>>
    BY DEF Blank
  <2>2. ~(k \in 1..n)
    BY <2>1 DEF Passed
  <2> QED
    BY <1>1, <2>1, <2>2
<1>3. Blank \subseteq Nat
  BY <1>1, <1>2
<1>4. ASSUME Blank # {}
      PROVE  LastLine \in (n + 1)..Len(request.lines)
  <2> DEFINE c == CHOOSE m \in Blank : \A k \in Blank : m <= k
  <2>1. c \in Blank
    BY <1>3, <1>4, Chosen
  <2>2. LastLine = c
    BY <1>4 DEF LastLine
  <2> QED
    BY <1>2, <2>1, <2>2
<1>5. ASSUME n < Len(request.lines), request.lines[n + 1].text = <<>>
      PROVE  Blank # {} /\ LastLine = n + 1
  <2>1. n + 1 \in Blank
    BY <1>1, <1>5 DEF Blank
  <2>2. \A k \in Blank : n + 1 <= k
    BY <1>1, <1>2
  <2>3. (CHOOSE m \in Blank : \A k \in Blank : m <= k) = n + 1
    BY <1>3, <2>1, <2>2, TheLeast
  <2> QED
    BY <2>1, <2>3 DEF LastLine
<1>6. Blank = {} => LastLine = Len(request.lines)
  BY DEF LastLine
<1> QED
  BY <1>4, <1>5, <1>6

(* The lines that count are those before the blank one. *)
LEMMA SentLinesAre ==
  ASSUME request \in Requests
  PROVE  \E m \in 0..Len(request.lines) :
           /\ SentLines = SubSeq(request.lines, 1, m)
           /\ Len(SentLines) = m /\ LastLine \in Nat
           /\ Blank = {} => m = Len(request.lines)
           /\ Blank # {} => LastLine = m + 1 /\ m < Len(request.lines)
           /\ \A k \in 1..m : SentLines[k] = request.lines[k]
<1>1. Len(request.lines) \in Nat
  BY RequestTyped
<1> DEFINE m == IF Blank = {} THEN LastLine ELSE LastLine - 1
<1>2. 0 \in 0..Len(request.lines) /\ Passed(0)
  BY <1>1 DEF Passed
<1>3. /\ Blank # {} => LastLine \in (0 + 1)..Len(request.lines)
      /\ Blank = {} => LastLine = Len(request.lines)
  BY <1>2, BlankAhead
<1>4. /\ m \in 0..Len(request.lines) /\ LastLine \in Nat
      /\ Blank = {} => m = Len(request.lines)
      /\ Blank # {} => LastLine = m + 1 /\ m < Len(request.lines)
  BY <1>1, <1>3
<1>5. SentLines = SubSeq(request.lines, 1, m)
  BY DEF SentLines
<1> HIDE DEF m
<1>6. /\ Len(SubSeq(request.lines, 1, m)) = m
      /\ \A k \in 1..m : SubSeq(request.lines, 1, m)[k] = request.lines[k]
  BY <1>4, RequestTyped
<1> QED
  BY <1>4, <1>5, <1>6

IllegalSent ==
  {n \in 1..Len(SentLines) :
     SentLines[n].means \notin (IF n = 1 THEN {"method"} ELSE Headers)}

(* The first thing wrong is behind the lines passed. *)
LEMMA WrongAhead ==
  ASSUME request \in Requests, NEW n \in 0..Len(request.lines), Passed(n)
  PROVE  /\ Wrong # 0 => Wrong \in (n + 1)..Len(request.lines)
         /\ n < Len(request.lines) /\ request.lines[n + 1].text # <<>>
              /\ ~Legal(n + 1) => Wrong = n + 1
         /\ n < Len(request.lines) /\ request.lines[n + 1].text = <<>> =>
              /\ SentLines = SubSeq(request.lines, 1, n)
              /\ Len(SentLines) = n
              /\ Wrong = IF \E k \in 1..n : SentLines[k].means = "host"
                           THEN 0 ELSE n + 1
<1>1. Len(request.lines) \in Nat
  BY RequestTyped
<1>2. PICK m \in 0..Len(request.lines) :
        /\ SentLines = SubSeq(request.lines, 1, m)
        /\ Len(SentLines) = m
        /\ Blank = {} => m = Len(request.lines)
        /\ Blank # {} => LastLine = m + 1 /\ m < Len(request.lines)
        /\ \A k \in 1..m : SentLines[k] = request.lines[k]
  BY SentLinesAre
<1>3. /\ Blank # {} => LastLine \in (n + 1)..Len(request.lines)
      /\ n < Len(request.lines) /\ request.lines[n + 1].text = <<>>
           => Blank # {} /\ LastLine = n + 1
  BY BlankAhead
<1>4. n <= m
  BY <1>1, <1>2, <1>3
<1>5. IllegalSent \subseteq (n + 1)..m
  <2> SUFFICES ASSUME NEW k \in IllegalSent
               PROVE  k \in (n + 1)..m
    OBVIOUS
  <2>1. k \in 1..m /\ ~Legal(k)
    BY <1>2 DEF IllegalSent, Legal
  <2>2. ~(k \in 1..n)
    BY <2>1 DEF Passed
  <2> QED
    BY <2>1, <2>2
<1>6. IllegalSent \subseteq Nat
  BY <1>5
<1>7. Wrong =
        IF IllegalSent # {}
          THEN CHOOSE k \in IllegalSent : \A j \in IllegalSent : k <= j
          ELSE IF /\ Blank # {}
                  /\ \A k \in 1..Len(SentLines) : SentLines[k].means # "host"
                 THEN LastLine ELSE 0
  BY DEF Wrong, IllegalSent
<1>8. Wrong # 0 => Wrong \in (n + 1)..Len(request.lines)
  <2>1. CASE IllegalSent # {}
    <3>1. (CHOOSE k \in IllegalSent : \A j \in IllegalSent : k <= j)
             \in IllegalSent
      BY <1>6, <2>1, Chosen
    <3>2. Wrong \in (n + 1)..m
      BY <1>5, <1>7, <2>1, <3>1
    <3> QED
      BY <1>1, <3>2
  <2>2. CASE IllegalSent = {}
    <3>1. Wrong # 0 => Blank # {} /\ Wrong = LastLine
      BY <1>7, <2>2
    <3> QED
      BY <1>3, <3>1
  <2> QED
    BY <2>1, <2>2
<1>9. ASSUME n < Len(request.lines), request.lines[n + 1].text # <<>>,
             ~Legal(n + 1)
      PROVE  Wrong = n + 1
  <2>1. n + 1 <= m
    <3>1. CASE Blank = {}
      BY <1>1, <1>2, <1>9, <3>1
    <3>2. CASE Blank # {} /\ LastLine = n + 1
      <4>1. Blank \subseteq Nat
        BY <1>1 DEF Blank
      <4>2. LastLine \in Blank
        <5>1. LastLine = CHOOSE k \in Blank : \A j \in Blank : k <= j
          BY <3>2 DEF LastLine
        <5> QED
          BY <3>2, <4>1, <5>1, Chosen
      <4>3. request.lines[n + 1].text = <<>>
        BY <3>2, <4>2 DEF Blank
      <4> QED
        BY <1>9, <4>3
    <3>3. CASE Blank # {} /\ LastLine # n + 1
      BY <1>1, <1>2, <1>3, <3>3
    <3> QED
      BY <3>1, <3>2, <3>3
  <2>2. n + 1 \in IllegalSent
    <3>1. n + 1 \in 1..m
      BY <1>1, <2>1
    <3> QED
      BY <1>2, <1>9, <3>1 DEF IllegalSent, Legal
  <2>3. \A k \in IllegalSent : n + 1 <= k
    BY <1>5
  <2>4. (CHOOSE k \in IllegalSent : \A j \in IllegalSent : k <= j) = n + 1
    BY <1>6, <2>2, <2>3, TheLeast
  <2> QED
    BY <1>7, <2>2, <2>4
<1>10. ASSUME n < Len(request.lines), request.lines[n + 1].text = <<>>
       PROVE  /\ SentLines = SubSeq(request.lines, 1, n)
              /\ Len(SentLines) = n
              /\ Wrong = IF \E k \in 1..n : SentLines[k].means = "host"
                           THEN 0 ELSE n + 1
  <2>1. Blank # {} /\ LastLine = n + 1 /\ m = n
    BY <1>1, <1>2, <1>3, <1>10
  <2>2. IllegalSent = {}
    BY <1>5, <2>1
  <2>3. Wrong = IF \A k \in 1..n : SentLines[k].means # "host"
                  THEN n + 1 ELSE 0
    BY <1>2, <1>7, <2>1, <2>2
  <2> QED
    BY <1>2, <2>1, <2>3
<1> QED
  BY <1>8, <1>9, <1>10

-----------------------------------------------------------------------------
(* HttpRequest: the invariant. *)

Accepted ==
  /\ Blank # {} /\ Wrong = 0 /\ said = SentLines
  /\ LineEnd(LastLine) <= max_header_size /\ SentLength <= max_body_size

(* While the header is read: the lines passed are the first of those sent, and
   what is kept are the bytes behind them, or from within them on. *)
HeaderSoFar ==
  thrown = "no" /\ ~m_ready /\ m_body_bytes_needed = 0 =>
    /\ m_body = <<>>
    /\ Len(said) \in 0..Len(request.lines)
    /\ said = SubSeq(request.lines, 1, Len(said)) /\ Passed(Len(said))
    /\ Len(m_buf) <= read /\ m_buf = Places(read - Len(m_buf) + 1, read)
    /\ LineEnd(Len(said)) <= m_header_bytes
    /\ consuming => read - Len(m_buf) + begin = LineEnd(Len(said))
    /\ ~consuming =>
         /\ read - Len(m_buf) = LineEnd(Len(said)) /\ processed = read
         /\ Len(said) < Len(request.lines) => read < LineEnd(Len(said) + 1)

(* While the body is read. *)
BodySoFar ==
  thrown = "no" /\ ~m_ready /\ m_body_bytes_needed # 0 =>
    /\ Accepted
    /\ m_body_bytes_needed = LineEnd(LastLine) + SentLength - read
    /\ m_body = Places(LineEnd(LastLine) + 1, read)
    /\ LineEnd(LastLine) <= read /\ processed = read

Phases ==
  /\ request \in Requests
  /\ consuming => thrown = "no" /\ ~m_ready /\ m_body_bytes_needed = 0
  /\ m_ready \in BOOLEAN /\ consuming \in BOOLEAN
  /\ read <= Len(Text) /\ m_body_bytes_needed \in Nat

LEMMA SameRequest ==
  ASSUME request' = request
  PROVE  /\ Text' = Text /\ Blank' = Blank /\ LastLine' = LastLine
         /\ SentLines' = SentLines /\ Wrong' = Wrong
         /\ SentLength' = SentLength
         /\ \A k : LineEnd(k)' = LineEnd(k) /\ (Passed(k)' <=> Passed(k))
BY DEF Text, Lines, Blank, LastLine, SentLines, Wrong, SentLength, LineEnd,
       Passed, Legal

(* Places, cut and joined. *)
LEMMA PlacesAre ==
  ASSUME NEW a \in Int, NEW c \in Int, a <= c + 1
  PROVE  /\ Places(a, c) \in Seq(Int) /\ Len(Places(a, c)) = (c - a) + 1
         /\ \A i \in 1..((c - a) + 1) : Places(a, c)[i] = (a + i) - 1
<1> DEFINE m == (c - a) + 1
           s == [i \in 1..m |-> a + i - 1]
<1>1. m \in Nat
  OBVIOUS
<1>2. Places(a, c) = s
  BY DEF Places
<1> HIDE DEF m
<1>3. /\ s \in Seq(Int) /\ Len(s) = m
      /\ \A i \in 1..m : s[i] = (a + i) - 1
  BY <1>1
<1> HIDE DEF s
<1> QED
  BY <1>2, <1>3 DEF m

LEMMA PlacesCut ==
  ASSUME NEW a \in Int, NEW c \in Int, NEW i \in Nat, NEW j \in Nat,
         1 <= i, i <= j + 1, j <= (c - a) + 1
  PROVE  SubSeq(Places(a, c), i, j) = Places((a + i) - 1, (a + j) - 1)
<1> DEFINE p == Places(a, c)
           s == SubSeq(p, i, j)
           t == Places((a + i) - 1, (a + j) - 1)
           m == (j - i) + 1
<1>1. a <= c + 1
  OBVIOUS
<1>2. /\ p \in Seq(Int) /\ Len(p) = (c - a) + 1
      /\ \A k \in 1..((c - a) + 1) : p[k] = (a + k) - 1
  BY <1>1, PlacesAre
<1> HIDE DEF p
<1>3. /\ s \in Seq(Int) /\ Len(s) = m
      /\ \A k \in 1..m : s[k] = p[(i + k) - 1]
  BY <1>2
<1>4. /\ t \in Seq(Int) /\ Len(t) = m
      /\ \A k \in 1..m : t[k] = (((a + i) - 1) + k) - 1
  <2>1. /\ (a + i) - 1 \in Int /\ (a + j) - 1 \in Int
        /\ (a + i) - 1 <= ((a + j) - 1) + 1
        /\ (((a + j) - 1) - ((a + i) - 1)) + 1 = m
    OBVIOUS
  <2> HIDE DEF m
  <2> QED
    BY <2>1, PlacesAre
<1> HIDE DEF s, t
<1>5. \A k \in 1..m : s[k] = t[k]
  <2> SUFFICES ASSUME NEW k \in 1..m
               PROVE  s[k] = t[k]
    OBVIOUS
  <2>1. /\ (i + k) - 1 \in 1..((c - a) + 1)
        /\ (a + ((i + k) - 1)) - 1 = (((a + i) - 1) + k) - 1
    OBVIOUS
  <2> QED
    BY <1>2, <1>3, <1>4, <2>1
<1>6. s = t
  <2> HIDE DEF m
  <2> QED
    BY <1>3, <1>4, <1>5, SeqEqual
<1> QED
  BY <1>6 DEF s, t, p

LEMMA PlacesJoined ==
  ASSUME NEW a \in Int, NEW b \in Int, NEW c \in Int, a <= b + 1, b <= c
  PROVE  Places(a, b) \o Places(b + 1, c) = Places(a, c)
<1> DEFINE p == Places(a, b)
           q == Places(b + 1, c)
           t == Places(a, c)
           m == (c - a) + 1
           l == (b - a) + 1
           d == ((c - (b + 1)) + 1)
<1>1. /\ p \in Seq(Int) /\ Len(p) = l
      /\ \A k \in 1..l : p[k] = (a + k) - 1
  BY PlacesAre
<1>2. /\ q \in Seq(Int) /\ Len(q) = d
      /\ \A k \in 1..d : q[k] = ((b + 1) + k) - 1
  <2>1. b + 1 \in Int /\ b + 1 <= c + 1
    OBVIOUS
  <2> QED
    BY <2>1, PlacesAre
<1>3. /\ t \in Seq(Int) /\ Len(t) = m
      /\ \A k \in 1..m : t[k] = (a + k) - 1
  <2>1. a <= c + 1
    OBVIOUS
  <2> QED
    BY <2>1, PlacesAre
<1> HIDE DEF p, q, t
<1> DEFINE u == p \o q
<1>4. /\ u \in Seq(Int) /\ Len(u) = l + d
      /\ \A k \in 1..l : u[k] = p[k]
      /\ \A k \in 1..d : u[l + k] = q[k]
  <2>1. p \in Seq(Int) /\ q \in Seq(Int)
    BY <1>1, <1>2
  <2>2. /\ p \o q \in Seq(Int) /\ Len(p \o q) = Len(p) + Len(q)
        /\ \A k \in 1..Len(p) : (p \o q)[k] = p[k]
        /\ \A k \in 1..Len(q) : (p \o q)[Len(p) + k] = q[k]
    BY <2>1, Joined
  <2>3. Len(p) = l /\ Len(q) = d
    BY <1>1, <1>2
  <2> HIDE DEF l, d
  <2> QED
    BY <2>2, <2>3
<1> HIDE DEF u
<1>5. \A k \in 1..m : u[k] = t[k]
  <2> SUFFICES ASSUME NEW k \in 1..m
               PROVE  u[k] = t[k]
    OBVIOUS
  <2>1. CASE k <= l
    <3>1. k \in 1..l
      BY <2>1
    <3> QED
      BY <1>1, <1>3, <1>4, <3>1
  <2>2. CASE k > l
    <3>1. /\ k - l \in 1..d /\ l + (k - l) = k
          /\ ((b + 1) + (k - l)) - 1 = (a + k) - 1
      BY <2>2
    <3>2. u[l + (k - l)] = q[k - l] /\ q[k - l] = ((b + 1) + (k - l)) - 1
      BY <1>2, <1>4, <3>1
    <3> QED
      BY <1>3, <3>1, <3>2
  <2> QED
    BY <2>1, <2>2
<1>6. l + d = m
  OBVIOUS
<1>7. u = t
  <2> HIDE DEF m, l, d
  <2> QED
    BY <1>3, <1>4, <1>5, <1>6, SeqEqual
<1> QED
  BY <1>7 DEF u, p, q, t

(* While the header is read, with n lines passed and b bytes gone. *)
LEMMA Search ==
  ASSUME HeaderSoFar, Phases, Counting, consuming,
         NEW n, n = Len(said), NEW b, b = read - Len(m_buf)
  PROVE  /\ n \in 0..Len(request.lines) /\ b \in Nat
         /\ b + begin = LineEnd(n) /\ b + Len(m_buf) = read
         /\ Delimiters = {} =>
              /\ end = Len(m_buf)
              /\ n < Len(request.lines) => read < LineEnd(n + 1)
         /\ Delimiters # {} =>
              /\ n < Len(request.lines) /\ LineEnd(n + 1) <= read
              /\ end \in Nat /\ begin <= end /\ end + 2 <= Len(m_buf)
              /\ b + end + 2 = LineEnd(n + 1)
<1> DEFINE l == Len(m_buf)
           a == LineEnd(n)
           c == LineEnd(n + 1)
<1>1. /\ n \in 0..Len(request.lines) /\ l <= read
      /\ m_buf = Places((read - l) + 1, read)
      /\ (read - l) + begin = a
      /\ request \in Requests /\ read <= Len(Text)
      /\ read \in Nat /\ begin \in Nat /\ l \in Nat /\ begin <= l
  BY DEF HeaderSoFar, Phases, Counting
<1>2. /\ b \in Nat /\ b + begin = a /\ b + l = read /\ a \in Nat
  BY <1>1
<1>3. \A e \in begin..(l - 2) :
        /\ m_buf[e + 1] = (b + e) + 1 /\ m_buf[e + 2] = ((b + e) + 1) + 1
  <2>1. \A k \in 1..l : m_buf[k] = b + k
    <3>1. /\ b + 1 \in Int /\ read \in Int /\ b + 1 <= read + 1
          /\ (read - (b + 1)) + 1 = l
          /\ (read - l) + 1 = b + 1
      BY <1>1, <1>2
    <3>2. \A k \in 1..((read - (b + 1)) + 1) :
            Places(b + 1, read)[k] = ((b + 1) + k) - 1
      BY <3>1, PlacesAre
    <3>3. m_buf = Places(b + 1, read)
      BY <1>1, <3>1
    <3>4. \A k \in 1..l : m_buf[k] = ((b + 1) + k) - 1
      BY <3>1, <3>2, <3>3
    <3>5. \A k \in 1..l : ((b + 1) + k) - 1 = b + k
      BY <1>2
    <3> QED
      BY <3>4, <3>5
  <2> HIDE DEF l
  <2>2. \A e \in begin..(l - 2) :
          /\ e + 1 \in 1..l /\ e + 2 \in 1..l
          /\ b + (e + 1) = (b + e) + 1 /\ b + (e + 2) = ((b + e) + 1) + 1
    BY <1>1, <1>2
  <2> QED
    BY <2>1, <2>2
<1>4. Delimiters = {e \in begin..(l - 2) : EndsAt((b + e) + 1)}
  BY <1>3 DEF Delimiters, EndsAt
<1> HIDE DEF l
<1>5. Delimiters \subseteq Nat
  BY <1>1, <1>4
<1>6. Delimiters = {} => end = l
  BY DEF end, l
<1>7. CASE n = Len(request.lines)
  <2> DEFINE z == Len(Text)
  <2>1. \A q \in (a + 1)..(z - 1) : ~EndsAt(q)
    BY <1>1, <1>7, FirstEnd
  <2>2. z \in Nat
    <3>1. Text \in Seq(Chars)
      BY <1>1, LinesInPlace
    <3> QED
      BY <3>1
  <2>3. read <= z
    BY <1>1
  <2> HIDE DEF a, z
  <2>4. \A e \in begin..(l - 2) : (b + e) + 1 \in (a + 1)..(z - 1)
    BY <1>1, <1>2, <2>2, <2>3
  <2>5. Delimiters = {}
    BY <1>4, <2>1, <2>4
  <2> QED
    BY <1>1, <1>2, <1>6, <1>7, <2>5 DEF l, a
<1>8. CASE n < Len(request.lines)
  <2>1. /\ a + 1 <= c - 1 /\ EndsAt(c - 1)
        /\ \A q \in (a + 1)..(c - 2) : ~EndsAt(q)
    BY <1>1, <1>8, FirstEnd
  <2>2. c \in Nat
    <3>1. n + 1 \in 0..Len(request.lines)
      BY <1>1, <1>8, RequestTyped
    <3> QED
      BY <1>1, <3>1, LinesInPlace
  <2> HIDE DEF a, c
  <2>3. CASE c <= read
    <3> DEFINE d == (c - 2) - b
    <3>1. /\ d \in begin..(l - 2) /\ (b + d) + 1 = c - 1 /\ d \in Nat
          /\ (b + d) + 2 = c /\ d + 2 <= l
      BY <1>1, <1>2, <2>1, <2>2, <2>3
    <3> HIDE DEF d
    <3>2. d \in Delimiters
      BY <1>4, <2>1, <3>1
    <3>3. ASSUME NEW e \in Delimiters
          PROVE  d <= e
      <4>1. e \in begin..(l - 2) /\ EndsAt((b + e) + 1)
        BY <1>4
      <4>2. ~((b + e) + 1 \in (a + 1)..(c - 2))
        BY <2>1, <4>1
      <4> QED
        BY <1>1, <1>2, <2>2, <3>1, <4>1, <4>2
    <3>4. end = d
      <4>1. end = CHOOSE e \in Delimiters : \A k \in Delimiters : e <= k
        BY <3>2 DEF end
      <4> QED
        BY <1>5, <3>2, <3>3, <4>1, TheLeast
    <3>5. end \in Nat /\ begin <= end /\ end + 2 <= l /\ b + end + 2 = c
      BY <1>1, <1>2, <3>1, <3>4
    <3> QED
      BY <1>1, <1>2, <1>8, <2>3, <3>2, <3>5 DEF l, a, c
  <2>4. CASE ~(c <= read)
    <3>1. \A e \in begin..(l - 2) : (b + e) + 1 \in (a + 1)..(c - 2)
      BY <1>1, <1>2, <2>2, <2>4
    <3>2. Delimiters = {}
      BY <1>4, <2>1, <3>1
    <3>3. read < c
      BY <1>1, <2>2, <2>4
    <3> QED
      BY <1>1, <1>2, <1>6, <3>2, <3>3 DEF l, a, c
  <2> QED
    BY <2>3, <2>4
<1> QED
  <2>1. n = Len(request.lines) \/ n < Len(request.lines)
    BY <1>1, RequestTyped
  <2> QED
    BY <1>7, <1>8, <2>1

(* The line found is the next one. *)
LEMMA LineFound ==
  ASSUME HeaderSoFar, Phases, Counting, consuming,
         Delimiters # {}, begin < end
  PROVE  /\ TheLine = request.lines[Len(said) + 1]
         /\ request.lines[Len(said) + 1].text # <<>>
<1> DEFINE n == Len(said)
           b == read - Len(m_buf)
           l == Len(m_buf)
           e == end
           a == LineEnd(n)
           c == LineEnd(n + 1)
           places == SubSeq(m_buf, begin + 1, e)
<1>1. /\ n \in 0..Len(request.lines) /\ b \in Nat
      /\ b + begin = a /\ b + l = read
      /\ n < Len(request.lines) /\ c <= read
      /\ e \in Nat /\ e + 2 <= l
      /\ b + e + 2 = c
  BY Search
<1>2. /\ m_buf = Places(b + 1, read) /\ begin \in Nat /\ l \in Nat
      /\ read \in Nat /\ begin < e /\ request \in Requests
  BY DEF HeaderSoFar, Phases, Counting
<1>3. /\ Len(request.lines) \in Nat /\ n \in Nat
      /\ n + 1 \in 1..Len(request.lines) /\ (n + 1) - 1 = n
  BY <1>1, <1>2, RequestTyped
<1>4. a \in Nat /\ c \in Nat
  <2>1. n + 1 \in 0..Len(request.lines)
    BY <1>3
  <2> QED
    BY <1>1, <1>2, <2>1, LinesInPlace
<1>5. c = a + Len(request.lines[n + 1].text) + 2
  BY <1>1, <1>2, LinesInPlace
<1>6. request.lines[n + 1].text # <<>>
  <2> DEFINE t == request.lines[n + 1].text
  <2>1. Len(t) \in Nat /\ Len(t) # 0
    <3>1. Len(t) \in Nat
      BY <1>2, <1>3, RequestTyped
    <3> HIDE DEF t, a, b, c, e, l, n
    <3>2. c = a + Len(t) + 2
      BY <1>5 DEF t
    <3> QED
      BY <1>1, <1>2, <1>4, <3>1, <3>2
  <2> HIDE DEF t
  <2>2. t # <<>>
    BY <2>1
  <2> QED
    BY <2>2 DEF t
<1> HIDE DEF b, e, a, c, l, n
<1>7. /\ places = Places(a + 1, c - 2)
      /\ a + 1 <= c - 2
  <2>1. /\ b + 1 \in Int /\ read \in Int /\ begin + 1 \in Nat /\ e \in Nat
        /\ 1 <= begin + 1 /\ begin + 1 <= e + 1 /\ e <= (read - (b + 1)) + 1
        /\ ((b + 1) + (begin + 1)) - 1 = a + 1
        /\ ((b + 1) + e) - 1 = c - 2
        /\ a + 1 <= c - 2
    BY <1>1, <1>2, <1>4
  <2>2. SubSeq(Places(b + 1, read), begin + 1, e)
          = Places(((b + 1) + (begin + 1)) - 1, ((b + 1) + e) - 1)
    BY <2>1, PlacesCut
  <2> QED
    BY <1>2, <2>1, <2>2
<1> DEFINE here == {k \in 1..Len(request.lines) :
                      places = Places(LineEnd(k - 1) + 1, LineEnd(k) - 2)}
<1>8. n + 1 \in here
  BY <1>3, <1>7 DEF a, c
<1>9. ASSUME NEW k \in here
      PROVE  k = n + 1
  <2> DEFINE f == LineEnd(k - 1)
             g == LineEnd(k)
  <2>1. /\ k \in 1..Len(request.lines) /\ k - 1 \in 0..Len(request.lines)
        /\ k \in 0..Len(request.lines) /\ k - 1 < k
    BY <1>3
  <2>2. f + 2 <= g /\ f \in Nat /\ g \in Nat
    BY <1>2, <2>1, LineEndsGrow, LinesInPlace
  <2>3. Places(a + 1, c - 2) = Places(f + 1, g - 2)
    BY <1>7
  <2> HIDE DEF f, g, here, places
  <2>4. /\ Len(Places(a + 1, c - 2)) = ((c - 2) - (a + 1)) + 1
        /\ Places(a + 1, c - 2)[1] = ((a + 1) + 1) - 1
    <3>1. /\ a + 1 \in Int /\ c - 2 \in Int /\ a + 1 <= (c - 2) + 1
          /\ 1 \in 1..(((c - 2) - (a + 1)) + 1)
      BY <1>4, <1>7
    <3> QED
      BY <3>1, PlacesAre
  <2>5. /\ Len(Places(f + 1, g - 2)) = ((g - 2) - (f + 1)) + 1
        /\ 1 <= ((g - 2) - (f + 1)) + 1
             => Places(f + 1, g - 2)[1] = ((f + 1) + 1) - 1
    <3>1. f + 1 \in Int /\ g - 2 \in Int /\ f + 1 <= (g - 2) + 1
      BY <2>2
    <3>2. 1 <= ((g - 2) - (f + 1)) + 1 => 1 \in 1..(((g - 2) - (f + 1)) + 1)
      BY <2>2
    <3> QED
      BY <3>1, <3>2, PlacesAre
  <2>6. f = a
    <3>1. ((c - 2) - (a + 1)) + 1 = ((g - 2) - (f + 1)) + 1
      BY <2>3, <2>4, <2>5, Zenon
    <3>2. 1 <= ((g - 2) - (f + 1)) + 1
      BY <1>4, <1>7, <2>2, <3>1
    <3>3. ((a + 1) + 1) - 1 = ((f + 1) + 1) - 1
      BY <2>3, <2>4, <2>5, <3>2, Zenon
    <3> QED
      BY <1>4, <2>2, <3>3
  <2>7. LineEnd(k - 1) = LineEnd(n)
    BY <2>6 DEF f, a
  <2>8. ~(k - 1 < n) /\ ~(n < k - 1)
    <3> DEFINE j == k - 1
    <3>1. /\ LineEnd(j) \in Nat /\ LineEnd(n) \in Nat
          /\ j \in 0..Len(request.lines)
      BY <1>1, <1>2, <2>1, LinesInPlace
    <3>2. j < n => LineEnd(j) + 2 <= LineEnd(n)
      BY <1>1, <1>2, <3>1, LineEndsGrow
    <3>3. n < j => LineEnd(n) + 2 <= LineEnd(j)
      BY <1>1, <1>2, <3>1, LineEndsGrow
    <3>4. LineEnd(j) = LineEnd(n)
      BY <2>7
    <3> HIDE DEF j
    <3>5. ~(j < n) /\ ~(n < j)
      BY <3>1, <3>2, <3>3, <3>4
    <3> QED
      BY <3>5 DEF j
  <2> QED
    BY <1>3, <2>1, <2>8
<1>10. TheLine = request.lines[CHOOSE k \in here : TRUE]
  BY <1>8 DEF TheLine, e
<1>11. (CHOOSE k \in here : TRUE) = n + 1
  <2> HIDE DEF here
  <2> QED
    BY <1>8, <1>9
<1> QED
  BY <1>6, <1>10, <1>11 DEF n

-----------------------------------------------------------------------------
(* HttpRequest: the steps. *)

RequestInv == HeaderSoFar /\ BodySoFar /\ Phases

LEMMA SentLengthTyped ==
  ASSUME request \in Requests
  PROVE  SentLength \in Nat
<1> DEFINE given == {k \in 1..Len(SentLines) : SentLines[k].means = "length"}
<1>1. PICK m \in 0..Len(request.lines) :
        /\ Len(SentLines) = m
        /\ \A k \in 1..m : SentLines[k] = request.lines[k]
  BY SentLinesAre
<1>2. ASSUME NEW k \in 1..m
      PROVE  SentLines[k].length \in Nat
  <2>1. k \in 1..Len(request.lines) /\ SentLines[k] = request.lines[k]
    BY <1>1, RequestTyped
  <2>2. request.lines[k].length \in Nat
    BY <2>1, RequestTyped
  <2> QED
    BY <2>1, <2>2, Zenon
<1>3. given \subseteq Nat /\ given \subseteq 1..m
  BY <1>1
<1>4. CASE given = {}
  BY <1>4 DEF SentLength
<1>5. CASE given # {}
  <2> DEFINE c == CHOOSE k \in given : \A j \in given : k <= j
  <2>1. SentLength = SentLines[c].length
    BY <1>5 DEF SentLength
  <2>2. c \in 1..m
    <3> HIDE DEF given
    <3> QED
      BY <1>3, <1>5, Chosen
  <2> HIDE DEF c
  <2> QED
    BY <1>2, <2>1, <2>2
<1> QED
  BY <1>4, <1>5

(* Between two reads of the header, nothing is due. *)
LEMMA NothingDue ==
  ASSUME request \in Requests, NEW n \in 0..Len(request.lines), Passed(n),
         NEW r \in Nat, n < Len(request.lines) => r < LineEnd(n + 1)
  PROVE  /\ Wrong # 0 => r < LineEnd(Wrong)
         /\ Blank # {} => r < LineEnd(LastLine) + SentLength
<1>1. Len(request.lines) \in Nat
  BY RequestTyped
<1>2. ASSUME NEW k \in (n + 1)..Len(request.lines)
      PROVE  r < LineEnd(k) /\ LineEnd(k) \in Nat
  <2>1. /\ n < Len(request.lines) /\ n + 1 \in 0..Len(request.lines)
        /\ k \in 0..Len(request.lines)
    BY <1>1
  <2>2. LineEnd(k) \in Nat /\ LineEnd(n + 1) \in Nat /\ r < LineEnd(n + 1)
    BY <2>1, LinesInPlace
  <2>3. CASE k = n + 1
    BY <2>2, <2>3
  <2>4. CASE k # n + 1
    <3>1. n + 1 < k
      BY <1>1, <2>4
    <3>2. LineEnd(n + 1) + 2 <= LineEnd(k)
      BY <2>1, <3>1, LineEndsGrow
    <3> QED
      BY <2>2, <3>2
  <2> QED
    BY <2>3, <2>4
<1>3. Wrong # 0 => r < LineEnd(Wrong)
  BY <1>2, WrongAhead
<1>4. ASSUME Blank # {}
      PROVE  r < LineEnd(LastLine) + SentLength
  <2>1. LastLine \in (n + 1)..Len(request.lines)
    BY <1>4, BlankAhead
  <2>2. r < LineEnd(LastLine) /\ LineEnd(LastLine) \in Nat
    BY <1>2, <2>1
  <2>3. SentLength \in Nat
    BY SentLengthTyped
  <2> QED
    BY <2>2, <2>3
<1> QED
  BY <1>3, <1>4

(* A body of d bytes begins behind byte a, lacks needed of them, and has them
   up to the byte in front of first; last is the last byte read. *)
Lacks(a, d, needed, first, last) ==
  /\ a \in Nat /\ d \in Nat /\ needed \in Nat /\ first \in Nat /\ last \in Nat
  /\ a < first /\ first <= last + 1 /\ needed = (a + d + 1) - first
  /\ m_body = Places(a + 1, first - 1)

(* What process_body does to such a body. *)
LEMMA BodyTaken ==
  ASSUME NEW a, NEW d, NEW needed, NEW first, NEW last,
         Lacks(a, d, needed, first, last), ProcessBody(needed, first, last)
  PROVE  /\ m_ready' \in BOOLEAN /\ m_body_bytes_needed' \in Nat
         /\ m_ready' <=> m_body_bytes_needed' = 0
         /\ m_ready' => processed' = a + d /\ a + d <= last
         /\ ~m_ready' => processed' = last /\ last < a + d
         /\ a <= processed'
         /\ m_body_bytes_needed' = (a + d) - processed'
         /\ m_body' = Places(a + 1, processed')
<1> DEFINE there == last - first + 1
           taken == IF needed < there THEN needed ELSE there
           z == first + taken - 1
<1> USE DEF Lacks
<1>1. /\ m_body' = m_body \o Places(first, z)
      /\ m_body_bytes_needed' = needed - taken
      /\ processed' = z
      /\ m_ready' = (needed = taken)
  BY DEF ProcessBody
<1>2. /\ there \in Nat /\ there = (last - first) + 1
  OBVIOUS
<1>3. /\ taken \in Nat /\ taken <= needed /\ taken <= there
      /\ taken # needed => taken = there /\ there < needed
  <2> HIDE DEF there
  <2> QED
    BY <1>2
<1> HIDE DEF there, taken
<1>4. z = (first + taken) - 1 /\ z \in Nat
  BY <1>3
<1> HIDE DEF z
<1>5. /\ needed - taken \in Nat /\ needed - taken = (a + d) - z
      /\ needed = taken => z = a + d /\ a + d <= last
      /\ needed # taken => z = last /\ last < a + d
      /\ a <= z /\ first - 1 <= z
      /\ needed = taken <=> needed - taken = 0
  BY <1>2, <1>3, <1>4
<1>6. m_body' = Places(a + 1, z)
  <2>1. /\ a + 1 \in Int /\ first - 1 \in Int /\ z \in Int
        /\ a + 1 <= (first - 1) + 1 /\ first - 1 <= z /\ (first - 1) + 1 = first
    BY <1>4, <1>5
  <2>2. Places(a + 1, first - 1) \o Places((first - 1) + 1, z)
          = Places(a + 1, z)
    BY <2>1, PlacesJoined
  <2> QED
    BY <1>1, <2>1, <2>2
<1> QED
  BY <1>1, <1>5, <1>6

(* An exception, for a reason that the request gives. *)
LEMMA Thrown ==
  ASSUME RequestInv, NEW why, why # "no", Throw(why),
         why = "bad" => Wrong # 0 /\ LineEnd(Wrong) <= read,
         why = "body too large" => Wrong = 0 /\ SentLength > max_body_size
  PROVE  RequestInv' /\ RequestAsSent'
<1>1. /\ thrown' = why /\ consuming' = FALSE /\ m_ready' = FALSE
      /\ request' = request /\ read' = read
      /\ m_body_bytes_needed' = m_body_bytes_needed
  BY DEF Throw, Round, RequestInv, Phases
<1>2. /\ Text' = Text /\ Wrong' = Wrong /\ SentLength' = SentLength
      /\ \A k : LineEnd(k)' = LineEnd(k)
  BY <1>1, SameRequest
<1>3. HeaderSoFar' /\ BodySoFar'
  BY <1>1 DEF HeaderSoFar, BodySoFar
<1>4. Phases'
  BY <1>1, <1>2 DEF RequestInv, Phases
<1>5. RequestAsSent'
  BY <1>1, <1>2 DEF RequestAsSent
<1> QED
  BY <1>3, <1>4, <1>5 DEF RequestInv

(* The read goes on, with the header or with the body. *)
LEMMA HeaderGoesOn ==
  ASSUME RequestInv, UNCHANGED <<request, m_body, m_ready, thrown>>,
         thrown = "no", ~m_ready, m_body_bytes_needed = 0,
         m_body_bytes_needed' = 0,
         consuming' \in BOOLEAN, read' <= Len(Text), read' \in Nat,
         NEW n \in 0..Len(request.lines),
         said' = SubSeq(request.lines, 1, n), Passed(n),
         NEW l \in Nat, Len(m_buf') = l, l <= read',
         m_buf' = Places(read' - l + 1, read'),
         LineEnd(n) <= m_header_bytes',
         consuming' => read' - l + begin' = LineEnd(n),
         ~consuming' => /\ read' - l = LineEnd(n) /\ processed' = read'
                        /\ n < Len(request.lines) => read' < LineEnd(n + 1)
  PROVE  RequestInv' /\ RequestAsSent'
<1>1. request \in Requests
  BY DEF RequestInv, Phases
<1>2. /\ Text' = Text /\ Wrong' = Wrong /\ SentLength' = SentLength
      /\ Blank' = Blank /\ LastLine' = LastLine
      /\ \A k : LineEnd(k)' = LineEnd(k) /\ (Passed(k)' <=> Passed(k))
  BY SameRequest
<1>3. Len(said') = n
  BY <1>1, RequestTyped
<1>4. m_body = <<>>
  BY DEF RequestInv, HeaderSoFar
<1>5. HeaderSoFar'
  <2>1. /\ LineEnd(n)' = LineEnd(n) /\ LineEnd(n + 1)' = LineEnd(n + 1)
        /\ Passed(n)'
    BY <1>2
  <2> QED
    BY <1>2, <1>3, <1>4, <2>1 DEF HeaderSoFar
<1>6. BodySoFar'
  BY DEF BodySoFar
<1>7. Phases'
  BY <1>1, <1>2 DEF Phases, RequestInv
<1>8. RequestAsSent'
  <2>1. ASSUME ~consuming'
        PROVE  /\ Wrong # 0 => read' < LineEnd(Wrong)
               /\ Blank # {} => read' < LineEnd(LastLine) + SentLength
    BY <1>1, <2>1, NothingDue
  <2> QED
    BY <1>2, <2>1 DEF RequestAsSent
<1> QED
  BY <1>5, <1>6, <1>7, <1>8 DEF RequestInv

LEMMA BodyGoesOn ==
  ASSUME RequestInv, UNCHANGED <<request, thrown>>, thrown = "no",
         consuming' = FALSE, read' <= Len(Text), read' \in Nat,
         said' = said, Accepted,
         NEW a \in Nat, a = LineEnd(LastLine), NEW d \in Nat, d = SentLength,
         m_ready' \in BOOLEAN, m_body_bytes_needed' \in Nat,
         m_ready' <=> m_body_bytes_needed' = 0,
         m_ready' => processed' = a + d /\ a + d <= read',
         ~m_ready' => processed' = read' /\ read' < a + d,
         a <= processed',
         m_body_bytes_needed' = (a + d) - processed',
         m_body' = Places(a + 1, processed')
  PROVE  RequestInv' /\ RequestAsSent'
<1>1. request \in Requests
  BY DEF RequestInv, Phases
<1>2. /\ Text' = Text /\ Wrong' = Wrong /\ SentLength' = SentLength
      /\ Blank' = Blank /\ LastLine' = LastLine /\ SentLines' = SentLines
      /\ \A k : LineEnd(k)' = LineEnd(k)
  BY SameRequest
<1>3. LineEnd(LastLine)' = a
  BY <1>2
<1>4. Accepted'
  BY <1>2, <1>3 DEF Accepted
<1>5. HeaderSoFar'
  BY DEF HeaderSoFar
<1>6. BodySoFar'
  BY <1>2, <1>3, <1>4 DEF BodySoFar
<1>7. Phases'
  BY <1>1, <1>2 DEF Phases
<1>8. RequestAsSent'
  <2>1. Blank # {} /\ Wrong = 0 /\ said = SentLines
    BY DEF Accepted
  <2>2. /\ m_ready' => m_body' = Places(a + 1, a + d)
                         /\ processed' <= read'
        /\ ~m_ready' => processed' = read' /\ read' < a + d
    OBVIOUS
  <2> QED
    BY <1>2, <1>3, <1>4, <2>1, <2>2 DEF RequestAsSent, Accepted
<1> QED
  BY <1>5, <1>6, <1>7, <1>8 DEF RequestInv

(* The first n lines of the request, the ones said when n are done. *)
LEMMA FirstLines ==
  ASSUME request \in Requests, NEW n \in 0..Len(request.lines)
  PROVE  LET first == SubSeq(request.lines, 1, n)
         IN  DOMAIN first = 1..n /\ (first = <<>> <=> n = 0)
<1> DEFINE S == [text : Seq(Chars), means : STRING, length : Nat]
           s == request.lines
           first == SubSeq(s, 1, n)
<1>1. s \in Seq(S) /\ n \in 0..Len(s)
  BY RequestTyped
<1> HIDE DEF S, s
<1>2. first \in Seq(S) /\ Len(first) = n
  BY <1>1
<1>3. DOMAIN first = 1..n /\ (first = <<>> <=> n = 0)
  <2> HIDE DEF first
  <2> QED
    BY <1>2
<1> QED
  BY <1>3 DEF s

(* What is kept when more is read, in counts alone. *)
LEMMA MoreKept ==
  ASSUME NEW r \in Nat, NEW q \in Nat, NEW l \in Nat, l <= r, r < q
  PROVE  LET m == l + (q - r)
         IN  /\ m \in Nat /\ m <= q /\ q - m = r - l
             /\ q - m + 0 = r - l
             /\ (r - l) + 1 \in Int /\ (r - l) + 1 <= r + 1 /\ r <= q
             /\ q - m + 1 = (r - l) + 1
  OBVIOUS

LEMMA RequestInvInductive ==
  ASSUME RequestInv, RequestAsSent, Counting, [RequestNext]_requestVars
  PROVE  RequestInv' /\ RequestAsSent'
<1>0. max_header_size \in Nat
  BY RequestAssumption
<1> DEFINE n == Len(said)
           b == read - Len(m_buf)
           l == Len(m_buf)
(* What is known before any step. *)
<1>1. /\ request \in Requests /\ read \in Nat /\ read <= Len(Text)
      /\ m_header_bytes \in Nat /\ l \in Nat /\ begin \in Nat
      /\ m_body_bytes_needed \in Nat
      /\ consuming \in BOOLEAN /\ m_ready \in BOOLEAN
      /\ HeaderSoFar /\ BodySoFar /\ Phases
  BY DEF RequestInv, Phases, Counting
<1>2. Len(request.lines) \in Nat
  BY <1>1, RequestTyped
<1>3. CASE UNCHANGED requestVars
  <2>1. request' = request
    BY <1>3 DEF requestVars
  <2>2. /\ Text' = Text /\ Wrong' = Wrong /\ SentLength' = SentLength
        /\ Blank' = Blank /\ LastLine' = LastLine /\ SentLines' = SentLines
        /\ \A k : LineEnd(k)' = LineEnd(k) /\ (Passed(k)' <=> Passed(k))
    BY <2>1, SameRequest
  <2>3. HeaderSoFar'
    BY <1>1, <1>3, <2>2 DEF HeaderSoFar, requestVars
  <2>4. BodySoFar' /\ Phases'
    BY <1>1, <1>3, <2>2 DEF BodySoFar, Phases, requestVars, Accepted
  <2>5. RequestAsSent'
    BY <1>3, <2>2 DEF RequestAsSent, requestVars
  <2> QED
    BY <2>3, <2>4, <2>5 DEF RequestInv
<1>4. ASSUME Read
      PROVE  /\ ~consuming /\ ~m_ready /\ thrown = "no"
             /\ read' \in Nat /\ read < read' /\ read' <= Len(Text)
  <2>1. Len(Text) \in Nat
    <3>1. 0 \in 0..Len(request.lines)
      BY <1>2
    <3>2. Text \in Seq(Chars)
      BY <1>1, <3>1, LinesInPlace
    <3> QED
      BY <3>2
  <2>2. read' \in (read + 1)..Len(Text)
    BY <1>4 DEF Read
  <2> DEFINE z == Len(Text)
  <2> HIDE DEF z
  <2>3. read' \in (read + 1)..z /\ z \in Nat
    BY <2>1, <2>2 DEF z
  <2>4. read' \in Nat /\ read < read' /\ read' <= z
    BY <1>1, <2>3
  <2> QED
    BY <1>4, <2>4 DEF Read, z
<1>5. CASE ReadHeader
  <2>1. /\ ~consuming /\ ~m_ready /\ thrown = "no"
        /\ read' \in Nat /\ read < read' /\ read' <= Len(Text)
    BY <1>4, <1>5 DEF ReadHeader
  <2>2. /\ m_body_bytes_needed = 0 /\ m_body_bytes_needed' = 0
        /\ m_buf' = m_buf \o Places(read + 1, read')
        /\ begin' = 0 /\ consuming' = TRUE
        /\ UNCHANGED <<request, m_body, m_ready, thrown, said, m_header_bytes>>
    BY <1>5 DEF ReadHeader
  <2>3. /\ n \in 0..Len(request.lines) /\ said = SubSeq(request.lines, 1, n)
        /\ Passed(n) /\ l <= read
        /\ m_buf = Places((read - l) + 1, read)
        /\ LineEnd(n) <= m_header_bytes /\ read - l = LineEnd(n)
    BY <1>1, <2>1, <2>2 DEF HeaderSoFar
  <2> DEFINE m == l + (read' - read)
  <2> HIDE DEF n, l
  <2>4. /\ m \in Nat /\ m <= read' /\ read' - m = read - l
        /\ read' - m + 0 = LineEnd(n)
    <3>1. read \in Nat /\ read' \in Nat /\ l \in Nat /\ l <= read
          /\ read < read'
      BY <1>1, <2>1, <2>3
    <3>2. /\ m \in Nat /\ m <= read' /\ read' - m = read - l
          /\ read' - m + 0 = read - l
      BY <3>1, MoreKept
    <3> QED
      BY <2>3, <3>2
  <2>5. Len(m_buf') = m
    BY <1>1, <2>1, <2>2, PlacesAdded DEF Counting, l
  <2>6. m_buf' = Places(read' - m + 1, read')
    <3>1. /\ (read - l) + 1 \in Int /\ read \in Int /\ read' \in Int
          /\ (read - l) + 1 <= read + 1 /\ read <= read'
          /\ read' - m + 1 = (read - l) + 1
      <4>1. read \in Nat /\ read' \in Nat /\ l \in Nat /\ l <= read
            /\ read < read'
        BY <1>1, <2>1, <2>3
      <4>2. PICK q \in Nat : q = read'
        BY <4>1
      <4>3. PICK r \in Nat : r = read
        BY <4>1
      <4>4. r < q /\ l <= r /\ l \in Nat /\ m = l + (q - r)
        BY <4>1, <4>2, <4>3
      <4>5. /\ (r - l) + 1 \in Int /\ (r - l) + 1 <= r + 1
            /\ r <= q /\ q - m + 1 = (r - l) + 1
        BY <4>4
      <4> QED
        BY <4>2, <4>3, <4>5
    <3>2. Places((read - l) + 1, read) \o Places(read + 1, read')
            = Places((read - l) + 1, read')
      BY <3>1, PlacesJoined
    <3> QED
      BY <2>2, <2>3, <3>1, <3>2, Zenon
  <2>7. read' - m + begin' = LineEnd(n)
    BY <2>2, <2>4
  <2>8. LineEnd(n) <= m_header_bytes' /\ said' = SubSeq(request.lines, 1, n)
    BY <2>2, <2>3
  <2> HIDE DEF m
  <2> QED
    BY <2>1, <2>2, <2>3, <2>4, <2>5, <2>6, <2>7, <2>8, HeaderGoesOn
<1>6. CASE ReadBody
  <2>1. /\ ~consuming /\ ~m_ready /\ thrown = "no"
        /\ read' \in Nat /\ read < read' /\ read' <= Len(Text)
    BY <1>4, <1>6 DEF ReadBody
  <2>2. /\ ProcessBody(m_body_bytes_needed, read + 1, read')
        /\ m_body_bytes_needed # 0
        /\ UNCHANGED <<request, consuming, said, thrown>>
    BY <1>1, <1>6 DEF ReadBody
  <2> DEFINE a == LineEnd(LastLine)
             d == SentLength
  <2>3. /\ Accepted /\ m_body_bytes_needed = a + d - read
        /\ m_body = Places(a + 1, read) /\ a <= read
    BY <1>1, <2>1, <2>2 DEF BodySoFar
  <2>4. a \in Nat /\ d \in Nat
    <3>1. LastLine \in 0..Len(request.lines)
      <4>1. 0 \in 0..Len(request.lines) /\ Passed(0)
        BY <1>2 DEF Passed
      <4>2. LastLine \in (0 + 1)..Len(request.lines)
        BY <1>1, <2>3, <4>1, BlankAhead DEF Accepted
      <4> QED
        BY <4>2
    <3> QED
      BY <1>1, <3>1, LinesInPlace, SentLengthTyped
  <2> HIDE DEF a, d
  <2>5. /\ read + 1 \in Nat /\ a < read + 1 /\ read + 1 <= read' + 1
        /\ m_body_bytes_needed = (a + d + 1) - (read + 1)
        /\ (read + 1) - 1 = read
    <3>1. /\ read \in Nat /\ read' \in Nat /\ a \in Nat /\ d \in Nat
          /\ a <= read /\ read < read'
      BY <1>1, <2>1, <2>3, <2>4
    <3>2. /\ read + 1 \in Nat /\ a < read + 1 /\ read + 1 <= read' + 1
          /\ a + d - read = (a + d + 1) - (read + 1)
          /\ (read + 1) - 1 = read
      <4>1. PICK q \in Nat : q = read'
        BY <3>1
      <4>2. PICK r \in Nat : r = read
        BY <3>1
      <4>3. a <= r /\ r < q /\ a \in Nat /\ d \in Nat
        BY <3>1, <4>1, <4>2
      <4>4. /\ r + 1 \in Nat /\ a < r + 1 /\ r + 1 <= q + 1
            /\ a + d - r = (a + d + 1) - (r + 1) /\ (r + 1) - 1 = r
        BY <4>3
      <4> QED
        BY <4>1, <4>2, <4>4
    <3> QED
      BY <2>3, <3>2
  <2>6. m_body = Places(a + 1, (read + 1) - 1)
    BY <2>3, <2>5, Zenon
  <2>7. /\ m_ready' \in BOOLEAN /\ m_body_bytes_needed' \in Nat
        /\ m_ready' <=> m_body_bytes_needed' = 0
        /\ m_ready' => processed' = a + d /\ a + d <= read'
        /\ ~m_ready' => processed' = read' /\ read' < a + d
        /\ a <= processed'
        /\ m_body_bytes_needed' = (a + d) - processed'
        /\ m_body' = Places(a + 1, processed')
    <3>1. /\ a \in Nat /\ d \in Nat /\ m_body_bytes_needed \in Nat
          /\ read + 1 \in Nat /\ read' \in Nat /\ a < read + 1
          /\ read + 1 <= read' + 1
          /\ m_body_bytes_needed = (a + d + 1) - (read + 1)
          /\ m_body = Places(a + 1, (read + 1) - 1)
          /\ ProcessBody(m_body_bytes_needed, read + 1, read')
      BY <1>1, <2>1, <2>2, <2>4, <2>5, <2>6
    <3>2. Lacks(a, d, m_body_bytes_needed, read + 1, read')
      BY <3>1 DEF Lacks
    <3> QED
      BY <3>1, <3>2, BodyTaken
  <2>8. /\ consuming' = FALSE /\ said' = said /\ request' = request
        /\ thrown' = thrown
    BY <1>1, <2>1, <2>2
  <2> QED
    BY <2>1, <2>3, <2>4, <2>7, <2>8, BodyGoesOn DEF a, d
(* What is known while consume is in its loop. *)
<1>7. ASSUME consuming
      PROVE  /\ thrown = "no" /\ ~m_ready /\ m_body_bytes_needed = 0
             /\ n \in 0..Len(request.lines) /\ b \in Nat
             /\ said = SubSeq(request.lines, 1, n) /\ Passed(n)
             /\ m_body = <<>> /\ m_buf = Places(b + 1, read)
             /\ b + begin = LineEnd(n) /\ b + l = read
             /\ LineEnd(n) <= m_header_bytes /\ LineEnd(n) \in Nat
             /\ Delimiters = {} =>
                  /\ end = l
                  /\ n < Len(request.lines) => read < LineEnd(n + 1)
             /\ Delimiters # {} =>
                  /\ n < Len(request.lines) /\ LineEnd(n + 1) <= read
                  /\ end \in Nat /\ begin <= end /\ end + 2 <= l
                  /\ b + end + 2 = LineEnd(n + 1)
  <2>1. thrown = "no" /\ ~m_ready /\ m_body_bytes_needed = 0
    BY <1>1, <1>7 DEF Phases
  <2>2. /\ n \in 0..Len(request.lines) /\ b \in Nat
        /\ b + begin = LineEnd(n) /\ b + l = read
        /\ Delimiters = {} =>
             /\ end = l
             /\ n < Len(request.lines) => read < LineEnd(n + 1)
        /\ Delimiters # {} =>
             /\ n < Len(request.lines) /\ LineEnd(n + 1) <= read
             /\ end \in Nat /\ begin <= end /\ end + 2 <= l
             /\ b + end + 2 = LineEnd(n + 1)
    BY <1>1, <1>7, Search
  <2>3. /\ said = SubSeq(request.lines, 1, n) /\ Passed(n)
        /\ m_body = <<>> /\ m_buf = Places(b + 1, read)
        /\ LineEnd(n) <= m_header_bytes
    BY <1>1, <2>1 DEF HeaderSoFar
  <2>4. LineEnd(n) \in Nat
    BY <1>1, <2>2, LinesInPlace
  <2> QED
    BY <2>1, <2>2, <2>3, <2>4
<1> HIDE DEF n, b, l
<1>8. ASSUME Delimiters # {}, consuming
      PROVE  /\ n + 1 \in 0..Len(request.lines) /\ n \in Nat
             /\ n < Len(request.lines) /\ LineEnd(n + 1) \in Nat
             /\ LineEnd(n + 1) = LineEnd(n) + (end - begin) + 2
             /\ Counted = m_header_bytes + (end - begin + 3)
             /\ end - begin \in Nat
             /\ LineEnd(n + 1) <= Counted
             /\ Len(request.lines[n + 1].text) = end - begin
             /\ request.lines[n + 1].text = <<>> <=> end = begin
  <2> DEFINE e == end
             c == LineEnd(n + 1)
             a == LineEnd(n)
             t == request.lines[n + 1].text
             h == Counted
  <2>1. /\ n \in 0..Len(request.lines) /\ n < Len(request.lines) /\ b \in Nat
        /\ e \in Nat /\ begin <= e /\ b + e + 2 = c /\ a \in Nat
        /\ b + begin = a /\ a <= m_header_bytes
    BY <1>7, <1>8
  <2>2. n + 1 \in 0..Len(request.lines) /\ n + 1 \in 1..Len(request.lines)
    BY <1>2, <2>1
  <2>3. c = a + Len(t) + 2 /\ Len(t) \in Nat /\ c \in Nat
    BY <1>1, <2>1, <2>2, LinesInPlace, RequestTyped
  <2>4. t = <<>> <=> Len(t) = 0
    <3>1. t \in Seq(Chars)
      BY <1>1, <2>2, RequestTyped
    <3> HIDE DEF t
    <3> QED
      BY <3>1
  <2>5. h = m_header_bytes + (e - begin + 3)
    BY DEF Counted
  <2> HIDE DEF e, c, a, t, h
  <2>6. /\ c = a + (e - begin) + 2 /\ e - begin \in Nat
        /\ c <= h /\ Len(t) = e - begin
        /\ Len(t) = 0 <=> e = begin
    BY <1>1, <2>1, <2>3, <2>5
  <2> QED
    BY <2>1, <2>2, <2>3, <2>4, <2>5, <2>6 DEF e, c, a, t, h
<1>9. CASE HeaderTooLarge
  <2>1. Throw("header too large")
    BY <1>9 DEF HeaderTooLarge
  <2> QED
    BY <2>1, Thrown
<1>10. CASE OutOfBytes
  <2>1. /\ consuming /\ Delimiters = {}
        /\ m_buf' = SubSeq(m_buf, begin + 1, l)
        /\ m_header_bytes' = Counted - Len(m_buf')
        /\ consuming' = FALSE /\ processed' = read
        /\ UNCHANGED <<request, read, begin, said, m_body_bytes_needed, m_body,
                       m_ready, thrown>>
    BY <1>10 DEF OutOfBytes, Round, l
  <2>2. /\ thrown = "no" /\ ~m_ready /\ m_body_bytes_needed = 0
        /\ n \in 0..Len(request.lines) /\ b \in Nat
        /\ said = SubSeq(request.lines, 1, n) /\ Passed(n)
        /\ m_buf = Places(b + 1, read)
        /\ b + begin = LineEnd(n) /\ b + l = read
        /\ LineEnd(n) <= m_header_bytes /\ LineEnd(n) \in Nat
        /\ end = l
        /\ n < Len(request.lines) => read < LineEnd(n + 1)
    BY <1>7, <2>1
  <2>3. begin <= l
    BY <2>1 DEF Counting, l
  <2> DEFINE m == l - begin
  <2>4. /\ m \in Nat /\ m <= read /\ read - m = LineEnd(n)
    BY <1>1, <2>2, <2>3
  <2>5. Len(m_buf') = m
    BY <1>1, <2>1, <2>3, RestKept DEF Counting, l
  <2>6. m_buf' = Places(read - m + 1, read)
    <3>1. /\ b + 1 \in Int /\ read \in Int /\ begin + 1 \in Nat /\ l \in Nat
          /\ 1 <= begin + 1 /\ begin + 1 <= l + 1 /\ l <= (read - (b + 1)) + 1
          /\ ((b + 1) + (begin + 1)) - 1 = read - m + 1
          /\ ((b + 1) + l) - 1 = read
      BY <1>1, <2>2, <2>3
    <3>2. SubSeq(Places(b + 1, read), begin + 1, l)
            = Places(((b + 1) + (begin + 1)) - 1, ((b + 1) + l) - 1)
      BY <3>1, PlacesCut
    <3> QED
      BY <2>1, <2>2, <3>1, <3>2, Zenon
  <2>7. LineEnd(n) <= m_header_bytes'
    <3>1. m_header_bytes' = (m_header_bytes + (l - begin + 3)) - m
      BY <2>1, <2>2, <2>5 DEF Counted
    <3>2. m_header_bytes' = m_header_bytes + 3
      BY <1>1, <2>3, <3>1
    <3> QED
      BY <1>1, <2>2, <3>2
  <2> HIDE DEF m
  <2>8. /\ UNCHANGED <<request, m_body, m_ready, thrown>>
        /\ m_body_bytes_needed' = 0 /\ consuming' = FALSE
        /\ read' <= Len(Text) /\ read' \in Nat
        /\ said' = SubSeq(request.lines, 1, n)
        /\ m <= read' /\ m_buf' = Places(read' - m + 1, read')
        /\ read' - m = LineEnd(n) /\ processed' = read'
        /\ n < Len(request.lines) => read' < LineEnd(n + 1)
    BY <1>1, <2>1, <2>2, <2>4, <2>6
  <2> QED
    BY <2>2, <2>4, <2>5, <2>7, <2>8, HeaderGoesOn
<1>11. CASE ProcessLine
  <2>1. /\ consuming /\ Delimiters # {} /\ begin < end /\ LineLegal
        /\ said' = Append(said, TheLine)
        /\ m_header_bytes' = Counted /\ begin' = end + 2
        /\ UNCHANGED <<request, read, consuming, m_buf, m_body_bytes_needed,
                       m_body, m_ready, thrown>>
    <3>1. /\ consuming /\ LineThere /\ LineLegal
          /\ said' = Append(said, TheLine)
          /\ m_header_bytes' = Counted /\ begin' = end + 2
          /\ UNCHANGED <<request, read, consuming, m_buf, m_body_bytes_needed,
                         m_body, m_ready, thrown>>
      BY <1>11 DEF ProcessLine, Round
    <3>2. Delimiters # {} /\ end > begin
      BY <3>1 DEF LineThere
    <3>3. begin < end
      BY <1>1, <1>7, <3>1, <3>2
    <3> QED
      BY <3>1, <3>2, <3>3
  <2>2. /\ thrown = "no" /\ ~m_ready /\ m_body_bytes_needed = 0
        /\ n \in 0..Len(request.lines) /\ b \in Nat
        /\ said = SubSeq(request.lines, 1, n) /\ Passed(n)
        /\ m_buf = Places(b + 1, read)
        /\ b + l = read /\ end \in Nat
        /\ b + end + 2 = LineEnd(n + 1)
    BY <1>7, <2>1
  <2>3. /\ n + 1 \in 0..Len(request.lines) /\ n \in Nat
        /\ n < Len(request.lines) /\ LineEnd(n + 1) <= Counted
    BY <1>8, <2>1
  <2>4. /\ TheLine = request.lines[n + 1]
        /\ request.lines[n + 1].text # <<>>
    BY <1>1, <2>1, LineFound DEF n
  <2>5. said' = SubSeq(request.lines, 1, n + 1)
    <3>1. SubSeq(request.lines, 1, n + 1)
            = Append(SubSeq(request.lines, 1, n), request.lines[n + 1])
      BY <1>1, <2>3, RequestTyped
    <3> QED
      BY <2>1, <2>2, <2>4, <3>1, Zenon
  <2>6. Passed(n + 1)
    <3>1. said = <<>> <=> n = 0
      BY <1>1, <2>2, FirstLines
    <3>2. Legal(n + 1)
      BY <2>1, <2>3, <2>4, <3>1 DEF LineLegal, Legal
    <3>3. ASSUME NEW k \in 1..(n + 1)
          PROVE  request.lines[k].text # <<>> /\ Legal(k)
      <4>1. k = n + 1 \/ k \in 1..n
        BY <2>3
      <4> QED
        BY <2>2, <2>4, <3>2, <4>1 DEF Passed
    <3> QED
      BY <3>3 DEF Passed
  <2>7. /\ l <= read /\ read - l + 1 = b + 1
        /\ read - l + (end + 2) = LineEnd(n + 1)
    <3> DEFINE e == end
               c == LineEnd(n + 1)
    <3>1. b + l = read /\ b \in Nat /\ e \in Nat /\ b + e + 2 = c
      BY <2>2
    <3> HIDE DEF e, c
    <3>2. l <= read /\ read - l + 1 = b + 1 /\ read - l + (e + 2) = c
      BY <1>1, <3>1
    <3> QED
      BY <3>2 DEF e, c
  <2>8. /\ UNCHANGED <<request, m_body, m_ready, thrown>>
        /\ m_body_bytes_needed' = 0 /\ consuming' = TRUE
        /\ read' <= Len(Text) /\ read' \in Nat /\ Len(m_buf') = l
        /\ l <= read' /\ m_buf' = Places(read' - l + 1, read')
        /\ LineEnd(n + 1) <= m_header_bytes'
        /\ read' - l + begin' = LineEnd(n + 1)
    BY <1>1, <2>1, <2>2, <2>3, <2>7 DEF l
  <2> QED
    BY <1>1, <2>2, <2>3, <2>5, <2>6, <2>8, HeaderGoesOn
<1>12. CASE BadLine
  <2>1. /\ Delimiters # {} /\ end > begin /\ ~LineLegal
        /\ Throw("bad") /\ consuming
    BY <1>12 DEF BadLine, LineThere, Throw, Round
  <2>2. /\ n \in 0..Len(request.lines) /\ Passed(n)
        /\ n < Len(request.lines) /\ LineEnd(n + 1) <= read
        /\ end \in Nat /\ said = SubSeq(request.lines, 1, n)
    BY <1>7, <2>1
  <2>3. begin < end
    BY <1>1, <2>1, <2>2
  <2>4. /\ TheLine = request.lines[n + 1]
        /\ request.lines[n + 1].text # <<>>
    BY <1>1, <2>1, <2>3, LineFound DEF n
  <2>5. ~Legal(n + 1)
    <3>1. said = <<>> <=> n = 0
      BY <1>1, <2>2, FirstLines
    <3> QED
      BY <2>1, <2>2, <2>4, <3>1 DEF LineLegal, Legal
  <2>6. Wrong = n + 1
    BY <1>1, <2>2, <2>4, <2>5, WrongAhead
  <2>7. Wrong # 0 /\ LineEnd(Wrong) <= read
    BY <2>2, <2>6
  <2> QED
    BY <2>1, <2>7, Thrown
(* The blank line: what the header says, and what it should. *)
<1>13. ASSUME HeaderEnds, consuming
       PROVE  /\ Delimiters # {} /\ end = begin /\ Counted <= max_header_size
              /\ LastLine = n + 1 /\ Blank # {}
              /\ said = SentLines /\ Length = SentLength
              /\ Wrong = IF Complete THEN 0 ELSE n + 1
              /\ LineEnd(n + 1) <= read /\ LineEnd(n + 1) \in Nat
              /\ LineEnd(n + 1) <= max_header_size
              /\ b + end + 2 = LineEnd(n + 1)
  <2>1. Delimiters # {} /\ end = begin /\ Counted <= max_header_size
    BY <1>13 DEF HeaderEnds
  <2>2. /\ n \in 0..Len(request.lines) /\ Passed(n)
        /\ said = SubSeq(request.lines, 1, n)
        /\ LineEnd(n + 1) <= read /\ b + end + 2 = LineEnd(n + 1)
    BY <1>7, <1>13, <2>1
  <2>3. /\ n < Len(request.lines) /\ LineEnd(n + 1) \in Nat
        /\ LineEnd(n + 1) <= Counted /\ request.lines[n + 1].text = <<>>
        /\ end - begin \in Nat
        /\ Counted = m_header_bytes + (end - begin + 3)
    BY <1>8, <1>13, <2>1
  <2>4. LastLine = n + 1 /\ Blank # {}
    BY <1>1, <2>2, <2>3, BlankAhead
  <2>5. /\ SentLines = said /\ Len(SentLines) = n
        /\ Wrong = IF \E k \in 1..n : SentLines[k].means = "host"
                     THEN 0 ELSE n + 1
    BY <1>1, <2>2, <2>3, WrongAhead
  <2>6. DOMAIN said = 1..n
    BY <1>1, <2>2, FirstLines
  <2>7. Complete <=> \E k \in 1..n : SentLines[k].means = "host"
    BY <2>5, <2>6 DEF Complete, Says
  <2>8. Length = SentLength
    BY <2>5, <2>6 DEF Length, SentLength, Says
  <2>9. LineEnd(n + 1) <= max_header_size
    <3> DEFINE c == LineEnd(n + 1)
               h == Counted
    <3>1. c \in Nat /\ c <= h /\ h <= max_header_size /\ h \in Nat
      BY <1>1, <2>1, <2>3
    <3> HIDE DEF c, h
    <3>2. c <= max_header_size
      BY <1>0, <3>1
    <3> QED
      BY <3>2 DEF c
  <2> QED
    BY <2>1, <2>2, <2>3, <2>4, <2>5, <2>7, <2>8, <2>9
<1>14. CASE Incomplete
  <2>1. HeaderEnds /\ ~Complete /\ Throw("bad") /\ consuming
    BY <1>14 DEF Incomplete, Throw, Round
  <2>2. Wrong = n + 1 /\ LineEnd(n + 1) <= read
    BY <1>13, <2>1
  <2>3. n + 1 # 0
    BY <1>2, <1>7, <2>1
  <2> QED
    BY <2>1, <2>2, <2>3, Thrown
<1>15. CASE BodyTooLarge
  <2>1. /\ HeaderEnds /\ Complete /\ Length > max_body_size
        /\ Throw("body too large") /\ consuming
    BY <1>15 DEF BodyTooLarge, Throw, Round
  <2>2. Wrong = 0 /\ Length = SentLength
    BY <1>13, <2>1
  <2> QED
    BY <2>1, <2>2, Thrown
<1>16. CASE EndHeader
  <2>1. /\ consuming /\ HeaderEnds /\ Complete /\ Length <= max_body_size
        /\ ProcessBody(Length, read - (l - end) + 3, read)
        /\ consuming' = FALSE
        /\ UNCHANGED <<request, read, said, thrown>>
    BY <1>16 DEF EndHeader, Round, l
  <2> DEFINE a == LineEnd(LastLine)
             d == SentLength
             e == end
  <2>2. /\ Blank # {} /\ Wrong = 0 /\ said = SentLines
        /\ Length = d /\ a \in Nat /\ a <= read /\ a <= max_header_size
        /\ b + e + 2 = a
    BY <1>13, <2>1
  <2>3. d \in Nat
    BY <1>1, SentLengthTyped
  <2>4. /\ thrown = "no" /\ m_body = <<>> /\ b \in Nat /\ b + l = read
        /\ e \in Nat
    BY <1>7, <1>13, <2>1
  <2>5. Accepted
    BY <2>1, <2>2 DEF Accepted
  <2>6. ProcessBody(d, read - (l - e) + 3, read)
    BY <2>1, <2>2
  <2> HIDE DEF a, d, e
  <2>7. read - (l - e) + 3 = a + 1
    BY <1>1, <2>2, <2>4
  <2>8. /\ a + 1 \in Nat /\ a < a + 1 /\ a + 1 <= read + 1
        /\ d = (a + d + 1) - (a + 1) /\ (a + 1) - 1 = a
    BY <1>1, <2>2, <2>3
  <2>9. m_body = Places(a + 1, (a + 1) - 1)
    <3>1. Places(a + 1, a) \in Seq(Int) /\ Len(Places(a + 1, a)) = 0
      <4>1. /\ a + 1 \in Int /\ a \in Int /\ a + 1 <= a + 1
            /\ (a - (a + 1)) + 1 = 0
        BY <2>2
      <4> QED
        BY <4>1, PlacesAre
    <3>2. Places(a + 1, a) = <<>>
      BY <3>1
    <3> QED
      BY <2>4, <2>8, <3>2
  <2>10. ProcessBody(d, a + 1, read)
    BY <2>6, <2>7
  <2>11. /\ m_ready' \in BOOLEAN /\ m_body_bytes_needed' \in Nat
         /\ m_ready' <=> m_body_bytes_needed' = 0
         /\ m_ready' => processed' = a + d /\ a + d <= read
         /\ ~m_ready' => processed' = read /\ read < a + d
         /\ a <= processed'
         /\ m_body_bytes_needed' = (a + d) - processed'
         /\ m_body' = Places(a + 1, processed')
    <3>1. Lacks(a, d, d, a + 1, read)
      BY <1>1, <2>2, <2>3, <2>8, <2>9 DEF Lacks
    <3> QED
      BY <2>10, <3>1, BodyTaken
  <2>12. /\ m_ready' => processed' = a + d /\ a + d <= read'
         /\ ~m_ready' => processed' = read' /\ read' < a + d
         /\ read' <= Len(Text) /\ read' \in Nat
         /\ request' = request /\ said' = said /\ thrown' = thrown
         /\ consuming' = FALSE
    BY <1>1, <2>1, <2>11
  <2> QED
    BY <2>2, <2>3, <2>4, <2>5, <2>11, <2>12, BodyGoesOn DEF a, d
<1> QED
  BY <1>3, <1>5, <1>6, <1>9, <1>10, <1>11, <1>12, <1>14, <1>15, <1>16
  DEF RequestNext

LEMMA RequestInvInit == RequestInit => RequestInv /\ RequestAsSent
<1> SUFFICES ASSUME RequestInit
             PROVE  RequestInv /\ RequestAsSent
  OBVIOUS
<1>1. /\ request \in Requests /\ read = 0 /\ consuming = FALSE
      /\ m_buf = <<>> /\ m_header_bytes = 0 /\ said = <<>>
      /\ m_body_bytes_needed = 0 /\ m_body = <<>> /\ m_ready = FALSE
      /\ processed = 0 /\ thrown = "no"
  BY DEF RequestInit
<1>2. Len(request.lines) \in Nat /\ 0 \in 0..Len(request.lines)
  BY <1>1, RequestTyped
<1>3. Passed(0)
  BY DEF Passed
<1>4. LineEnd(0) = 0 /\ 0 <= Len(Text)
  BY <1>1, <1>2, LinesInPlace
<1>5. ASSUME 0 < Len(request.lines)
      PROVE  0 < LineEnd(0 + 1)
  <2>1. 0 + 1 \in 0..Len(request.lines)
    BY <1>2, <1>5
  <2>2. LineEnd(0) + 2 <= LineEnd(0 + 1) /\ LineEnd(0 + 1) \in Nat
    BY <1>1, <1>2, <2>1, LineEndsGrow, LinesInPlace
  <2> QED
    BY <1>4, <2>2
<1>6. Len(said) = 0 /\ Len(m_buf) = 0
  BY <1>1
<1>7. /\ said = SubSeq(request.lines, 1, 0)
      /\ m_buf = Places(0 - 0 + 1, 0)
  <2>1. SubSeq(request.lines, 1, 0) = <<>>
    BY <1>1, RequestTyped
  <2>2. Places(1, 0) \in Seq(Int) /\ Len(Places(1, 0)) = 0
    BY PlacesAre
  <2>3. Places(1, 0) = <<>>
    BY <2>2
  <2>4. 0 - 0 + 1 = 1
    OBVIOUS
  <2> QED
    BY <1>1, <2>1, <2>3, <2>4
<1>8. HeaderSoFar
  BY <1>1, <1>2, <1>3, <1>4, <1>5, <1>6, <1>7 DEF HeaderSoFar
<1>9. BodySoFar /\ Phases
  BY <1>1, <1>4 DEF BodySoFar, Phases
<1>10. RequestAsSent
  <2>1. 0 < Len(request.lines) => 0 < LineEnd(0 + 1)
    BY <1>5
  <2>2. /\ Wrong # 0 => 0 < LineEnd(Wrong)
        /\ Blank # {} => 0 < LineEnd(LastLine) + SentLength
    BY <1>1, <1>2, <1>3, <2>1, NothingDue
  <2> QED
    BY <1>1, <2>2 DEF RequestAsSent
<1> QED
  BY <1>8, <1>9, <1>10 DEF RequestInv

(* request::consume: however the bytes are cut into reads, the request that is
   ready is the one that was sent, with its last byte and not before; it is
   refused for its first illegal line only; and nothing is lost meanwhile. *)
THEOREM RequestIsAsSent == RequestSpec => []RequestAsSent
<1>1. RequestInit => Counting /\ ShortHeadersPass
  BY DEF RequestInit, Counting, ShortHeadersPass
<1>2. Counting /\ ShortHeadersPass /\ [RequestNext]_requestVars
        => Counting' /\ ShortHeadersPass'
  BY CountingInductive
<1>3. RequestInit => RequestInv /\ RequestAsSent
  BY RequestInvInit
<1>4. RequestInv /\ RequestAsSent /\ Counting /\ [RequestNext]_requestVars
        => RequestInv' /\ RequestAsSent'
  BY RequestInvInductive
<1> QED
  BY <1>1, <1>2, <1>3, <1>4, PTL DEF RequestSpec

=============================================================================
