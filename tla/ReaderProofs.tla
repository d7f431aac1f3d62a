----------------------------- MODULE ReaderProofs -----------------------------
(***************************************************************************)
(* Hybi13 for streams of any frames and any cut into reads: the messages    *)
(* are those of the frames.  The invariant is about whole frames: where    *)
(* each begins in the stream, what is known of it at each state of the      *)
(* parser, and what its message has got.                                   *)
(***************************************************************************)
EXTENDS Hybi13, ParserProofs

-----------------------------------------------------------------------------
(* What a stream is made of, and where its frames are. *)

FrameKinds ==
  [opcode : Opcodes, fin : BOOLEAN, rsv : BOOLEAN, masked : BOOLEAN,
   code : {"basic", "16bit", "64bit"}, payload : Seq({"A", "L", "C"})]

(* A stream is a sequence of frames, each with its fields. *)
LEMMA FrameTyped ==
  ASSUME stream \in Streams
  PROVE  /\ Len(stream) \in Nat /\ stream \in Seq(FrameKinds)
         /\ \A n \in 1..Len(stream) :
              /\ stream[n] \in FrameKinds
              /\ stream[n].opcode \in Opcodes /\ stream[n].fin \in BOOLEAN
              /\ stream[n].masked \in BOOLEAN /\ stream[n].rsv \in BOOLEAN
              /\ stream[n].code \in {"basic", "16bit", "64bit"}
              /\ stream[n].payload \in Seq({"A", "L", "C"})
              /\ Len(stream[n].payload) \in Nat
<1>1. stream \in Seq(FrameKinds)
  BY StreamAssumption DEF FrameKinds
<1>2. \A n \in 1..Len(stream) : stream[n] \in FrameKinds
  BY <1>1, ElementOfSeq
<1>3. ASSUME NEW f \in FrameKinds
      PROVE  /\ f.opcode \in Opcodes /\ f.fin \in BOOLEAN
             /\ f.masked \in BOOLEAN /\ f.rsv \in BOOLEAN
             /\ f.code \in {"basic", "16bit", "64bit"}
             /\ f.payload \in Seq({"A", "L", "C"}) /\ Len(f.payload) \in Nat
  BY DEF FrameKinds
<1>4. Len(stream) \in Nat
  BY <1>1
<1> QED
  BY <1>1, <1>2, <1>3, <1>4

(* The extended length and the length of a frame are naturals. *)
LEMMA LengthTyped ==
  ASSUME NEW f \in FrameKinds
  PROVE  /\ ExtendedLength(f) \in Nat /\ FrameLength(f) \in Nat
         /\ FrameLength(f) = 2 + ExtendedLength(f) + Len(f.payload)
         /\ Len(f.payload) \in Nat /\ FrameLength(f) >= 2
         /\ f.masked => ExtendedLength(f) >= 4
<1> DEFINE a == CASE f.code = "basic" -> 0 [] f.code = "16bit" -> 2
                  [] f.code = "64bit" -> 8
           b == IF f.masked THEN 4 ELSE 0
           c == Len(f.payload)
<1>1. a \in Nat
  BY DEF FrameKinds
<1>2. b \in Nat /\ (f.masked => b = 4)
  OBVIOUS
<1>3. c \in Nat
  BY DEF FrameKinds
<1>4. ExtendedLength(f) = a + b
  BY DEF ExtendedLength
<1>5. FrameLength(f) = 2 + ExtendedLength(f) + c
  BY DEF FrameLength, BASIC_HEADER_LENGTH
<1> HIDE DEF a, b, c
<1>6. /\ ExtendedLength(f) \in Nat /\ FrameLength(f) \in Nat
      /\ FrameLength(f) >= 2 /\ (f.masked => ExtendedLength(f) >= 4)
  BY <1>1, <1>2, <1>3, <1>4, <1>5
<1> QED
  BY <1>3, <1>5, <1>6 DEF c

Place == [frame : Nat, at : Nat]
FrameBytes(n) ==
  [i \in 1..FrameLength(stream[n]) |-> [frame |-> n, at |-> i]]
AllFrames == [n \in 1..Len(stream) |-> FrameBytes(n)]

(* The bytes of one frame. *)
LEMMA FrameBytesTyped ==
  ASSUME stream \in Streams, NEW n \in 1..Len(stream)
  PROVE  /\ FrameBytes(n) \in Seq(Place)
         /\ Len(FrameBytes(n)) = FrameLength(stream[n])
         /\ \A i \in 1..FrameLength(stream[n]) :
              FrameBytes(n)[i] = [frame |-> n, at |-> i]
<1> DEFINE l == FrameLength(stream[n])
<1>1. l \in Nat
  BY FrameTyped, LengthTyped
<1>2. n \in Nat
  BY FrameTyped
<1>3. \A i \in 1..l : [frame |-> n, at |-> i] \in Place
  BY <1>1, <1>2 DEF Place
<1> HIDE DEF l
<1> QED
  BY <1>1, <1>3 DEF FrameBytes, l

(* The bytes of n frames are the flattened bytes of the first n. *)
LEMMA FramesArePrefixes ==
  ASSUME stream \in Streams
  PROVE  /\ AllFrames \in Seq(Seq(Place)) /\ Len(AllFrames) = Len(stream)
         /\ \A n \in 0..Len(stream) :
              /\ Frames(n) = FlattenSeq(SubSeq(AllFrames, 1, n))
              /\ Frames(n) \in Seq(Place) /\ End(n) = Len(Frames(n))
<1> DEFINE s == AllFrames
<1>1. s \in Seq(Seq(Place)) /\ Len(s) = Len(stream)
  <2>1. \A n \in 1..Len(stream) : FrameBytes(n) \in Seq(Place)
    BY FrameBytesTyped
  <2> QED
    BY <2>1, FrameTyped DEF AllFrames
<1>2. ASSUME NEW n \in 0..Len(stream)
      PROVE  Frames(n) = FlattenSeq(SubSeq(s, 1, n))
  <2>1. SubSeq(s, 1, n) = [k \in 1..n |-> FrameBytes(k)]
    BY FrameTyped DEF AllFrames
  <2> QED
    BY <2>1 DEF Frames, FrameBytes
<1> HIDE DEF s
<1>3. \A n \in 0..Len(s) : FlattenSeq(SubSeq(s, 1, n)) \in Seq(Place)
  BY <1>1, PartsInPlace
<1> QED
  BY <1>1, <1>2, <1>3 DEF End, s

(* Frame n + 1 is behind the first n. *)
LEMMA FramesInPlace ==
  ASSUME stream \in Streams, NEW n \in 0..Len(stream)
  PROVE  /\ End(n) \in Nat /\ (n = 0 => End(n) = 0)
         /\ Frames(Len(stream)) \in Seq(Place)
         /\ End(Len(stream)) \in Nat
         /\ Len(Frames(Len(stream))) = End(Len(stream))
         /\ End(n) <= End(Len(stream))
         /\ n < Len(stream) =>
              /\ End(n + 1) = End(n) + FrameLength(stream[n + 1])
              /\ End(n + 1) <= End(Len(stream)) /\ End(n + 1) \in Nat
              /\ \A i \in 1..FrameLength(stream[n + 1]) :
                   Frames(Len(stream))[End(n) + i]
                     = [frame |-> n + 1, at |-> i]
<1> DEFINE s == AllFrames
           m == Len(stream)
           w == Frames(m)
<1>1. /\ s \in Seq(Seq(Place)) /\ Len(s) = m /\ m \in Nat
      /\ \A k \in 0..m : /\ Frames(k) = FlattenSeq(SubSeq(s, 1, k))
                         /\ Frames(k) \in Seq(Place) /\ End(k) = Len(Frames(k))
  BY FramesArePrefixes, FrameTyped
<1>2. n \in 0..Len(s) /\ n \in 0..m /\ m \in 0..m
  BY <1>1
<1>3. w \in Seq(Place) /\ End(m) = Len(w)
  BY <1>1, <1>2
<1> HIDE DEF w, s, m
<1>4. FlattenSeq(s) = w
  <2>1. SubSeq(s, 1, m) = s
    BY <1>1, SubSeqFull
  <2> QED
    BY <1>1, <1>2, <2>1 DEF w
<1>5. /\ Len(FlattenSeq(SubSeq(s, 1, n))) <= Len(FlattenSeq(s))
      /\ FlattenSeq(SubSeq(s, 1, n)) = Frames(n)
      /\ End(n) = Len(Frames(n)) /\ Frames(n) \in Seq(Place)
  BY <1>1, <1>2, PartsInPlace
<1>6. End(n) \in Nat /\ End(n) <= Len(w)
  BY <1>4, <1>5
<1>7. n = 0 => End(n) = 0
  <2>1. SubSeq(s, 1, 0) = <<>>
    BY <1>1
  <2>2. n = 0 => Frames(n) = <<>>
    BY <1>1, <1>2, <2>1, Flattening
  <2> QED
    BY <1>1, <1>2, <2>2
<1>8. ASSUME n < m
      PROVE  /\ End(n + 1) = End(n) + FrameLength(stream[n + 1])
             /\ End(n + 1) <= Len(w) /\ End(n + 1) \in Nat
             /\ \A i \in 1..FrameLength(stream[n + 1]) :
                  w[End(n) + i] = [frame |-> n + 1, at |-> i]
  <2> DEFINE a == Frames(n)
             b == FrameBytes(n + 1)
             c == Frames(n + 1)
             l == FrameLength(stream[n + 1])
  <2>1. n + 1 \in 0..m /\ n + 1 \in 1..m /\ n + 1 \in 0..Len(s) /\ n < Len(s)
    BY <1>1, <1>2, <1>8
  <2>2. /\ FlattenSeq(SubSeq(s, 1, n + 1))
             = FlattenSeq(SubSeq(s, 1, n)) \o s[n + 1]
        /\ Len(FlattenSeq(SubSeq(s, 1, n + 1))) <= Len(FlattenSeq(s))
        /\ \A i \in 1..Len(FlattenSeq(SubSeq(s, 1, n + 1))) :
             FlattenSeq(s)[i] = FlattenSeq(SubSeq(s, 1, n + 1))[i]
    BY <1>1, <1>2, <2>1, PartsInPlace
  <2>3. /\ c = FlattenSeq(SubSeq(s, 1, n + 1))
        /\ a = FlattenSeq(SubSeq(s, 1, n))
        /\ End(n) = Len(a) /\ End(n + 1) = Len(c)
        /\ a \in Seq(Place) /\ c \in Seq(Place)
    BY <1>1, <1>2, <2>1
  <2>4. s[n + 1] = b
    BY <2>1 DEF s, m, AllFrames
  <2>5. /\ b \in Seq(Place) /\ Len(b) = l
        /\ \A i \in 1..l : b[i] = [frame |-> n + 1, at |-> i]
    BY <2>1, FrameBytesTyped DEF m
  <2> HIDE DEF a, b, c, l
  <2>6. /\ c = a \o b /\ Len(c) <= Len(w)
        /\ \A i \in 1..Len(c) : w[i] = c[i]
    BY <1>4, <2>2, <2>3, <2>4
  <2>7. /\ Len(c) = Len(a) + Len(b) /\ Len(a) \in Nat /\ Len(c) \in Nat
        /\ \A i \in 1..Len(b) : Len(a) + i \in 1..Len(c) /\ c[Len(a) + i] = b[i]
    <3>1. /\ b \in Seq(Place) /\ a \in Seq(Place)
      BY <2>3, <2>5
    <3>2. /\ Len(a \o b) = Len(a) + Len(b) /\ Len(a) \in Nat
          /\ a \o b \in Seq(Place)
          /\ \A i \in 1..Len(b) : /\ Len(a) + i \in 1..Len(a \o b)
                                  /\ (a \o b)[Len(a) + i] = b[i]
      BY <3>1, Joined
    <3>3. c = a \o b
      BY <2>6
    <3> QED
      BY <3>2, <3>3
  <2>8. \A i \in 1..l : w[Len(a) + i] = [frame |-> n + 1, at |-> i]
    BY <2>5, <2>6, <2>7
  <2> QED
    BY <2>3, <2>5, <2>6, <2>7, <2>8 DEF l
<1> QED
  BY <1>3, <1>6, <1>7, <1>8 DEF m, w

(* A frame takes two bytes at least. *)
LEMMA EndsGrow ==
  ASSUME stream \in Streams, NEW n \in 0..Len(stream),
         NEW m \in 0..Len(stream), n < m
  PROVE  End(n) + 2 <= End(m)
<1> DEFINE t == SubSeq(AllFrames, 1, m)
<1>1. /\ AllFrames \in Seq(Seq(Place)) /\ Len(AllFrames) = Len(stream)
      /\ \A k \in 0..Len(stream) :
           /\ Frames(k) = FlattenSeq(SubSeq(AllFrames, 1, k))
           /\ End(k) = Len(Frames(k))
      /\ Len(stream) \in Nat
  BY FramesArePrefixes, FrameTyped
<1>2. /\ t \in Seq(Seq(Place)) /\ Len(t) = m /\ n + 1 \in 0..Len(t)
      /\ SubSeq(t, 1, n + 1) = SubSeq(AllFrames, 1, n + 1)
      /\ n + 1 \in 0..Len(stream)
  <2> DEFINE s == AllFrames
  <2>1. s \in Seq(Seq(Place)) /\ m \in 0..Len(s) /\ n + 1 \in 0..m /\ m \in Nat
    BY <1>1
  <2> HIDE DEF s
  <2>2. /\ SubSeq(s, 1, m) \in Seq(Seq(Place)) /\ Len(SubSeq(s, 1, m)) = m
        /\ SubSeq(SubSeq(s, 1, m), 1, n + 1) = SubSeq(s, 1, n + 1)
    BY <2>1
  <2> QED
    BY <1>1, <2>1, <2>2 DEF s
<1> HIDE DEF t
<1>3. Len(FlattenSeq(SubSeq(t, 1, n + 1))) <= Len(FlattenSeq(t))
  BY <1>2, PartsInPlace
<1>4. End(n + 1) <= End(m)
  BY <1>1, <1>2, <1>3 DEF t
<1> DEFINE l == FrameLength(stream[n + 1])
<1>5. End(n + 1) = End(n) + l /\ End(n) \in Nat
  <2>1. n < Len(stream)
    BY <1>1
  <2> QED
    BY <2>1, FramesInPlace
<1>6. l \in Nat /\ l >= 2 /\ End(m) \in Nat
  <2>1. n + 1 \in 1..Len(stream)
    BY <1>1
  <2> QED
    BY <2>1, FrameTyped, LengthTyped, FramesInPlace
<1> HIDE DEF l
<1> QED
  BY <1>4, <1>5, <1>6

-----------------------------------------------------------------------------
(* The bytes from one place of the stream to another. *)

(* Bytes cuts as many bytes as it says out of the stream. *)
LEMMA BytesAre ==
  ASSUME stream \in Streams, NEW a \in Nat, NEW b \in Nat, 1 <= a, a <= b + 1,
         b <= End(Len(stream))
  PROVE  /\ Bytes(a, b) \in Seq(Place) /\ Len(Bytes(a, b)) = (b - a) + 1
         /\ (b - a) + 1 \in Nat
         /\ \A i \in 1..((b - a) + 1) :
              Bytes(a, b)[i] = Frames(Len(stream))[(a + i) - 1]
<1> DEFINE w == Frames(Len(stream))
           l == (b - a) + 1
<1>1. w \in Seq(Place) /\ Len(w) = End(Len(stream)) /\ Len(w) \in Nat
  BY FrameTyped, FramesInPlace
<1> HIDE DEF w
<1>2. l \in Nat /\ b <= Len(w)
  BY <1>1
<1>3. SubSeq(w, a, b) \in Seq(Place) /\ Len(SubSeq(w, a, b)) = l
  BY <1>1, <1>2
<1>4. ASSUME NEW i \in 1..l
      PROVE  SubSeq(w, a, b)[i] = w[(a + i) - 1]
  BY <1>1, <1>2
<1> HIDE DEF l
<1> QED
  BY <1>2, <1>3, <1>4 DEF Bytes, w, l

(* What was read and what is read next are one piece of the stream. *)
LEMMA BytesJoined ==
  ASSUME stream \in Streams, NEW a \in Nat, NEW b \in Nat, NEW c \in Nat,
         1 <= a, a <= b + 1, b <= c, c <= End(Len(stream))
  PROVE  Bytes(a, b) \o Bytes(b + 1, c) = Bytes(a, c)
<1> DEFINE w == Frames(Len(stream))
           x == Bytes(a, b)
           y == Bytes(b + 1, c)
           z == Bytes(a, c)
           k == (b - a) + 1
           l == (c - (b + 1)) + 1
           m == (c - a) + 1
<1>1. End(Len(stream)) \in Nat
  BY FrameTyped, FramesInPlace
<1>2. /\ b <= End(Len(stream)) /\ 1 <= b + 1 /\ b + 1 <= c + 1 /\ b + 1 \in Nat
      /\ a <= c + 1
  BY <1>1
<1>3. /\ x \in Seq(Place) /\ Len(x) = k /\ k \in Nat
      /\ \A i \in 1..k : x[i] = w[(a + i) - 1]
  BY <1>2, BytesAre
<1>4. /\ y \in Seq(Place) /\ Len(y) = l /\ l \in Nat
      /\ \A i \in 1..l : y[i] = w[((b + 1) + i) - 1]
  BY <1>2, BytesAre
<1>5. /\ z \in Seq(Place) /\ Len(z) = m /\ m \in Nat
      /\ \A i \in 1..m : z[i] = w[(a + i) - 1]
  BY <1>2, BytesAre
<1>6. /\ m = k + l
      /\ \A i \in 1..m : i <= k => i \in 1..k
      /\ \A i \in 1..m : ~(i <= k) =>
           i - k \in 1..l /\ ((b + 1) + (i - k)) - 1 = (a + i) - 1
  BY <1>3, <1>4, <1>5
<1> HIDE DEF w, x, y, z, k, l, m
<1>7. /\ x \o y \in Seq(Place) /\ Len(x \o y) = k + l
      /\ \A i \in 1..(k + l) :
           (x \o y)[i] = IF i <= k THEN x[i] ELSE y[i - k]
  BY <1>3, <1>4
<1>8. \A i \in 1..m : (x \o y)[i] = z[i]
  BY <1>3, <1>4, <1>5, <1>6, <1>7
<1>9. x \o y = z
  BY <1>5, <1>6, <1>7, <1>8, SeqEqual
<1> QED
  BY <1>9 DEF x, y, z

(* The bytes of frame n + 1 are in their places. *)
LEMMA ByteOfFrame ==
  ASSUME stream \in Streams, NEW n \in 0..Len(stream), n < Len(stream),
         NEW q \in Nat, End(n) < q, q <= End(n + 1)
  PROVE  Frames(Len(stream))[q] = [frame |-> n + 1, at |-> q - End(n)]
<1> DEFINE l == FrameLength(stream[n + 1])
           a == End(n)
           c == End(n + 1)
           w == Frames(Len(stream))
<1>1. /\ a \in Nat /\ c = a + l /\ c \in Nat
      /\ \A i \in 1..l : w[a + i] = [frame |-> n + 1, at |-> i]
  BY FramesInPlace
<1>2. l \in Nat
  <2>1. n + 1 \in 1..Len(stream)
    BY FrameTyped
  <2> QED
    BY <2>1, FrameTyped, LengthTyped
<1>3. a < q /\ q <= c
  OBVIOUS
<1> HIDE DEF l, a, c, w
<1>4. q - a \in 1..l /\ a + (q - a) = q
  BY <1>1, <1>2, <1>3
<1>5. w[q] = [frame |-> n + 1, at |-> q - a]
  BY <1>1, <1>4
<1> QED
  BY <1>5 DEF a, w

-----------------------------------------------------------------------------
(* What the frames mean, frame after frame. *)

Begun == [out |-> <<>>, open |-> Nobody, error |-> FALSE]

After(m, n) ==
  IF m.error THEN m
  ELSE IF ~LegalAfter(m, n) THEN [m EXCEPT !.error = TRUE]
  ELSE IF ~stream[n].fin THEN [m EXCEPT !.open = MessageWith(m, n)]
  ELSE [m EXCEPT !.out = Append(@, MessageWith(m, n)),
                 !.open = IF IsControl(stream[n].opcode) THEN @ ELSE Nobody]

(* The definition by recursion defines something. *)
LEMMA MeaningIs ==
  ASSUME Len(stream) \in Nat
  PROVE  /\ Meaning[0] = Begun
         /\ \A n \in 1..Len(stream) : Meaning[n] = After(Meaning[n - 1], n)
<1> DEFINE Is(m, f) == f = [n \in 0..m |-> IF n = 0 THEN Begun
                                           ELSE After(f[n - 1], n)]
           T == {m \in Nat : \E f : Is(m, f)}
<1>1. 0 \in T
  <2> DEFINE f == [n \in 0..0 |-> Begun]
  <2>1. \A n \in 0..0 : n = 0
    OBVIOUS
  <2>2. Is(0, f)
    BY <2>1
  <2> QED
    BY <2>2
<1>2. ASSUME NEW m \in Nat, m \in T
      PROVE  m + 1 \in T
  <2>1. PICK f : Is(m, f)
    BY <1>2
  <2> DEFINE g == [n \in 0..(m + 1) |-> IF n = m + 1 THEN After(f[m], m + 1)
                                        ELSE f[n]]
  <2>2. ASSUME NEW n \in 0..(m + 1)
        PROVE  g[n] = IF n = 0 THEN Begun ELSE After(g[n - 1], n)
    <3>1. CASE n = m + 1
      <4>1. /\ n # 0 /\ n - 1 = m /\ m \in 0..(m + 1) /\ m # m + 1
        BY <3>1
      <4>2. g[n] = After(f[m], m + 1) /\ g[m] = f[m]
        BY <3>1, <4>1
      <4> QED
        BY <3>1, <4>1, <4>2
    <3>2. CASE n # m + 1
      <4>1. n \in 0..m /\ (n # 0 => n - 1 \in 0..(m + 1) /\ n - 1 # m + 1)
        BY <3>2
      <4>2. f[n] = IF n = 0 THEN Begun ELSE After(f[n - 1], n)
        BY <2>1, <4>1
      <4>3. g[n] = f[n] /\ (n # 0 => g[n - 1] = f[n - 1])
        BY <3>2, <4>1
      <4> QED
        BY <4>2, <4>3
    <3> QED
      BY <3>1, <3>2
  <2>3. g = [n \in 0..(m + 1) |-> g[n]]
    OBVIOUS
  <2> HIDE DEF g
  <2>4. [n \in 0..(m + 1) |-> g[n]]
          = [n \in 0..(m + 1) |-> IF n = 0 THEN Begun ELSE After(g[n - 1], n)]
    BY <2>2
  <2>5. Is(m + 1, g)
    BY <2>3, <2>4
  <2> QED
    BY <2>5
<1>3. Nat \subseteq T
  <2> HIDE DEF T
  <2> QED
    BY <1>1, <1>2, Induction
<1>4. \E f : Is(Len(stream), f)
  BY <1>3
<1>5. Meaning = CHOOSE f : Is(Len(stream), f)
  BY DEF Meaning, After, Begun
<1>6. Is(Len(stream), Meaning)
  <2> HIDE DEF Is
  <2> QED
    BY <1>4, <1>5
<1>7. /\ 0 \in 0..Len(stream)
      /\ \A n \in 1..Len(stream) : n \in 0..Len(stream) /\ n # 0
  OBVIOUS
<1>8. \A n \in 0..Len(stream) :
        Meaning[n] = IF n = 0 THEN Begun ELSE After(Meaning[n - 1], n)
  BY <1>6
<1> QED
  BY <1>7, <1>8

(* The octets of payload as the parser hands them out. *)
Letters == {"A", "L", "C"}
Cells ==
  [byte : {b \in Place : Octet(b) \in Letters}, key : Nat, rotation : Nat]
Messages == [opcode : Opcodes \cup {"none"}, payload : Seq(Cells)]
Meanings ==
  {m \in [out : Seq(Messages), open : Messages, error : BOOLEAN] :
     m.open = Nobody \/ m.open.opcode \in Opcodes}

(* The octets of a payload, each with its own part of its own key. *)
LEMMA PayloadTyped ==
  ASSUME stream \in Streams, NEW n \in 1..Len(stream)
  PROVE  /\ PayloadOf(n) \in Seq(Cells)
         /\ Len(PayloadOf(n)) = Len(stream[n].payload)
         /\ Len(PayloadOf(n)) \in Nat
         /\ \A i \in 1..Len(stream[n].payload) :
              /\ PayloadOf(n)[i] =
                   [byte |-> [frame |-> n,
                              at |-> 2 + ExtendedLength(stream[n]) + i],
                    key |-> n, rotation |-> (i - 1) % 4]
              /\ Octet(PayloadOf(n)[i].byte) = stream[n].payload[i]
<1> DEFINE f == stream[n]
           l == Len(f.payload)
           e == ExtendedLength(f)
           g == FrameLength(f)
           c(i) == [byte |-> [frame |-> n, at |-> g - l + i],
                    key |-> n, rotation |-> (i - 1) % 4]
<1>1. /\ l \in Nat /\ e \in Nat /\ g \in Nat /\ g = 2 + e + l /\ n \in Nat
      /\ f.payload \in Seq(Letters)
  BY FrameTyped, LengthTyped DEF Letters
<1>2. PayloadOf(n) = [i \in 1..l |-> c(i)]
  BY DEF PayloadOf
<1>3. ASSUME NEW b, b.frame = n
      PROVE  Octet(b) = f.payload[b.at - g + l]
  BY <1>3 DEF Octet
<1> HIDE DEF l, e, g
<1>4. ASSUME NEW i \in 1..l
      PROVE  /\ g - l + i = 2 + e + i /\ (g - l + i) - g + l = i
             /\ 2 + e + i \in Nat /\ (i - 1) % 4 \in Nat
  <2>1. /\ g - l + i = 2 + e + i /\ (g - l + i) - g + l = i /\ 2 + e + i \in Nat
    BY <1>1
  <2>2. i - 1 \in Nat
    BY <1>1
  <2>3. (i - 1) % 4 \in Nat
    BY <2>2
  <2> QED
    BY <2>1, <2>3
<1>5. ASSUME NEW i \in 1..l
      PROVE  /\ c(i) \in Cells /\ Octet(c(i).byte) = f.payload[i]
             /\ c(i) = [byte |-> [frame |-> n, at |-> 2 + e + i],
                        key |-> n, rotation |-> (i - 1) % 4]
  <2> DEFINE b == [frame |-> n, at |-> 2 + e + i]
  <2>1. c(i) = [byte |-> b, key |-> n, rotation |-> (i - 1) % 4]
    BY <1>4
  <2>2. b \in Place
    BY <1>1, <1>4 DEF Place
  <2>3. Octet(b) = f.payload[i]
    <3>1. b.frame = n /\ b.at - g + l = i
      BY <1>4
    <3> HIDE DEF b
    <3> QED
      BY <1>3, <3>1
  <2>4. f.payload[i] \in Letters
    BY <1>1, ElementOfSeq DEF l
  <2> HIDE DEF b, c
  <2>5. c(i) \in Cells
    BY <1>1, <1>4, <2>1, <2>2, <2>3, <2>4 DEF Cells
  <2>6. c(i).byte = b
    BY <2>1
  <2> QED
    BY <2>1, <2>3, <2>5, <2>6 DEF b
<1> HIDE DEF c
<1>6. PayloadOf(n) \in Seq(Cells) /\ Len(PayloadOf(n)) = l
  BY <1>1, <1>2, <1>5
<1>7. \A i \in 1..l : PayloadOf(n)[i] = c(i)
  BY <1>2
<1> QED
  BY <1>1, <1>5, <1>6, <1>7 DEF l, e

(* The message of a frame is a message, and what a frame makes of a meaning is
   one. *)
LEMMA MessageTyped ==
  ASSUME stream \in Streams, NEW n \in 1..Len(stream), NEW m \in Meanings
  PROVE  /\ MessageWith(m, n) \in Messages
         /\ MessageWith(m, n).opcode \in Opcodes
<1>1. /\ PayloadOf(n) \in Seq(Cells) /\ stream[n].opcode \in Opcodes
      /\ m.open \in Messages /\ m.open.payload \in Seq(Cells)
      /\ m.open = Nobody \/ m.open.opcode \in Opcodes
  BY PayloadTyped, FrameTyped DEF Meanings, Messages
<1>2. m.open.payload \o PayloadOf(n) \in Seq(Cells)
  BY <1>1
<1>3. CASE IsControl(stream[n].opcode)
  BY <1>1, <1>3 DEF MessageWith, Messages
<1>4. CASE ~IsControl(stream[n].opcode)
  <2> DEFINE op == IF m.open = Nobody THEN stream[n].opcode ELSE m.open.opcode
             pay == m.open.payload \o PayloadOf(n)
  <2>1. op \in Opcodes
    BY <1>1
  <2>2. MessageWith(m, n) = [opcode |-> op, payload |-> pay]
    BY <1>4 DEF MessageWith
  <2>3. pay \in Seq(Cells)
    BY <1>2
  <2> HIDE DEF op, pay
  <2> QED
    BY <2>1, <2>2, <2>3 DEF Messages
<1> QED
  BY <1>3, <1>4

(* The cases of what a frame does to the meaning. *)
LEMMA AfterIs ==
  ASSUME stream \in Streams, NEW n \in 1..Len(stream), NEW m \in Meanings
  PROVE  /\ After(m, n) \in Meanings
         /\ m.error => After(m, n) = m
         /\ ~m.error /\ ~LegalAfter(m, n) =>
              /\ After(m, n).error
              /\ After(m, n).out = m.out /\ After(m, n).open = m.open
         /\ ~m.error /\ LegalAfter(m, n) /\ ~stream[n].fin =>
              /\ ~After(m, n).error /\ After(m, n).out = m.out
              /\ After(m, n).open = MessageWith(m, n)
         /\ ~m.error /\ LegalAfter(m, n) /\ stream[n].fin =>
              /\ ~After(m, n).error
              /\ After(m, n).out = Append(m.out, MessageWith(m, n))
              /\ After(m, n).open = IF IsControl(stream[n].opcode) THEN m.open
                                    ELSE Nobody
<1> DEFINE R == [out : Seq(Messages), open : Messages, error : BOOLEAN]
           w == MessageWith(m, n)
<1>1. /\ w \in Messages /\ w.opcode \in Opcodes /\ m \in R
      /\ m.open = Nobody \/ m.open.opcode \in Opcodes
  BY MessageTyped DEF Meanings
<1>2. Nobody \in Messages
  <2>1. <<>> \in Seq(Cells)
    OBVIOUS
  <2> QED
    BY <2>1 DEF Nobody, Messages
<1>3. Append(m.out, w) \in Seq(Messages)
  <2>1. m.out \in Seq(Messages)
    BY <1>1
  <2> HIDE DEF w
  <2> QED
    BY <1>1, <2>1
<1> HIDE DEF w
<1>4. CASE m.error
  BY <1>1, <1>4 DEF After
<1>5. CASE ~m.error /\ ~LegalAfter(m, n)
  <2>1. After(m, n) = [m EXCEPT !.error = TRUE]
    BY <1>5 DEF After
  <2> QED
    BY <1>1, <1>5, <2>1 DEF Meanings
<1>6. CASE ~m.error /\ LegalAfter(m, n) /\ ~stream[n].fin
  <2>1. After(m, n) = [m EXCEPT !.open = w]
    BY <1>6 DEF After, w
  <2> QED
    BY <1>1, <1>6, <2>1 DEF Meanings, w
<1>7. CASE ~m.error /\ LegalAfter(m, n) /\ stream[n].fin
  <2> DEFINE o == IF IsControl(stream[n].opcode) THEN m.open ELSE Nobody
             a == Append(m.out, w)
  <2>1. After(m, n) = [m EXCEPT !.out = a, !.open = o]
    BY <1>7 DEF After, w
  <2>2. o \in Messages /\ (o = Nobody \/ o.opcode \in Opcodes)
    BY <1>1, <1>2
  <2>3. a \in Seq(Messages)
    BY <1>3
  <2> HIDE DEF o, a
  <2>4. /\ After(m, n) \in R /\ After(m, n).open = o
        /\ ~After(m, n).error /\ After(m, n).out = a
    BY <1>1, <1>7, <2>1, <2>2, <2>3
  <2>5. After(m, n) \in Meanings
    BY <2>2, <2>4 DEF Meanings
  <2> QED
    BY <1>7, <2>4, <2>5 DEF o, a, w
<1> QED
  BY <1>4, <1>5, <1>6, <1>7

(* The meaning of any number of frames; induction on the frames. *)
LEMMA MeaningTyped ==
  ASSUME stream \in Streams
  PROVE  \A n \in 0..Len(stream) : Meaning[n] \in Meanings
<1> DEFINE T == {n \in Nat : n <= Len(stream) => Meaning[n] \in Meanings}
<1>1. Len(stream) \in Nat
  BY FrameTyped
<1>2. /\ Meaning[0] = Begun
      /\ \A n \in 1..Len(stream) : Meaning[n] = After(Meaning[n - 1], n)
  BY <1>1, MeaningIs
<1>3. 0 \in T
  <2>1. <<>> \in Seq(Cells) /\ <<>> \in Seq(Messages)
    OBVIOUS
  <2>2. Begun \in Meanings
    BY <2>1 DEF Begun, Meanings, Nobody, Messages
  <2> QED
    BY <1>2, <2>2
<1>4. ASSUME NEW n \in Nat, n \in T
      PROVE  n + 1 \in T
  <2> SUFFICES ASSUME n + 1 <= Len(stream)
               PROVE  Meaning[n + 1] \in Meanings
    OBVIOUS
  <2>1. n + 1 \in 1..Len(stream) /\ (n + 1) - 1 = n /\ n <= Len(stream)
    BY <1>1
  <2>2. Meaning[n] \in Meanings
    BY <1>4, <2>1
  <2>3. Meaning[n + 1] = After(Meaning[n], n + 1)
    BY <1>2, <2>1
  <2> QED
    BY <2>1, <2>2, <2>3, AfterIs
<1>5. Nat \subseteq T
  <2> HIDE DEF T
  <2> QED
    BY <1>3, <1>4, Induction
<1> QED
  BY <1>1, <1>5

-----------------------------------------------------------------------------
(* The validator: its state says what the octets before are. *)

Astray(octets, i) == (octets[i] = "C") # (i > 1 /\ octets[i - 1] = "L")

Validated(octets) ==
  IF \E i \in DOMAIN octets : Astray(octets, i) THEN "reject"
  ELSE IF octets # <<>> /\ octets[Len(octets)] = "L" THEN "middle"
  ELSE "accept"

Stepped(s, x) ==
  CASE s = "accept" /\ x = "A" -> "accept"
    [] s = "accept" /\ x = "L" -> "middle"
    [] s = "middle" /\ x = "C" -> "accept"
    [] OTHER -> "reject"

(* The validator over a whole sequence of octets, one after the other. *)
LEMMA ValidatedIs ==
  ASSUME NEW o \in Seq(Letters)
  PROVE  /\ Len(o) \in Nat /\ (o = <<>> <=> Len(o) = 0)
         /\ Validated(o) = "reject" <=> \E i \in 1..Len(o) : Astray(o, i)
         /\ Validated(o) = "middle" <=>
              /\ \A i \in 1..Len(o) : ~Astray(o, i)
              /\ Len(o) # 0 /\ o[Len(o)] = "L"
         /\ Validated(o) \in {"reject", "middle", "accept"}
<1>1. Len(o) \in Nat /\ (o = <<>> <=> Len(o) = 0) /\ DOMAIN o = 1..Len(o)
  OBVIOUS
<1>2. "reject" # "middle" /\ "reject" # "accept" /\ "middle" # "accept"
  OBVIOUS
<1>3. CASE \E i \in 1..Len(o) : Astray(o, i)
  <2>1. Validated(o) = "reject"
    BY <1>1, <1>3 DEF Validated
  <2> QED
    BY <1>1, <1>2, <1>3, <2>1
<1>4. CASE ~\E i \in 1..Len(o) : Astray(o, i)
  <2>1. Validated(o) = IF o # <<>> /\ o[Len(o)] = "L" THEN "middle"
                       ELSE "accept"
    BY <1>1, <1>4 DEF Validated
  <2> QED
    BY <1>1, <1>2, <1>4, <2>1
<1> QED
  BY <1>3, <1>4

(* With one more octet the validator goes on from where it was. *)
LEMMA ValidatedGrows ==
  ASSUME NEW o \in Seq(Letters), NEW x \in Letters
  PROVE  Validated(Append(o, x)) = Stepped(Validated(o), x)
<1> DEFINE n == Len(o)
           q == Append(o, x)
           l == o[n]
<1>1. /\ n \in Nat /\ q \in Seq(Letters) /\ Len(q) = n + 1 /\ q[n + 1] = x
      /\ \A i \in 1..n : q[i] = o[i]
  OBVIOUS
<1>2. /\ Validated(o) = "reject" <=> \E i \in 1..n : Astray(o, i)
      /\ Validated(o) = "middle" <=> /\ \A i \in 1..n : ~Astray(o, i)
                                     /\ n # 0 /\ l = "L"
      /\ Validated(o) \in {"reject", "middle", "accept"}
  BY ValidatedIs
<1>3. /\ Len(q) = n + 1 /\ Validated(q) \in {"reject", "middle", "accept"}
      /\ Validated(q) = "reject" <=> \E i \in 1..(n + 1) : Astray(q, i)
      /\ Validated(q) = "middle" <=> /\ \A i \in 1..(n + 1) : ~Astray(q, i)
                                     /\ x = "L"
  <2> HIDE DEF q, n
  <2>1. /\ Validated(q) = "reject" <=> \E i \in 1..Len(q) : Astray(q, i)
        /\ Validated(q) = "middle" <=> /\ \A i \in 1..Len(q) : ~Astray(q, i)
                                       /\ Len(q) # 0 /\ q[Len(q)] = "L"
        /\ Validated(q) \in {"reject", "middle", "accept"}
    BY <1>1, ValidatedIs
  <2>2. n + 1 # 0
    BY <1>1
  <2> QED
    BY <1>1, <2>1, <2>2
<1> HIDE DEF n, q
<1>4. ASSUME NEW i \in 1..n
      PROVE  Astray(q, i) <=> Astray(o, i)
  <2>1. i > 1 => i - 1 \in 1..n
    BY <1>1
  <2> QED
    BY <1>1, <2>1 DEF Astray
<1>5. Astray(q, n + 1) <=> (x = "C") # (n # 0 /\ l = "L")
  <2>1. /\ n + 1 > 1 <=> n # 0
        /\ (n + 1) - 1 = n
        /\ n # 0 => n \in 1..n
    BY <1>1
  <2> QED
    BY <1>1, <2>1 DEF Astray, l
<1>6. \A i \in 1..(n + 1) : i \in 1..n \/ i = n + 1
  BY <1>1
<1>7. \A i \in 1..n : i \in 1..(n + 1)
  BY <1>1
<1>8. n + 1 \in 1..(n + 1)
  BY <1>1
<1> HIDE DEF l
<1>9. (\E i \in 1..(n + 1) : Astray(q, i))
        <=> (\E i \in 1..n : Astray(o, i)) \/ Astray(q, n + 1)
  BY <1>4, <1>6, <1>7, <1>8
<1>10. x \in {"A", "L", "C"}
  BY DEF Letters
<1>11. CASE Validated(o) = "reject"
  <2>1. Validated(q) = "reject"
    BY <1>2, <1>3, <1>9, <1>11
  <2> QED
    BY <1>11, <2>1 DEF Stepped, q
<1>12. CASE Validated(o) = "middle"
  <2>1. /\ n # 0 /\ l = "L" /\ ~\E i \in 1..n : Astray(o, i)
    BY <1>2, <1>12
  <2>2. Validated(q) = "reject" <=> x # "C"
    BY <1>3, <1>5, <1>9, <2>1
  <2>3. x = "C" => Validated(q) = "accept"
    BY <1>3, <2>2
  <2> QED
    BY <1>12, <2>2, <2>3 DEF Stepped, q
<1>13. CASE Validated(o) = "accept"
  <2>1. /\ ~(n # 0 /\ l = "L") /\ ~\E i \in 1..n : Astray(o, i)
    BY <1>2, <1>13
  <2>2. Validated(q) = "reject" <=> x = "C"
    BY <1>3, <1>5, <1>9, <2>1
  <2>3. x # "C" => ~\E i \in 1..(n + 1) : Astray(q, i)
    BY <1>3, <2>2
  <2>4. /\ x = "L" => Validated(q) = "middle"
        /\ x = "A" => Validated(q) = "accept"
    BY <1>3, <2>2, <2>3
  <2> QED
    BY <1>10, <1>13, <2>2, <2>4 DEF Stepped, q
<1> QED
  BY <1>2, <1>11, <1>12, <1>13

(* The octets of a text: what is wrong in a part is wrong in the whole. *)
LEMMA RejectedForGood ==
  ASSUME NEW o \in Seq(Letters), NEW r \in Seq(Letters),
         Validated(o) = "reject"
  PROVE  Validated(o \o r) = "reject"
<1> DEFINE q == o \o r
<1>1. /\ q \in Seq(Letters) /\ Len(q) = Len(o) + Len(r)
      /\ Len(o) \in Nat /\ Len(r) \in Nat
      /\ \A i \in 1..Len(o) : i \in 1..Len(q) /\ q[i] = o[i]
  BY Joined
<1>2. PICK i \in 1..Len(o) : Astray(o, i)
  BY ValidatedIs
<1> HIDE DEF q
<1>3. Astray(q, i)
  <2>1. i > 1 => i - 1 \in 1..Len(o)
    BY <1>1
  <2> QED
    BY <1>1, <1>2, <2>1 DEF Astray
<1>4. Validated(q) = "reject"
  BY <1>1, <1>2, <1>3, ValidatedIs
<1> QED
  BY <1>4 DEF q

(* What the validator accepts or leaves in the middle is legal text. *)
LEMMA ValidTextIs ==
  ASSUME NEW o \in Seq(Letters), NEW whole \in BOOLEAN
  PROVE  /\ Validated(o) = "reject" => ~ValidText(o, whole)
         /\ Validated(o) # "reject" =>
              (ValidText(o, whole) <=> (whole => Validated(o) = "accept"))
<1> DEFINE n == Len(o)
<1>1. DOMAIN o = 1..n /\ n \in Nat
  OBVIOUS
<1>2. /\ Validated(o) = "reject" <=> \E i \in 1..n : Astray(o, i)
      /\ Validated(o) = "middle" <=> /\ \A i \in 1..n : ~Astray(o, i)
                                     /\ n # 0 /\ o[n] = "L"
      /\ Validated(o) \in {"reject", "middle", "accept"}
  BY ValidatedIs
<1>3. ValidText(o, whole) <=>
        \A i \in 1..n : ~Astray(o, i) /\ (o[i] = "L" /\ i = n => ~whole)
  BY <1>1 DEF ValidText, Astray
<1> HIDE DEF n
<1>4. n # 0 => n \in 1..n
  BY <1>1
<1>5. CASE Validated(o) = "reject"
  BY <1>2, <1>3, <1>5
<1>6. CASE Validated(o) # "reject"
  <2>1. \A i \in 1..n : ~Astray(o, i)
    BY <1>2, <1>6
  <2>2. \A i \in 1..n : n # 0
    BY <1>1
  <2>3. ValidText(o, whole) <=> (n # 0 /\ o[n] = "L" => ~whole)
    BY <1>3, <1>4, <2>1, <2>2
  <2>4. Validated(o) = "accept" <=> ~(n # 0 /\ o[n] = "L")
    BY <1>2, <1>6, <2>1
  <2> QED
    BY <1>6, <2>3, <2>4
<1> QED
  BY <1>5, <1>6


(* One octet more behind the others. *)
LEMMA OneMore ==
  ASSUME NEW X, NEW o \in Seq(X), NEW q \in Seq(X), NEW n \in 1..Len(q)
  PROVE  /\ o \o SubSeq(q, 1, n) = Append(o \o SubSeq(q, 1, n - 1), q[n])
         /\ o \o SubSeq(q, 1, n - 1) \in Seq(X) /\ q[n] \in X
<1> DEFINE r == SubSeq(q, 1, n - 1)
           t == SubSeq(q, 1, n)
<1>1. /\ r \in Seq(X) /\ Len(r) = n - 1 /\ q[n] \in X
      /\ t = Append(r, q[n])
  OBVIOUS
<1> HIDE DEF r, t
<1>2. o \o Append(r, q[n]) = Append(o \o r, q[n])
  BY <1>1
<1>3. o \o r \in Seq(X)
  BY <1>1
<1> QED
  BY <1>1, <1>2, <1>3 DEF r, t

(* The validator goes on behind octets o with the octets q of the bytes. *)
LEMMA DecodeIs ==
  ASSUME NEW o \in Seq(Letters), NEW q \in Seq(Letters), NEW bytes,
         Len(bytes) = Len(q), \A i \in 1..Len(q) : Octet(bytes[i]) = q[i]
  PROVE  Decode(Validated(o), bytes) = Validated(o \o q)
<1> DEFINE l == Len(q)
           s == Validated(o)
           Is(f) == f = [n \in 0..l |-> IF n = 0 THEN s
                                        ELSE Stepped(f[n - 1], Octet(bytes[n]))]
           V(n) == Validated(o \o SubSeq(q, 1, n))
           v == [n \in 0..l |-> V(n)]
<1>1. Decode(s, bytes) = (CHOOSE f : Is(f))[l]
  BY DEF Decode, Stepped
<1>2. l \in Nat
  OBVIOUS
<1>3. V(0) = s
  <2>1. SubSeq(q, 1, 0) = <<>> /\ o \o <<>> = o
    OBVIOUS
  <2> QED
    BY <2>1, Zenon
<1>4. V(l) = Validated(o \o q)
  <2>1. SubSeq(q, 1, l) = q
    BY SubSeqFull
  <2> QED
    BY <2>1, Zenon
<1>5. ASSUME NEW n \in 1..l
      PROVE  V(n) = Stepped(V(n - 1), Octet(bytes[n]))
  <2>1. /\ o \o SubSeq(q, 1, n) = Append(o \o SubSeq(q, 1, n - 1), q[n])
        /\ o \o SubSeq(q, 1, n - 1) \in Seq(Letters) /\ q[n] \in Letters
    BY OneMore
  <2> QED
    BY <2>1, ValidatedGrows
<1> HIDE DEF V, l, s
<1>6. Is(v)
  <2>1. ASSUME NEW n \in 0..l
        PROVE  v[n] = IF n = 0 THEN s ELSE Stepped(v[n - 1], Octet(bytes[n]))
    <3>1. n # 0 => n \in 1..l /\ n - 1 \in 0..l
      BY <1>2
    <3> QED
      BY <1>3, <1>5, <3>1
  <2>2. v = [n \in 0..l |-> v[n]]
    OBVIOUS
  <2> HIDE DEF v
  <2>3. [n \in 0..l |-> v[n]]
          = [n \in 0..l |-> IF n = 0 THEN s
                            ELSE Stepped(v[n - 1], Octet(bytes[n]))]
    BY <2>1
  <2> QED
    BY <2>2, <2>3
<1>7. PICK g : Is(g) /\ g = CHOOSE f : Is(f)
  <2> HIDE DEF Is, v
  <2> QED
    BY <1>6
<1> DEFINE T == {n \in Nat : n <= l => g[n] = V(n)}
<1>8. ASSUME NEW n \in 0..l
      PROVE  g[n] = IF n = 0 THEN s ELSE Stepped(g[n - 1], Octet(bytes[n]))
  BY <1>7
<1>9. 0 \in T
  BY <1>2, <1>3, <1>8
<1>10. ASSUME NEW n \in Nat, n \in T
       PROVE  n + 1 \in T
  <2> SUFFICES ASSUME n + 1 <= l
               PROVE  g[n + 1] = V(n + 1)
    OBVIOUS
  <2>1. /\ n + 1 \in 1..l /\ n + 1 \in 0..l /\ n + 1 # 0 /\ (n + 1) - 1 = n
        /\ n <= l
    BY <1>2
  <2>2. g[n] = V(n)
    BY <1>10, <2>1
  <2> QED
    BY <1>5, <1>8, <2>1, <2>2
<1>11. Nat \subseteq T
  <2> HIDE DEF T
  <2> QED
    BY <1>9, <1>10, Induction
<1>12. g[l] = V(l)
  BY <1>2, <1>11
<1> QED
  BY <1>1, <1>4, <1>7, <1>12 DEF s, l

(* The octets of a payload. *)
LEMMA OctetsAre ==
  ASSUME NEW s \in Seq(Cells)
  PROVE  /\ Octets(s) \in Seq(Letters) /\ Len(Octets(s)) = Len(s)
         /\ Len(s) \in Nat
         /\ \A i \in 1..Len(s) : Octets(s)[i] = Octet(s[i].byte)
<1> DEFINE l == Len(s)
           o == [i \in 1..l |-> Octet(s[i].byte)]
<1>1. l \in Nat /\ DOMAIN s = 1..l
  OBVIOUS
<1>2. Octets(s) = o
  BY <1>1 DEF Octets
<1>3. ASSUME NEW i \in 1..l
      PROVE  Octet(s[i].byte) \in Letters
  <2>1. s[i] \in Cells
    BY ElementOfSeq
  <2> QED
    BY <2>1 DEF Cells
<1>4. o \in Seq(Letters) /\ Len(o) = l
  <2> HIDE DEF l
  <2> QED
    BY <1>1, <1>3
<1>5. \A i \in 1..l : o[i] = Octet(s[i].byte)
  OBVIOUS
<1> QED
  BY <1>1, <1>2, <1>4, <1>5 DEF l

(* The octets of a payload that grows. *)
LEMMA OctetsJoined ==
  ASSUME NEW s \in Seq(Cells), NEW t \in Seq(Cells)
  PROVE  Octets(s \o t) = Octets(s) \o Octets(t)
<1> DEFINE x == Octets(s)
           y == Octets(t)
           z == Octets(s \o t)
<1>1. /\ s \o t \in Seq(Cells) /\ Len(s \o t) = Len(s) + Len(t)
      /\ \A i \in 1..Len(s) : (s \o t)[i] = s[i]
      /\ \A i \in 1..Len(t) : (s \o t)[Len(s) + i] = t[i]
  BY Joined
<1>2. /\ x \in Seq(Letters) /\ Len(x) = Len(s) /\ Len(s) \in Nat
      /\ \A i \in 1..Len(s) : x[i] = Octet(s[i].byte)
  BY OctetsAre
<1>3. /\ y \in Seq(Letters) /\ Len(y) = Len(t) /\ Len(t) \in Nat
      /\ \A i \in 1..Len(t) : y[i] = Octet(t[i].byte)
  BY OctetsAre
<1>4. /\ z \in Seq(Letters) /\ Len(z) = Len(s) + Len(t)
      /\ \A i \in 1..(Len(s) + Len(t)) : z[i] = Octet((s \o t)[i].byte)
  BY <1>1, OctetsAre
<1>5. /\ x \o y \in Seq(Letters) /\ Len(x \o y) = Len(s) + Len(t)
      /\ \A i \in 1..Len(s) : (x \o y)[i] = x[i]
      /\ \A i \in 1..Len(t) : (x \o y)[Len(s) + i] = y[i]
  <2> HIDE DEF x, y
  <2>1. /\ x \in Seq(Letters) /\ y \in Seq(Letters)
    BY <1>2, <1>3
  <2>2. /\ x \o y \in Seq(Letters) /\ Len(x \o y) = Len(x) + Len(y)
        /\ \A i \in 1..Len(x) : (x \o y)[i] = x[i]
        /\ \A i \in 1..Len(y) : (x \o y)[Len(x) + i] = y[i]
    BY <2>1, Joined
  <2> QED
    BY <1>2, <1>3, <2>2
<1> HIDE DEF x, y, z
<1>6. ASSUME NEW i \in 1..(Len(s) + Len(t))
      PROVE  (x \o y)[i] = z[i]
  <2>1. \/ i \in 1..Len(s)
        \/ i - Len(s) \in 1..Len(t) /\ i = Len(s) + (i - Len(s))
    BY <1>2, <1>3
  <2>2. CASE i \in 1..Len(s)
    BY <1>1, <1>2, <1>4, <1>5, <2>2
  <2>3. CASE i - Len(s) \in 1..Len(t) /\ i = Len(s) + (i - Len(s))
    BY <1>1, <1>3, <1>4, <1>5, <2>3
  <2> QED
    BY <2>1, <2>2, <2>3
<1>7. x \o y = z
  BY <1>4, <1>5, <1>6, SeqEqual
<1> QED
  BY <1>7 DEF x, y, z

-----------------------------------------------------------------------------
(* The invariant.  What is known of a frame n once its basic header is read, and
   once its extended header is. *)
BasicLegal(n) ==
  LET f == stream[n]
  IN  /\ f.masked /\ ~f.rsv /\ f.opcode # "RESERVED"
      /\ IF IsControl(f.opcode) THEN f.fin /\ f.code = "basic"
         ELSE (f.opcode = "CONTINUATION") = (Meaning[n - 1].open # Nobody)

HeaderLegal(n) ==
  /\ BasicLegal(n)
  /\ stream[n].code = Shortest(Len(stream[n].payload))
  /\ ~IsControl(stream[n].opcode) =>
       Len(MessageWith(Meaning[n - 1], n).payload) <= max_message_size

StateOf(msg) ==
  IF msg.opcode = "TEXT" THEN Validated(Octets(msg.payload)) ELSE "accept"

(* A message as the parser keeps it. *)
Stored(msg, key, rotation) ==
  [opcode |-> msg.opcode, payload |-> msg.payload, key |-> key,
   rotation |-> rotation, utf8 |-> StateOf(msg)]

(* The message frame n belongs to, with q octets of that frame. *)
Before(n) == IF IsControl(stream[n].opcode) THEN <<>>
             ELSE Meaning[n - 1].open.payload
Partial(n, q) ==
  [opcode |-> MessageWith(Meaning[n - 1], n).opcode,
   payload |-> Before(n) \o SubSeq(PayloadOf(n), 1, q)]

(* The data message between frames: the one that is open behind frame n. *)
HeldOpen(n, dm) ==
  /\ StateOf(Meaning[n].open) # "reject"
  /\ Meaning[n].open = Nobody => dm = NoMessage
  /\ dm = Stored(Meaning[n].open, dm.key, dm.rotation)

(* Where the payload of frame n + 1 begins. *)
Start(n) == End(n) + 2 + ExtendedLength(stream[n + 1])

InBasic(n, q, needed, basic, extended, dm) ==
  /\ q < End(n) + 2
  /\ needed = End(n) + 2 - q
  /\ basic = Bytes(End(n) + 1, q) /\ extended = <<>>
  /\ HeldOpen(n, dm)

InExtended(n, q, needed, basic, extended, dm) ==
  /\ n < Len(stream) /\ BasicLegal(n + 1)
  /\ End(n) + 2 <= q /\ q < Start(n)
  /\ needed = Start(n) - q
  /\ basic = Bytes(End(n) + 1, End(n) + 2)
  /\ extended = Bytes(End(n) + 3, q)
  /\ HeldOpen(n, dm)

(* The message that frame n + 1 is for, in its place, and the open one in its
   own. *)
InHand(n, msg, dm, cm, current) ==
  IF IsControl(stream[n + 1].opcode)
    THEN current = "control" /\ cm = msg /\ HeldOpen(n, dm)
    ELSE current = "data" /\ dm = msg

InPayload(n, q, needed, basic, dm, cm, current) ==
  /\ n < Len(stream) /\ HeaderLegal(n + 1)
  /\ Start(n) <= q /\ q <= End(n + 1)
  /\ needed = End(n + 1) - q
  /\ basic = Bytes(End(n) + 1, End(n) + 2)
  /\ StateOf(Partial(n + 1, q - Start(n))) # "reject"
  /\ InHand(n, Stored(Partial(n + 1, q - Start(n)), n + 1, (q - Start(n)) % 4),
            dm, cm, current)

IsReady(n, q, dm, cm, current) ==
  /\ n < Len(stream) /\ q = End(n + 1)
  /\ LegalAfter(Meaning[n], n + 1) /\ stream[n + 1].fin
  /\ \E rotation \in 0..3 :
       InHand(n, Stored(MessageWith(Meaning[n], n + 1), n + 1, rotation),
              dm, cm, current)

(* Where the parser is behind the first n frames. *)
At(n, state, q, needed, basic, extended, dm, cm, current) ==
  \/ state = "HEADER_BASIC" /\ InBasic(n, q, needed, basic, extended, dm)
  \/ state = "HEADER_EXTENDED" /\ InExtended(n, q, needed, basic, extended, dm)
  \/ state = "APPLICATION" /\ InPayload(n, q, needed, basic, dm, cm, current)
  \/ state = "READY" /\ IsReady(n, q, dm, cm, current)

(* Frame n + 1 is the first that is illegal. *)
Refused(n, q, out) ==
  /\ ~Meaning[n].error /\ Meaning[n + 1].error
  /\ out = Meaning[n].out
  /\ q <= End(n + 1)

ReaderInv ==
  /\ stream \in Streams
  /\ p \in Nat /\ arrived \in Nat /\ p <= arrived /\ arrived <= End(Len(stream))
  /\ ec \in BOOLEAN
  /\ ~ec => \E n \in 0..Len(stream) :
       /\ ~Meaning[n].error /\ delivered = Meaning[n].out /\ End(n) <= p
       /\ At(n, hybi_state, p, m_bytes_needed, m_basic_header,
             m_extended_header, m_data_msg, m_control_msg, m_current_msg)
  /\ ec => \E n \in 0..Len(stream) :
             n < Len(stream) /\ Refused(n, p, delivered)

(* The stream stays the same, and so does what is said of it. *)
LEMMA SameStream ==
  ASSUME stream' = stream
  PROVE  /\ \A n : End(n)' = End(n)
         /\ Meaning' = Meaning
         /\ \A n, state, q, needed, basic, extended, dm, cm, current :
              At(n, state, q, needed, basic, extended, dm, cm, current)'
                <=> At(n, state, q, needed, basic, extended, dm, cm, current)
         /\ \A n, q, out : Refused(n, q, out)' <=> Refused(n, q, out)
<1>1. \A n : End(n)' = End(n)
  BY DEF End, Frames
<1>2. \A n : PayloadOf(n)' = PayloadOf(n)
  BY DEF PayloadOf
<1>3. \A m, n : /\ MessageWith(m, n)' = MessageWith(m, n)
                /\ LegalAfter(m, n)' <=> LegalAfter(m, n)
  BY DEF LegalAfter, MessageWith, PayloadOf, Octets, Octet
<1>4. Meaning' = Meaning
  BY DEF Meaning, LegalAfter, MessageWith, PayloadOf, Octets, Octet
<1>5. \A a, b : Bytes(a, b)' = Bytes(a, b)
  BY DEF Bytes, Frames
<1>6. \A n : Start(n)' = Start(n)
  BY <1>1 DEF Start
<1>7. \A msg : StateOf(msg)' = StateOf(msg)
  BY DEF StateOf, Octets, Octet
<1>8. \A n, q : Partial(n, q)' = Partial(n, q)
  BY <1>2, <1>3, <1>4 DEF Partial, Before
<1>9. \A msg, key, rotation :
        Stored(msg, key, rotation)' = Stored(msg, key, rotation)
  BY <1>7 DEF Stored
<1>10. \A n : /\ BasicLegal(n)' <=> BasicLegal(n)
              /\ HeaderLegal(n)' <=> HeaderLegal(n)
  BY <1>3, <1>4 DEF BasicLegal, HeaderLegal
<1>11. \A n, dm : HeldOpen(n, dm)' <=> HeldOpen(n, dm)
  BY <1>4, <1>7, <1>9 DEF HeldOpen
<1>12. \A n, msg, dm, cm, current :
         InHand(n, msg, dm, cm, current)' <=> InHand(n, msg, dm, cm, current)
  BY <1>11 DEF InHand
<1>13. ASSUME NEW n, NEW q, NEW needed, NEW basic, NEW extended, NEW dm,
              NEW cm, NEW current
       PROVE  /\ InBasic(n, q, needed, basic, extended, dm)'
                   <=> InBasic(n, q, needed, basic, extended, dm)
              /\ InExtended(n, q, needed, basic, extended, dm)'
                   <=> InExtended(n, q, needed, basic, extended, dm)
              /\ InPayload(n, q, needed, basic, dm, cm, current)'
                   <=> InPayload(n, q, needed, basic, dm, cm, current)
              /\ IsReady(n, q, dm, cm, current)'
                   <=> IsReady(n, q, dm, cm, current)
  <2>1. /\ InBasic(n, q, needed, basic, extended, dm)'
             <=> InBasic(n, q, needed, basic, extended, dm)
    BY <1>1, <1>5, <1>11 DEF InBasic
  <2>2. /\ InExtended(n, q, needed, basic, extended, dm)'
             <=> InExtended(n, q, needed, basic, extended, dm)
    BY <1>1, <1>5, <1>6, <1>10, <1>11 DEF InExtended
  <2>3. /\ InPayload(n, q, needed, basic, dm, cm, current)'
             <=> InPayload(n, q, needed, basic, dm, cm, current)
    BY <1>1, <1>5, <1>6, <1>7, <1>8, <1>9, <1>10, <1>12 DEF InPayload
  <2>4. /\ IsReady(n, q, dm, cm, current)'
             <=> IsReady(n, q, dm, cm, current)
    BY <1>1, <1>3, <1>4, <1>9, <1>12 DEF IsReady
  <2> QED
    BY <2>1, <2>2, <2>3, <2>4
<1>14. \A n, state, q, needed, basic, extended, dm, cm, current :
         At(n, state, q, needed, basic, extended, dm, cm, current)'
           <=> At(n, state, q, needed, basic, extended, dm, cm, current)
  BY <1>13 DEF At
<1>15. \A n, q, out : Refused(n, q, out)' <=> Refused(n, q, out)
  BY <1>1, <1>4 DEF Refused
<1> QED
  BY <1>1, <1>4, <1>14, <1>15

(* Where a step leads that reports no error, and where one that does. *)
LEMMA GoesOn ==
  ASSUME ReaderInv, stream' = stream, p' \in Nat, arrived' \in Nat,
         p' <= arrived', arrived' <= End(Len(stream)), ec' = FALSE,
         NEW n \in 0..Len(stream), ~Meaning[n].error,
         delivered' = Meaning[n].out, End(n) <= p',
         At(n, hybi_state', p', m_bytes_needed', m_basic_header',
            m_extended_header', m_data_msg', m_control_msg', m_current_msg')
  PROVE  ReaderInv'
<1>1. /\ \A k : End(k)' = End(k)
      /\ Meaning' = Meaning
      /\ \A k, state, q, needed, basic, extended, dm, cm, current :
           At(k, state, q, needed, basic, extended, dm, cm, current)'
             <=> At(k, state, q, needed, basic, extended, dm, cm, current)
  BY SameStream
<1>2. stream' \in Streams
  BY DEF ReaderInv
<1>3. At(n, hybi_state, p, m_bytes_needed, m_basic_header,
         m_extended_header, m_data_msg, m_control_msg, m_current_msg)'
  BY <1>1
<1>4. Len(stream)' = Len(stream) /\ End(n)' = End(n)
      /\ End(Len(stream))' = End(Len(stream))
  BY <1>1
<1> QED
  BY <1>1, <1>2, <1>3, <1>4 DEF ReaderInv

(* ReaderInv behind an error. *)
LEMMA Refuses ==
  ASSUME ReaderInv, stream' = stream, p' \in Nat, arrived' \in Nat,
         p' <= arrived', arrived' <= End(Len(stream)), ec' = TRUE,
         NEW n \in 0..Len(stream), n < Len(stream),
         Refused(n, p', delivered')
  PROVE  ReaderInv'
<1>1. /\ \A k : End(k)' = End(k)
      /\ Meaning' = Meaning
      /\ \A k, q, out : Refused(k, q, out)' <=> Refused(k, q, out)
  BY SameStream
<1>2. stream' \in Streams
  BY DEF ReaderInv
<1>3. Refused(n, p, delivered)'
  BY <1>1 DEF Refused
<1>4. Len(stream)' = Len(stream) /\ End(Len(stream))' = End(Len(stream))
  BY <1>1
<1> QED
  BY <1>1, <1>2, <1>3, <1>4 DEF ReaderInv

-----------------------------------------------------------------------------
(* Frame n + 1: where its parts are, and what the headers say when they are
   complete. *)
LEMMA Layout ==
  ASSUME stream \in Streams, NEW n \in 0..Len(stream), n < Len(stream)
  PROVE  /\ n \in Nat /\ n + 1 \in 1..Len(stream) /\ n + 1 \in 0..Len(stream)
         /\ (n + 1) - 1 = n
         /\ End(n) \in Nat /\ Start(n) \in Nat /\ End(n + 1) \in Nat
         /\ End(n) + 2 <= Start(n) /\ Start(n) <= End(n + 1)
         /\ End(n) + 2 <= End(n + 1)
         /\ End(n + 1) <= End(Len(stream)) /\ End(Len(stream)) \in Nat
         /\ Start(n) = End(n) + 2 + ExtendedLength(stream[n + 1])
         /\ End(n + 1) = Start(n) + Len(stream[n + 1].payload)
         /\ Len(stream[n + 1].payload) \in Nat
         /\ stream[n + 1].masked => End(n) + 6 <= Start(n)
<1> DEFINE f == stream[n + 1]
           e == ExtendedLength(f)
           l == Len(f.payload)
           g == FrameLength(f)
           a == End(n)
           b == Start(n)
           c == End(n + 1)
           z == End(Len(stream))
<1>1. /\ n \in Nat /\ n + 1 \in 1..Len(stream) /\ n + 1 \in 0..Len(stream)
      /\ (n + 1) - 1 = n
  BY FrameTyped
<1>2. /\ e \in Nat /\ l \in Nat /\ g = 2 + e + l
      /\ f.masked => e >= 4
  BY <1>1, FrameTyped, LengthTyped
<1>3. /\ a \in Nat /\ z \in Nat /\ c = a + g /\ c <= z
  BY FramesInPlace
<1>4. b = a + 2 + e
  BY DEF Start
<1> HIDE DEF e, l, g, a, b, c, z
<1>5. /\ b \in Nat /\ c \in Nat /\ a + 2 <= b /\ b <= c /\ a + 2 <= c
      /\ c = b + l
      /\ f.masked => a + 6 <= b
  BY <1>2, <1>3, <1>4
<1> QED
  BY <1>1, <1>2, <1>3, <1>4, <1>5 DEF e, l, a, b, c, z

(* The bytes of a header belong to the frame that is being read. *)
LEMMA HeaderSays ==
  ASSUME stream \in Streams, NEW n \in 0..Len(stream), n < Len(stream),
         NEW basic, basic = Bytes(End(n) + 1, End(n) + 2),
         NEW extended, extended = Bytes(End(n) + 3, Start(n))
  PROVE  /\ SentIn(basic, 1) = stream[n + 1] /\ SentIn(basic, 2) = stream[n + 1]
         /\ stream[n + 1].masked =>
              /\ extended[1].frame = n + 1
              /\ SentIn(extended, 1) = stream[n + 1]
              /\ PayloadSize(basic, extended) = Len(stream[n + 1].payload)
<1> DEFINE a == End(n)
           b == Start(n)
           c == End(n + 1)
           w == Frames(Len(stream))
           z == End(Len(stream))
<1>1. /\ a \in Nat /\ b \in Nat /\ c \in Nat /\ z \in Nat /\ c <= z
      /\ a + 2 <= b /\ b <= c /\ a + 2 <= c
      /\ stream[n + 1].masked => a + 6 <= b
  BY Layout
<1>2. ASSUME NEW q \in Nat, a < q, q <= c
      PROVE  w[q].frame = n + 1
  <2>1. w[q] = [frame |-> n + 1, at |-> q - a]
    BY <1>2, ByteOfFrame
  <2> QED
    BY <2>1
<1>3. ASSUME NEW x \in Nat, NEW y \in Nat, a < x, x <= y + 1, y <= c,
             NEW i \in 1..((y - x) + 1)
      PROVE  Bytes(x, y)[i].frame = n + 1
  <2>1. 1 <= x /\ y <= z
    <3> HIDE DEF a, c, z
    <3> QED
      BY <1>1, <1>3
  <2>2. Bytes(x, y)[i] = w[(x + i) - 1]
    BY <1>3, <2>1, BytesAre
  <2>3. (x + i) - 1 \in Nat /\ a < (x + i) - 1 /\ (x + i) - 1 <= c
    <3> HIDE DEF a, c
    <3> QED
      BY <1>1, <1>3
  <2> QED
    BY <1>2, <2>2, <2>3
<1>4. basic[1].frame = n + 1 /\ basic[2].frame = n + 1
  <2>1. /\ a + 1 \in Nat /\ a + 2 \in Nat /\ a < a + 1 /\ a + 1 <= (a + 2) + 1
        /\ a + 2 <= c
        /\ 1 \in 1..(((a + 2) - (a + 1)) + 1)
        /\ 2 \in 1..(((a + 2) - (a + 1)) + 1)
    <3> HIDE DEF a, c
    <3> QED
      BY <1>1
  <2> QED
    BY <1>3, <2>1
<1>5. ASSUME stream[n + 1].masked
      PROVE  extended[1].frame = n + 1
  <2>1. /\ a + 3 \in Nat /\ a < a + 3 /\ a + 3 <= b + 1 /\ b <= c /\ b \in Nat
        /\ 1 \in 1..((b - (a + 3)) + 1)
    <3> HIDE DEF a, b, c
    <3> QED
      BY <1>1, <1>5
  <2> QED
    BY <1>3, <2>1
<1>6. /\ SentIn(basic, 1) = stream[n + 1] /\ SentIn(basic, 2) = stream[n + 1]
      /\ stream[n + 1].masked => SentIn(extended, 1) = stream[n + 1]
  BY <1>4, <1>5 DEF SentIn
<1> QED
  BY <1>5, <1>6 DEF PayloadSize

(* The checks of a basic header are those of the reference. *)
LEMMA BasicHeaderIs ==
  ASSUME stream \in Streams, NEW n \in 0..Len(stream), n < Len(stream),
         NEW basic, basic = Bytes(End(n) + 1, End(n) + 2),
         NEW dm, HeldOpen(n, dm)
  PROVE  /\ BasicHeaderOK(basic, dm = NoMessage) <=> BasicLegal(n + 1)
         /\ HeaderLen(basic) = ExtendedLength(stream[n + 1])
<1> DEFINE f == stream[n + 1]
           open == Meaning[n].open
<1>1. SentIn(basic, 1) = f /\ SentIn(basic, 2) = f
  BY HeaderSays
<1>2. (n + 1) - 1 = n /\ n + 1 \in 1..Len(stream)
  BY Layout
<1>3. Meaning[n] \in Meanings
  BY MeaningTyped
<1>4. dm = NoMessage <=> open = Nobody
  <2>1. open = Nobody => dm = NoMessage
    BY DEF HeldOpen
  <2>2. open = Nobody \/ open.opcode \in Opcodes
    BY <1>3 DEF Meanings
  <2>3. dm.opcode = open.opcode
    BY DEF HeldOpen, Stored
  <2>4. NoMessage.opcode = "none" /\ "none" \notin Opcodes
    BY DEF NoMessage, Opcodes
  <2> QED
    BY <2>1, <2>2, <2>3, <2>4
<1>5. f.opcode \in Opcodes /\ f.masked \in BOOLEAN /\ f.fin \in BOOLEAN
      /\ f.rsv \in BOOLEAN
  BY <1>2, FrameTyped
<1> HIDE DEF f, open
<1>6. BasicHeaderOK(basic, dm = NoMessage) <=>
        /\ IsControl(f.opcode) => f.code = "basic" /\ f.fin
        /\ ~f.rsv /\ f.opcode # "RESERVED"
        /\ IF open = Nobody THEN f.opcode # "CONTINUATION"
                      ELSE IsControl(f.opcode) \/ f.opcode = "CONTINUATION"
        /\ f.masked
  BY <1>1, <1>4 DEF BasicHeaderOK
<1>7. BasicLegal(n + 1) <=>
        /\ f.masked /\ ~f.rsv /\ f.opcode # "RESERVED"
        /\ IF IsControl(f.opcode) THEN f.fin /\ f.code = "basic"
           ELSE (f.opcode = "CONTINUATION") = (open # Nobody)
  BY <1>2 DEF BasicLegal, f, open
<1>8. IsControl(f.opcode) => f.opcode # "CONTINUATION"
  BY DEF IsControl
<1>9. HeaderLen(basic) = ExtendedLength(f)
  BY <1>1 DEF HeaderLen
<1> QED
  BY <1>6, <1>7, <1>8, <1>9 DEF f

(* The message of a frame behind the first n. *)
LEMMA MessageIs ==
  ASSUME stream \in Streams, NEW n \in 0..Len(stream), n < Len(stream)
  PROVE  /\ Meaning[n] \in Meanings /\ (n + 1) - 1 = n
         /\ Before(n + 1) \in Seq(Cells) /\ PayloadOf(n + 1) \in Seq(Cells)
         /\ Len(PayloadOf(n + 1)) = Len(stream[n + 1].payload)
         /\ MessageWith(Meaning[n], n + 1) \in Messages
         /\ MessageWith(Meaning[n], n + 1).opcode \in Opcodes
         /\ MessageWith(Meaning[n], n + 1).payload
              = Before(n + 1) \o PayloadOf(n + 1)
         /\ Len(Before(n + 1) \o PayloadOf(n + 1))
              = Len(Before(n + 1)) + Len(stream[n + 1].payload)
         /\ Len(Before(n + 1)) \in Nat
<1> DEFINE m == Meaning[n]
           s == Before(n + 1)
           t == PayloadOf(n + 1)
           w == MessageWith(m, n + 1)
<1>1. (n + 1) - 1 = n /\ n + 1 \in 1..Len(stream)
  BY Layout
<1>2. m \in Meanings
  BY MeaningTyped
<1>3. /\ t \in Seq(Cells) /\ Len(t) = Len(stream[n + 1].payload)
      /\ w \in Messages /\ w.opcode \in Opcodes
  BY <1>1, <1>2, PayloadTyped, MessageTyped
<1>4. s = IF IsControl(stream[n + 1].opcode) THEN <<>> ELSE m.open.payload
  BY <1>1 DEF Before
<1>5. m.open.payload \in Seq(Cells)
  <2>1. m.open \in Messages
    BY <1>2 DEF Meanings
  <2>2. ASSUME NEW x \in Messages
        PROVE  x.payload \in Seq(Cells)
    BY DEF Messages
  <2> QED
    BY <2>1, <2>2
<1>6. s \in Seq(Cells)
  <2>1. <<>> \in Seq(Cells)
    OBVIOUS
  <2> HIDE DEF s, m
  <2> QED
    BY <1>4, <1>5, <2>1
<1>7. w.payload = s \o t
  <2>1. CASE IsControl(stream[n + 1].opcode)
    <3>1. w.payload = t /\ s = <<>>
      BY <1>4, <2>1 DEF MessageWith
    <3> HIDE DEF s, t, w
    <3>2. <<>> \o t = t
      BY <1>3
    <3> QED
      BY <3>1, <3>2
  <2>2. CASE ~IsControl(stream[n + 1].opcode)
    BY <1>4, <2>2 DEF MessageWith
  <2> QED
    BY <2>1, <2>2
<1> HIDE DEF m, s, t, w
<1>8. Len(s \o t) = Len(s) + Len(stream[n + 1].payload) /\ Len(s) \in Nat
  BY <1>3, <1>6
<1> QED
  BY <1>1, <1>2, <1>3, <1>6, <1>7, <1>8 DEF m, s, t, w

(* A frame is legal if its headers are and the text goes on right. *)
LEMMA LegalIs ==
  ASSUME stream \in Streams, NEW n \in 0..Len(stream), n < Len(stream)
  PROVE  LegalAfter(Meaning[n], n + 1) <=>
           /\ HeaderLegal(n + 1)
           /\ StateOf(MessageWith(Meaning[n], n + 1)) # "reject"
           /\ stream[n + 1].opcode = "TEXT" /\ stream[n + 1].fin =>
                StateOf(MessageWith(Meaning[n], n + 1)) = "accept"
<1> DEFINE f == stream[n + 1]
           m == Meaning[n]
           w == MessageWith(m, n + 1)
           o == Octets(w.payload)
           whole == f.opcode = "TEXT" /\ f.fin
<1>1. /\ m \in Meanings /\ (n + 1) - 1 = n /\ w \in Messages
      /\ w.opcode \in Opcodes
  BY MessageIs
<1>2. w.payload \in Seq(Cells)
  BY <1>1 DEF Messages
<1>3. o \in Seq(Letters)
  BY <1>2, OctetsAre
<1>4. whole \in BOOLEAN
  OBVIOUS
<1> HIDE DEF o, whole
<1>5. /\ Validated(o) = "reject" => ~ValidText(o, whole)
      /\ Validated(o) # "reject" =>
           (ValidText(o, whole) <=> (whole => Validated(o) = "accept"))
  BY <1>3, <1>4, ValidTextIs
<1>6. f.opcode = "TEXT" /\ HeaderLegal(n + 1) => w.opcode = "TEXT"
  <2> SUFFICES ASSUME f.opcode = "TEXT", HeaderLegal(n + 1)
               PROVE  w.opcode = "TEXT"
    OBVIOUS
  <2>1. ~IsControl(f.opcode) /\ f.opcode # "CONTINUATION"
    BY DEF IsControl
  <2>2. m.open = Nobody
    BY <1>1, <2>1 DEF HeaderLegal, BasicLegal
  <2> QED
    BY <2>1, <2>2 DEF MessageWith
<1>7. LegalAfter(m, n + 1) <=>
        /\ f.masked /\ ~f.rsv /\ f.opcode # "RESERVED"
        /\ f.code = Shortest(Len(f.payload))
        /\ IF IsControl(f.opcode) THEN f.fin /\ f.code = "basic"
           ELSE /\ (f.opcode = "CONTINUATION") = (m.open # Nobody)
                /\ Len(w.payload) <= max_message_size
        /\ w.opcode = "TEXT" => ValidText(o, whole)
  BY DEF LegalAfter, o, whole
<1>8. HeaderLegal(n + 1) <=>
        /\ f.masked /\ ~f.rsv /\ f.opcode # "RESERVED"
        /\ f.code = Shortest(Len(f.payload))
        /\ IF IsControl(f.opcode) THEN f.fin /\ f.code = "basic"
           ELSE /\ (f.opcode = "CONTINUATION") = (m.open # Nobody)
                /\ Len(w.payload) <= max_message_size
  BY <1>1 DEF HeaderLegal, BasicLegal
<1>9. LegalAfter(m, n + 1) <=>
        HeaderLegal(n + 1) /\ (w.opcode = "TEXT" => ValidText(o, whole))
  <2> HIDE DEF f, m, w
  <2> QED
    BY <1>7, <1>8
<1>10. StateOf(w) = IF w.opcode = "TEXT" THEN Validated(o) ELSE "accept"
  BY DEF StateOf, o
<1>11. whole <=> f.opcode = "TEXT" /\ f.fin
  BY DEF whole
<1> HIDE DEF f, m, w
<1>12. CASE w.opcode = "TEXT"
  BY <1>5, <1>9, <1>10, <1>11, <1>12 DEF f, m, w
<1>13. CASE w.opcode # "TEXT"
  BY <1>6, <1>9, <1>10, <1>13 DEF f, m, w
<1> QED
  BY <1>12, <1>13

(* So are those of an extended header. *)
LEMMA ExtendedHeaderIs ==
  ASSUME stream \in Streams, NEW n \in 0..Len(stream), n < Len(stream),
         m_basic_header = Bytes(End(n) + 1, End(n) + 2),
         NEW extended, extended = Bytes(End(n) + 3, Start(n)),
         HeldOpen(n, m_data_msg), BasicLegal(n + 1)
  PROVE  /\ PayloadSize(m_basic_header, extended)
              = Len(stream[n + 1].payload)
         /\ HeaderLegal(n + 1) <=>
              /\ ExtendedHeaderOK(m_basic_header, extended)
              /\ ~TooBig(Len(stream[n + 1].payload))
<1> DEFINE f == stream[n + 1]
           l == Len(f.payload)
           w == MessageWith(Meaning[n], n + 1)
           d == Len(m_data_msg.payload)
<1>1. /\ SentIn(m_basic_header, 1) = f /\ SentIn(m_basic_header, 2) = f
      /\ f.masked => PayloadSize(m_basic_header, extended) = l
  BY HeaderSays
<1>2. PayloadSize(m_basic_header, extended) = l
  BY <1>1 DEF BasicLegal
<1>3. /\ (n + 1) - 1 = n /\ n + 1 \in 1..Len(stream) /\ l \in Nat
  BY Layout
<1>4. /\ f.code \in {"basic", "16bit", "64bit"}
      /\ f.code = "basic" => l <= payload_size_basic
      /\ f.code = "16bit" => l <= payload_size_extended
  BY <1>3, FrameTyped, StreamAssumption
<1>5. /\ max_message_size \in Nat /\ payload_size_basic \in Nat
      /\ payload_size_extended \in Nat
      /\ payload_size_basic <= payload_size_extended
  BY StreamAssumption
<1> HIDE DEF l
<1>6. ExtendedHeaderOK(m_basic_header, extended)
        <=> /\ f.code = "16bit" => l > payload_size_basic
            /\ f.code = "64bit" => l > payload_size_extended
  BY <1>1, <1>2 DEF ExtendedHeaderOK
<1>7. ExtendedHeaderOK(m_basic_header, extended) <=> f.code = Shortest(l)
  <2>1. "basic" # "16bit" /\ "basic" # "64bit" /\ "16bit" # "64bit"
    OBVIOUS
  <2> HIDE DEF f
  <2>2. CASE l <= payload_size_basic
    <3>1. Shortest(l) = "basic" /\ l <= payload_size_extended
      BY <1>3, <1>5, <2>2 DEF Shortest
    <3> QED
      BY <1>3, <1>4, <1>5, <1>6, <2>1, <2>2, <3>1
  <2>3. CASE ~(l <= payload_size_basic) /\ l <= payload_size_extended
    <3>1. Shortest(l) = "16bit"
      BY <2>3 DEF Shortest
    <3> QED
      BY <1>3, <1>4, <1>5, <1>6, <2>1, <2>3, <3>1
  <2>4. CASE ~(l <= payload_size_basic) /\ ~(l <= payload_size_extended)
    <3>1. Shortest(l) = "64bit"
      BY <2>4 DEF Shortest
    <3> QED
      BY <1>3, <1>4, <1>5, <1>6, <2>1, <2>4, <3>1
  <2> QED
    BY <2>2, <2>3, <2>4
<1>8. ASSUME ~IsControl(f.opcode)
      PROVE  Len(w.payload) = d + l /\ d \in Nat
  <2>1. /\ w.payload = Before(n + 1) \o PayloadOf(n + 1)
        /\ Len(Before(n + 1) \o PayloadOf(n + 1)) = Len(Before(n + 1)) + l
        /\ Len(Before(n + 1)) \in Nat
    BY MessageIs DEF l
  <2>2. Before(n + 1) = Meaning[n].open.payload
    BY <1>3, <1>8 DEF Before
  <2>3. m_data_msg.payload = Meaning[n].open.payload
    BY DEF HeldOpen, Stored
  <2> QED
    BY <2>1, <2>2, <2>3
<1>9. TooBig(l) <=> ~IsControl(f.opcode) /\ d + l > max_message_size
  BY <1>1 DEF TooBig
<1>10. HeaderLegal(n + 1) <=>
         /\ f.code = Shortest(l)
         /\ ~IsControl(f.opcode) => Len(w.payload) <= max_message_size
  BY <1>3 DEF HeaderLegal, l
<1> HIDE DEF f, w, d
<1>11. ~TooBig(l) <=>
         (~IsControl(f.opcode) => Len(w.payload) <= max_message_size)
  BY <1>3, <1>5, <1>8, <1>9
<1>12. ExtendedHeaderOK(m_basic_header, extended) /\ ~TooBig(l)
         <=> HeaderLegal(n + 1)
  BY <1>7, <1>10, <1>11
<1> QED
  BY <1>2, <1>12 DEF f, l

-----------------------------------------------------------------------------
(* The bytes a step takes, unmasked. *)
LEMMA LeastOfTwo ==
  ASSUME NEW a \in Nat, NEW b \in Nat
  PROVE  /\ Min({a, b}) \in Nat /\ Min({a, b}) <= a /\ Min({a, b}) <= b
         /\ Min({a, b}) = a \/ Min({a, b}) = b
<1>1. Min({a, b}) = CHOOSE x \in {a, b} : \A y \in {a, b} : x <= y
  BY DEF Min
<1>2. \E x \in {a, b} : \A y \in {a, b} : x <= y
  OBVIOUS
<1>3. Min({a, b}) \in {a, b} /\ \A y \in {a, b} : Min({a, b}) <= y
  BY <1>1, <1>2
<1> QED
  BY <1>3

(* An iteration takes no more bytes than are needed and there. *)
LEMMA TakenIs ==
  ASSUME m_bytes_needed \in Nat, p \in Nat, arrived \in Nat, p <= arrived
  PROVE  /\ Taken \in Nat /\ Taken <= m_bytes_needed
         /\ p + Taken <= arrived /\ p + Taken \in Nat
         /\ Taken = m_bytes_needed \/ p + Taken = arrived
<1> DEFINE d == arrived - p
           t == Min({m_bytes_needed, d})
<1>1. d \in Nat /\ p + d = arrived
  OBVIOUS
<1> HIDE DEF d
<1>2. /\ t \in Nat /\ t <= m_bytes_needed /\ t <= d
      /\ t = m_bytes_needed \/ t = d
  BY <1>1, LeastOfTwo
<1>3. Taken = t
  BY DEF Taken, d
<1> HIDE DEF t
<1>4. p + t <= arrived /\ p + t \in Nat /\ (t = d => p + t = arrived)
  BY <1>1, <1>2
<1> QED
  BY <1>2, <1>3, <1>4

(* The key is turned as far by the parts of a payload as by the whole. *)
LEMMA Turned ==
  ASSUME NEW q \in Nat, NEW i \in Nat
  PROVE  /\ ((q % 4) + i) % 4 = (q + i) % 4
         /\ q % 4 \in 0..3 /\ (q + i) % 4 \in 0..3
OBVIOUS

(* A slice of a sequence. *)
LEMMA Slice ==
  ASSUME NEW X, NEW y \in Seq(X), NEW q \in Nat, NEW t \in Nat,
         q + t <= Len(y)
  PROVE  /\ SubSeq(y, q + 1, q + t) \in Seq(X)
         /\ Len(SubSeq(y, q + 1, q + t)) = t
         /\ \A i \in 1..t : SubSeq(y, q + 1, q + t)[i] = y[q + i]
<1>1. Len(y) \in Nat /\ q + t \in Nat /\ (q + t) - (q + 1) + 1 = t
  OBVIOUS
<1>2. SubSeq(y, q + 1, q + t) \in Seq(X)
  BY <1>1
<1>3. Len(SubSeq(y, q + 1, q + t)) = t
  BY <1>1
<1>4. ASSUME NEW i \in 1..t
      PROVE  SubSeq(y, q + 1, q + t)[i] = y[q + i]
  BY <1>1
<1> QED
  BY <1>2, <1>3, <1>4

(* The bytes of the next t octets of frame n + 1, behind the first q, and the
   message that gets them. *)
NextBytes(n, q, t, msg, bytes) ==
  /\ n < Len(stream) /\ q + t <= Len(stream[n + 1].payload)
  /\ msg.key = n + 1 /\ msg.rotation = q % 4
  /\ bytes = Bytes(Start(n) + q + 1, Start(n) + q + t)

(* Unmasked, the next bytes are the next octets of the payload. *)
LEMMA UnmaskedIs ==
  ASSUME stream \in Streams, NEW n \in 0..Len(stream), NEW q \in Nat,
         NEW t \in Nat, NEW msg, NEW bytes, NextBytes(n, q, t, msg, bytes)
  PROVE  /\ Unmasked(bytes, msg) = SubSeq(PayloadOf(n + 1), q + 1, q + t)
         /\ SubSeq(PayloadOf(n + 1), q + 1, q + t) \in Seq(Cells)
         /\ Len(SubSeq(PayloadOf(n + 1), q + 1, q + t)) = t
         /\ Len(bytes) = t
         /\ \A i \in 1..t :
              Octet(bytes[i])
                = Octets(SubSeq(PayloadOf(n + 1), q + 1, q + t))[i]
<1>0. /\ n < Len(stream) /\ q + t <= Len(stream[n + 1].payload)
      /\ msg.key = n + 1 /\ msg.rotation = q % 4
      /\ bytes = Bytes(Start(n) + q + 1, Start(n) + q + t)
  BY DEF NextBytes
<1> DEFINE a == End(n)
           b == Start(n)
           c == End(n + 1)
           z == End(Len(stream))
           e == ExtendedLength(stream[n + 1])
           l == Len(stream[n + 1].payload)
           w == Frames(Len(stream))
           y == PayloadOf(n + 1)
           s == SubSeq(y, q + 1, q + t)
           u == Unmasked(bytes, msg)
<1>1. /\ n \in Nat /\ n + 1 \in 1..Len(stream)
      /\ a \in Nat /\ b \in Nat /\ c \in Nat /\ z \in Nat /\ c <= z
      /\ b = a + 2 + e /\ c = b + l /\ l \in Nat /\ e \in Nat
  <2>1. n + 1 \in 1..Len(stream)
    BY <1>0, Layout
  <2>2. e \in Nat
    BY <2>1, FrameTyped, LengthTyped
  <2> QED
    BY <1>0, <2>2, Layout
<1>2. /\ y \in Seq(Cells) /\ Len(y) = l
      /\ \A i \in 1..l :
           y[i] = [byte |-> [frame |-> n + 1, at |-> 2 + e + i],
                   key |-> n + 1, rotation |-> (i - 1) % 4]
  BY <1>1, PayloadTyped
<1>3. q + t <= l
  BY <1>0
<1>4. ASSUME NEW x \in Nat, a < x, x <= c
      PROVE  w[x] = [frame |-> n + 1, at |-> x - a]
  BY <1>0, <1>4, ByteOfFrame
<1> HIDE DEF a, b, c, z, e, l, w, y
<1>5. /\ b + q + 1 \in Nat /\ b + q + t \in Nat /\ 1 <= b + q + 1
      /\ b + q + 1 <= (b + q + t) + 1 /\ b + q + t <= z
      /\ ((b + q + t) - (b + q + 1)) + 1 = t
  BY <1>1, <1>3
<1>6. /\ Len(bytes) = t
      /\ \A i \in 1..t : bytes[i] = w[((b + q + 1) + i) - 1]
  BY <1>0, <1>5, BytesAre DEF b, w, z
<1>7. ASSUME NEW i \in 1..t
      PROVE  bytes[i] = [frame |-> n + 1, at |-> 2 + e + (q + i)]
  <2> DEFINE x == ((b + q + 1) + i) - 1
  <2>1. x \in Nat /\ a < x /\ x <= c /\ x - a = 2 + e + (q + i)
    BY <1>1, <1>3
  <2>2. bytes[i] = w[x]
    BY <1>6
  <2> HIDE DEF x
  <2>3. w[x] = [frame |-> n + 1, at |-> x - a]
    BY <1>4, <2>1
  <2> QED
    BY <2>1, <2>2, <2>3
<1>8. /\ s \in Seq(Cells) /\ Len(s) = t
      /\ \A i \in 1..t : s[i] = y[q + i]
  BY <1>2, <1>3, Slice
<1>9. ASSUME NEW i \in 1..t
      PROVE  u[i] = s[i]
  <2>1. q + i \in 1..l
    BY <1>1, <1>3
  <2>2. s[i] = [byte |-> [frame |-> n + 1, at |-> 2 + e + (q + i)],
                key |-> n + 1, rotation |-> (q + i - 1) % 4]
    BY <1>2, <1>8, <2>1
  <2>3. u[i] = [byte |-> bytes[i], key |-> msg.key,
                rotation |-> (msg.rotation + i - 1) % 4]
    BY <1>6 DEF Unmasked
  <2>4. msg.key = n + 1 /\ msg.rotation = q % 4
    BY <1>0
  <2>5. ((q % 4) + i - 1) % 4 = (q + i - 1) % 4
    <3>1. i - 1 \in Nat
      OBVIOUS
    <3>2. ((q % 4) + (i - 1)) % 4 = (q + (i - 1)) % 4 /\ q % 4 \in Nat
      BY <3>1, Turned
    <3>3. (q % 4) + i - 1 = (q % 4) + (i - 1) /\ q + i - 1 = q + (i - 1)
      BY <3>2
    <3> QED
      BY <3>2, <3>3
  <2> QED
    BY <1>7, <2>2, <2>3, <2>4, <2>5
<1>10. u = s
  <2>1. u = [i \in 1..t |-> u[i]]
    BY <1>6 DEF Unmasked
  <2>2. s = [i \in 1..t |-> s[i]]
    <3> HIDE DEF s
    <3> QED
      BY <1>8
  <2> HIDE DEF u, s
  <2> QED
    BY <1>9, <2>1, <2>2
<1>11. ASSUME NEW i \in 1..t
       PROVE  Octet(bytes[i]) = Octets(s)[i]
  <2>1. q + i \in 1..l
    BY <1>1, <1>3
  <2>2. s[i].byte = bytes[i]
    BY <1>2, <1>7, <1>8, <2>1
  <2> HIDE DEF s
  <2>3. Octets(s)[i] = Octet(s[i].byte)
    BY <1>8, OctetsAre
  <2> QED
    BY <2>2, <2>3
<1> QED
  BY <1>6, <1>8, <1>10, <1>11 DEF b, y

(* The message with q octets of a frame, and with t more of them. *)
LEMMA PartialIs ==
  ASSUME stream \in Streams, NEW n \in 0..Len(stream), n < Len(stream),
         NEW q \in Nat, NEW t \in Nat, q + t <= Len(stream[n + 1].payload)
  PROVE  /\ Partial(n + 1, q).payload \in Seq(Cells)
         /\ Partial(n + 1, q).opcode = MessageWith(Meaning[n], n + 1).opcode
         /\ Partial(n + 1, q + t).payload
              = Partial(n + 1, q).payload
                  \o SubSeq(PayloadOf(n + 1), q + 1, q + t)
         /\ q + t = Len(stream[n + 1].payload) =>
              Partial(n + 1, q + t) = MessageWith(Meaning[n], n + 1)
         /\ q = 0 => Partial(n + 1, q).payload = Before(n + 1)
<1> DEFINE w == MessageWith(Meaning[n], n + 1)
           y == PayloadOf(n + 1)
           s == Before(n + 1)
           l == Len(stream[n + 1].payload)
           u == SubSeq(y, 1, q)
           v == SubSeq(y, q + 1, q + t)
           x == SubSeq(y, 1, q + t)
<1>1. /\ (n + 1) - 1 = n /\ s \in Seq(Cells) /\ y \in Seq(Cells) /\ Len(y) = l
      /\ w \in Messages /\ w.payload = s \o y
  BY MessageIs
<1>2. ASSUME NEW r
      PROVE  /\ Partial(n + 1, r).opcode = w.opcode
             /\ Partial(n + 1, r).payload = s \o SubSeq(y, 1, r)
             /\ Partial(n + 1, r) = [opcode |-> w.opcode,
                                     payload |-> s \o SubSeq(y, 1, r)]
  BY <1>1 DEF Partial
<1>3. q + t <= l /\ l \in Nat
  BY Layout
<1> HIDE DEF w, y, s, l
<1>4. u \in Seq(Cells) /\ v \in Seq(Cells) /\ x \in Seq(Cells)
  BY <1>1, <1>3
<1>5. x = u \o v
  <2>1. q <= l /\ 0 + q <= l /\ 0 + (q + t) <= l /\ q + t \in Nat
    BY <1>3
  <2>2. Len(u) = q /\ \A i \in 1..q : u[i] = y[i]
    <3>1. /\ Len(SubSeq(y, 0 + 1, 0 + q)) = q
          /\ \A i \in 1..q : SubSeq(y, 0 + 1, 0 + q)[i] = y[0 + i]
      BY <1>1, <2>1, Slice
    <3>2. 0 + 1 = 1 /\ 0 + q = q /\ \A i \in 1..q : 0 + i = i
      OBVIOUS
    <3> QED
      BY <3>1, <3>2
  <2>3. Len(v) = t /\ \A i \in 1..t : v[i] = y[q + i]
    <3>1. y \in Seq(Cells) /\ q + t <= Len(y)
      BY <1>1, <1>3
    <3> QED
      BY ONLY q \in Nat, t \in Nat, <3>1, Slice
  <2>4. Len(x) = q + t /\ \A i \in 1..(q + t) : x[i] = y[i]
    <3>1. /\ Len(SubSeq(y, 0 + 1, 0 + (q + t))) = q + t
          /\ \A i \in 1..(q + t) : SubSeq(y, 0 + 1, 0 + (q + t))[i] = y[0 + i]
      BY <1>1, <2>1, Slice
    <3>2. /\ 0 + 1 = 1 /\ 0 + (q + t) = q + t
          /\ \A i \in 1..(q + t) : 0 + i = i
      OBVIOUS
    <3> QED
      BY <3>1, <3>2
  <2>5. /\ Len(u) = q /\ Len(v) = t /\ Len(x) = q + t
        /\ \A i \in 1..q : u[i] = y[i]
        /\ \A i \in 1..t : v[i] = y[q + i]
        /\ \A i \in 1..(q + t) : x[i] = y[i]
    BY <2>2, <2>3, <2>4
  <2> HIDE DEF u, v, x
  <2>6. u \in Seq(Cells) /\ v \in Seq(Cells)
    BY <1>4
  <2>7. /\ u \o v \in Seq(Cells) /\ Len(u \o v) = Len(u) + Len(v)
        /\ \A i \in 1..Len(u) : (u \o v)[i] = u[i]
        /\ \A i \in 1..Len(v) : (u \o v)[Len(u) + i] = v[i]
    BY <2>6, Joined
  <2>8. /\ u \o v \in Seq(Cells) /\ Len(u \o v) = q + t
        /\ \A i \in 1..q : (u \o v)[i] = u[i]
        /\ \A i \in 1..t : (u \o v)[q + i] = v[i]
    BY <2>5, <2>7
  <2>9. ASSUME NEW i \in 1..(q + t)
        PROVE  x[i] = (u \o v)[i]
    <3>1. i \in 1..q \/ \E j \in 1..t : i = q + j
      <4>1. i \in 1..q \/ (i - q \in 1..t /\ i = q + (i - q))
        OBVIOUS
      <4> QED
        BY <4>1
    <3>2. x[i] = y[i]
      BY <2>5
    <3>3. CASE i \in 1..q
      BY <2>5, <2>8, <3>2, <3>3
    <3>4. CASE \E j \in 1..t : i = q + j
      <4>1. PICK j \in 1..t : i = q + j
        BY <3>4
      <4>2. (u \o v)[q + j] = v[j] /\ v[j] = y[q + j]
        BY <2>5, <2>8
      <4> QED
        BY <3>2, <4>1, <4>2
    <3> QED
      BY <3>1, <3>3, <3>4
  <2>10. x \in Seq(Cells) /\ u \o v \in Seq(Cells) /\ Len(x) = Len(u \o v)
    BY <1>4, <2>5, <2>8
  <2>11. \A i \in 1..Len(x) : x[i] = (u \o v)[i]
    BY <2>5, <2>9
  <2> QED
    BY <2>10, <2>11, SeqEqual
<1> HIDE DEF u, v, x
<1>6. s \o (u \o v) = (s \o u) \o v
  <2>1. s \in Seq(Cells) /\ u \in Seq(Cells) /\ v \in Seq(Cells)
    BY <1>1, <1>4
  <2>2. (s \o u) \o v = s \o (u \o v)
    BY <2>1
  <2> QED
    BY <2>2
<1>7. s \o u \in Seq(Cells)
  BY <1>1, <1>4
<1>8. q + t = l => Partial(n + 1, q + t) = w
  <2>1. q + t = l => x = y
    BY <1>1, SubSeqFull DEF x
  <2>2. w = [opcode |-> w.opcode, payload |-> w.payload]
    BY <1>1 DEF Messages
  <2> QED
    BY <1>1, <1>2, <2>1, <2>2 DEF x
<1>9. q = 0 => s \o u = s
  <2>1. q = 0 => u = <<>>
    BY <1>1 DEF u
  <2>2. s \o <<>> = s
    BY <1>1
  <2> QED
    BY <2>1, <2>2
<1> QED
  BY <1>2, <1>5, <1>6, <1>7, <1>8, <1>9 DEF w, y, s, l, u, v, x

(* A message that has gone wrong stays wrong. *)
LEMMA RejectedMessage ==
  ASSUME stream \in Streams, NEW n \in 0..Len(stream), n < Len(stream),
         NEW q \in Nat, q <= Len(stream[n + 1].payload),
         StateOf(Partial(n + 1, q)) = "reject"
  PROVE  ~LegalAfter(Meaning[n], n + 1)
<1> DEFINE w == MessageWith(Meaning[n], n + 1)
           l == Len(stream[n + 1].payload)
           t == l - q
           r == SubSeq(PayloadOf(n + 1), q + 1, q + t)
           s == Partial(n + 1, q).payload
<1>1. l \in Nat
  BY Layout
<1>2. t \in Nat /\ q + t = l /\ q + t <= l
  <2> HIDE DEF l
  <2>1. q <= l
    BY DEF l
  <2> QED
    BY <1>1, <2>1
<1>3. r \in Seq(Cells)
  <2>1. PayloadOf(n + 1) \in Seq(Cells) /\ Len(PayloadOf(n + 1)) = l
    BY MessageIs
  <2> HIDE DEF l, t
  <2> QED
    BY <1>1, <1>2, <2>1
<1> HIDE DEF t
<1>4. /\ s \in Seq(Cells) /\ Partial(n + 1, q).opcode = w.opcode
      /\ Partial(n + 1, q + t).payload = s \o r
      /\ Partial(n + 1, q + t) = w
  BY <1>2, PartialIs
<1>5. w.payload = s \o r
  BY <1>4
<1> HIDE DEF r, s
<1>6. /\ Octets(s) \in Seq(Letters) /\ Octets(r) \in Seq(Letters)
      /\ Octets(s \o r) = Octets(s) \o Octets(r)
  BY <1>3, <1>4, OctetsAre, OctetsJoined
<1>7. /\ Partial(n + 1, q).opcode = "TEXT"
      /\ Validated(Octets(s)) = "reject"
  BY DEF StateOf, s
<1>8. Validated(Octets(s \o r)) = "reject"
  BY <1>6, <1>7, RejectedForGood
<1>9. StateOf(w) = "reject"
  <2> HIDE DEF w
  <2> QED
    BY <1>4, <1>5, <1>7, <1>8 DEF StateOf
<1> QED
  BY <1>9, LegalIs

(* process_payload_bytes: the message gets the next t octets. *)
LEMMA Processed ==
  ASSUME stream \in Streams, NEW n \in 0..Len(stream), n < Len(stream),
         NEW q \in Nat, NEW t \in Nat, q + t <= Len(stream[n + 1].payload),
         CurrentMsg = Stored(Partial(n + 1, q), n + 1, q % 4),
         Taken = t, TakenBytes = Bytes(Start(n) + q + 1, Start(n) + q + t)
  PROVE  Process = Stored(Partial(n + 1, q + t), n + 1, (q + t) % 4)
<1> DEFINE msg == CurrentMsg
           a == Partial(n + 1, q)
           b == Partial(n + 1, q + t)
           r == SubSeq(PayloadOf(n + 1), q + 1, q + t)
           bytes == TakenBytes
<1>1. /\ msg = [opcode |-> a.opcode, payload |-> a.payload, key |-> n + 1,
                rotation |-> q % 4, utf8 |-> StateOf(a)]
  BY DEF Stored
<1>2. msg.key = n + 1 /\ msg.rotation = q % 4
  BY <1>1
<1>3. /\ Unmasked(bytes, msg) = r /\ r \in Seq(Cells) /\ Len(r) = t
      /\ Len(bytes) = t
      /\ \A i \in 1..t : Octet(bytes[i]) = Octets(r)[i]
  <2>1. NextBytes(n, q, t, msg, bytes)
    BY <1>2 DEF NextBytes
  <2> HIDE DEF msg, bytes
  <2>2. /\ Unmasked(bytes, msg) = SubSeq(PayloadOf(n + 1), q + 1, q + t)
        /\ SubSeq(PayloadOf(n + 1), q + 1, q + t) \in Seq(Cells)
        /\ Len(SubSeq(PayloadOf(n + 1), q + 1, q + t)) = t
        /\ Len(bytes) = t
    <3> HIDE DEF r, a, b
    <3> QED
      BY ONLY stream \in Streams, n \in 0..Len(stream), q \in Nat, t \in Nat,
              <2>1, UnmaskedIs
  <2>3. \A i \in 1..t : Octet(bytes[i])
                           = Octets(SubSeq(PayloadOf(n + 1), q + 1, q + t))[i]
    <3> HIDE DEF r, a, b
    <3> QED
      BY ONLY stream \in Streams, n \in 0..Len(stream), q \in Nat, t \in Nat,
              <2>1, UnmaskedIs
  <2> QED
    BY <2>2, <2>3
<1>4. /\ a.payload \in Seq(Cells) /\ b.opcode = a.opcode
      /\ b.payload = a.payload \o r
  <2>1. q + t + 0 <= Len(stream[n + 1].payload) /\ q + t \in Nat
    OBVIOUS
  <2>2. b.opcode = MessageWith(Meaning[n], n + 1).opcode
    BY <2>1, PartialIs
  <2> QED
    BY <2>2, PartialIs
<1> HIDE DEF msg, a, b, r, bytes
<1>5. /\ Octets(a.payload) \in Seq(Letters) /\ Octets(r) \in Seq(Letters)
      /\ Octets(a.payload \o r) = Octets(a.payload) \o Octets(r)
      /\ Len(Octets(r)) = t
  BY <1>3, <1>4, OctetsAre, OctetsJoined
<1>6. Decode(Validated(Octets(a.payload)), bytes)
        = Validated(Octets(a.payload) \o Octets(r))
  BY <1>3, <1>5, DecodeIs
<1>7. (IF msg.opcode = "TEXT" THEN Decode(msg.utf8, bytes) ELSE msg.utf8)
        = StateOf(b)
  <2>1. msg.opcode = a.opcode /\ msg.utf8 = StateOf(a)
    BY <1>1
  <2>2. CASE a.opcode = "TEXT"
    BY <1>4, <1>5, <1>6, <2>1, <2>2 DEF StateOf
  <2>3. CASE a.opcode # "TEXT"
    BY <1>4, <2>1, <2>3 DEF StateOf
  <2> QED
    BY <2>2, <2>3
<1>8. ((q % 4) + t) % 4 = (q + t) % 4
  BY Turned
<1>9. Process = [msg EXCEPT
                   !.payload = @ \o Unmasked(bytes, msg),
                   !.rotation = (@ + t) % 4,
                   !.utf8 = IF msg.opcode = "TEXT" THEN Decode(@, bytes) ELSE @]
  BY DEF Process, msg, bytes
<1>10. Process = [opcode |-> a.opcode, payload |-> a.payload \o r,
                  key |-> n + 1, rotation |-> ((q % 4) + t) % 4,
                  utf8 |-> StateOf(b)]
  BY <1>1, <1>3, <1>7, <1>9
<1> QED
  BY <1>4, <1>8, <1>10 DEF Stored, b

-----------------------------------------------------------------------------
(* One iteration of the loop, in state s of the parser, behind n frames and q
   bytes, takes t bytes. *)
Takes(s, n, q, t) ==
  /\ stream \in Streams /\ n < Len(stream) /\ ~Meaning[n].error
  /\ At(n, s, q, m_bytes_needed, m_basic_header, m_extended_header,
        m_data_msg, m_control_msg, m_current_msg)
  /\ End(n) <= q /\ q = p /\ t = Taken /\ t <= m_bytes_needed
  /\ m_bytes_needed \in Nat
  /\ q + t <= arrived /\ q + t <= End(Len(stream)) /\ arrived \in Nat
  /\ TakenBytes = Bytes(q + 1, q + t)
  /\ ~ec /\ hybi_state = s /\ delivered = Meaning[n].out

(* What every iteration does with p and the bytes it takes. *)
LEMMA Taking ==
  ASSUME NEW s \in {"HEADER_BASIC", "HEADER_EXTENDED", "APPLICATION"},
         ReaderInv, Iteration(s)
  PROVE  /\ \E n \in 0..Len(stream) : \E q, t \in Nat :
              Takes(s, n, q, t) /\ p' = q + t
         /\ stream' = stream /\ arrived' = arrived /\ delivered' = delivered
         /\ p' \in Nat /\ p' <= arrived'
         /\ arrived \in Nat /\ arrived <= End(Len(stream)) /\ ec = FALSE
<1> DEFINE z == End(Len(stream))
<1>1. /\ stream \in Streams /\ p \in Nat /\ arrived \in Nat /\ p <= arrived
      /\ arrived <= z /\ ec \in BOOLEAN
      /\ ~ec /\ hybi_state = s /\ (p < arrived \/ m_bytes_needed = 0)
      /\ p' = p + Taken /\ stream' = stream /\ arrived' = arrived
      /\ delivered' = delivered
  BY DEF ReaderInv, Iteration, Consuming
<1>2. PICK n \in 0..Len(stream) :
        /\ ~Meaning[n].error /\ delivered = Meaning[n].out /\ End(n) <= p
        /\ At(n, s, p, m_bytes_needed, m_basic_header, m_extended_header,
              m_data_msg, m_control_msg, m_current_msg)
  BY <1>1 DEF ReaderInv
<1>3. End(n) \in Nat /\ z \in Nat
  BY <1>1, FramesInPlace
<1>4. n < Len(stream) /\ m_bytes_needed \in Nat
  <2>1. CASE s = "HEADER_BASIC"
    <3>1. InBasic(n, p, m_bytes_needed, m_basic_header, m_extended_header,
                  m_data_msg)
      BY <1>2, <2>1 DEF At
    <3>2. p < End(n) + 2 /\ m_bytes_needed = End(n) + 2 - p
      BY <3>1 DEF InBasic
    <3> DEFINE a == End(n)
    <3> HIDE DEF a, z
    <3>3. m_bytes_needed \in Nat /\ a < z
      <4>1. a + 2 - p \in Nat /\ a + 2 - p # 0
        BY <1>1, <1>2, <1>3, <3>2 DEF a
      <4>2. p < arrived
        BY <1>1, <3>2, <4>1 DEF a
      <4> QED
        BY <1>1, <1>2, <1>3, <3>2, <4>1, <4>2 DEF a
    <3>4. n # Len(stream)
      BY <1>3, <3>3 DEF a, z
    <3>5. Len(stream) \in Nat
      BY <1>1, FrameTyped
    <3> QED
      BY <3>3, <3>4, <3>5
  <2>2. CASE s = "HEADER_EXTENDED"
    <3>1. InExtended(n, p, m_bytes_needed, m_basic_header, m_extended_header,
                     m_data_msg)
      BY <1>2, <2>2 DEF At
    <3>2. n < Len(stream) /\ p < Start(n) /\ m_bytes_needed = Start(n) - p
      BY <3>1 DEF InExtended
    <3>3. Start(n) \in Nat
      BY <1>1, <3>2, Layout
    <3> QED
      BY <1>1, <3>2, <3>3
  <2>3. CASE s = "APPLICATION"
    <3>1. InPayload(n, p, m_bytes_needed, m_basic_header, m_data_msg,
                    m_control_msg, m_current_msg)
      BY <1>2, <2>3 DEF At
    <3>2. n < Len(stream) /\ p <= End(n + 1) /\ m_bytes_needed = End(n + 1) - p
      BY <3>1 DEF InPayload
    <3>3. End(n + 1) \in Nat
      BY <1>1, <3>2, Layout
    <3> QED
      BY <1>1, <3>2, <3>3
  <2> QED
    BY <2>1, <2>2, <2>3
<1>5. /\ Taken \in Nat /\ Taken <= m_bytes_needed
      /\ p + Taken <= arrived /\ p + Taken \in Nat
  BY <1>1, <1>4, TakenIs
<1>6. PICK q \in Nat : q = p
  BY <1>1
<1>7. PICK t \in Nat : t = Taken
  BY <1>5
<1>8. q + t <= arrived /\ q + t \in Nat /\ q + t <= z
  <2>1. q + t <= arrived /\ q + t \in Nat
    BY <1>5, <1>6, <1>7
  <2> HIDE DEF z
  <2> QED
    BY <1>1, <1>3, <2>1
<1>9. TakenBytes = Bytes(q + 1, q + t)
  BY <1>6, <1>7 DEF TakenBytes
<1>10. Takes(s, n, q, t)
  BY <1>1, <1>2, <1>4, <1>5, <1>6, <1>7, <1>8, <1>9 DEF Takes
<1>11. p' = q + t
  BY <1>1, <1>6, <1>7
<1>12. p' \in Nat /\ p' <= arrived'
  BY <1>1, <1>8, <1>11
<1> QED
  BY <1>1, <1>10, <1>11, <1>12

(* What frame n + 1 adds to the meaning. *)
LEMMA NextMeaning ==
  ASSUME stream \in Streams, NEW n \in 0..Len(stream), n < Len(stream),
         ~Meaning[n].error
  PROVE  /\ ~LegalAfter(Meaning[n], n + 1) => Meaning[n + 1].error
         /\ LegalAfter(Meaning[n], n + 1) /\ ~stream[n + 1].fin =>
              /\ ~Meaning[n + 1].error /\ Meaning[n + 1].out = Meaning[n].out
              /\ Meaning[n + 1].open = MessageWith(Meaning[n], n + 1)
         /\ LegalAfter(Meaning[n], n + 1) /\ stream[n + 1].fin =>
              /\ ~Meaning[n + 1].error
              /\ Meaning[n + 1].out
                   = Append(Meaning[n].out, MessageWith(Meaning[n], n + 1))
              /\ Meaning[n + 1].open
                   = IF IsControl(stream[n + 1].opcode) THEN Meaning[n].open
                     ELSE Nobody
<1>1. n + 1 \in 1..Len(stream) /\ (n + 1) - 1 = n /\ Len(stream) \in Nat
  BY Layout, FrameTyped
<1>2. Meaning[n + 1] = After(Meaning[n], n + 1)
  BY <1>1, MeaningIs
<1>3. Meaning[n] \in Meanings
  BY MeaningTyped
<1> QED
  BY <1>1, <1>2, <1>3, AfterIs

(* An iteration in HEADER_BASIC. *)
LEMMA BasicHeaderRead ==
  ASSUME ReaderInv, ReadBasicHeader
  PROVE  ReaderInv'
<1>1. Iteration("HEADER_BASIC")
  BY DEF ReadBasicHeader
<1>2. /\ stream' = stream /\ arrived' = arrived /\ delivered' = delivered
      /\ p' \in Nat /\ p' <= arrived'
      /\ arrived' \in Nat /\ arrived' <= End(Len(stream)) /\ ec = FALSE
      /\ \E n \in 0..Len(stream) : \E q, t \in Nat :
           Takes("HEADER_BASIC", n, q, t) /\ p' = q + t
  BY <1>1, Taking
<1>3. PICK n \in 0..Len(stream), q \in Nat, t \in Nat :
        Takes("HEADER_BASIC", n, q, t) /\ p' = q + t
  BY <1>2
<1> DEFINE a == End(n)
           b == Start(n)
           z == End(Len(stream))
<1>4. /\ stream \in Streams /\ n < Len(stream) /\ ~Meaning[n].error
      /\ a <= q /\ t = Taken /\ t <= m_bytes_needed
      /\ q + t <= z /\ TakenBytes = Bytes(q + 1, q + t)
      /\ hybi_state = "HEADER_BASIC" /\ delivered = Meaning[n].out
      /\ q < a + 2 /\ m_bytes_needed = a + 2 - q
      /\ m_basic_header = Bytes(a + 1, q) /\ m_extended_header = <<>>
      /\ HeldOpen(n, m_data_msg)
  BY <1>3 DEF Takes, At, InBasic
<1>5. /\ a \in Nat /\ b \in Nat /\ a + 2 <= b /\ z \in Nat
      /\ a + 2 <= End(n + 1) /\ End(n + 1) \in Nat
      /\ b = a + 2 + ExtendedLength(stream[n + 1])
      /\ stream[n + 1].masked => a + 6 <= b
      /\ n + 1 \in 1..Len(stream)
  BY <1>4, Layout
<1>6. m_basic_header \o TakenBytes = Bytes(a + 1, q + t)
  <2>1. /\ a + 1 \in Nat /\ 1 <= a + 1 /\ a + 1 <= q + 1 /\ q <= q + t
        /\ q + t \in Nat
    <3> HIDE DEF a
    <3> QED
      BY <1>4, <1>5
  <2> QED
    BY <1>4, <2>1, BytesJoined
<1>7. /\ m_basic_header' = Bytes(a + 1, q + t)
      /\ UNCHANGED <<m_extended_header, m_data_msg, m_control_msg,
                     m_current_msg>>
  BY <1>6 DEF ReadBasicHeader
<1>8. a <= p'
  <2>1. a <= q + t
    <3> HIDE DEF a
    <3> QED
      BY <1>4, <1>5
  <2> QED
    BY <1>3, <2>1
<1>9. CASE /\ m_bytes_needed > Taken
           /\ m_bytes_needed' = m_bytes_needed - Taken
           /\ UNCHANGED <<hybi_state, ec>>
  <2>1. q + t < a + 2 /\ (a + 2 - q) - t = a + 2 - (q + t)
    <3>1. a + 2 - q > t
      BY <1>4, <1>9
    <3> HIDE DEF a
    <3> QED
      BY <1>4, <1>5, <3>1
  <2>2. InBasic(n, q + t, (a + 2 - q) - t, Bytes(a + 1, q + t), <<>>,
                m_data_msg)
    BY <1>4, <2>1 DEF InBasic
  <2>3. m_bytes_needed' = (a + 2 - q) - t
    BY <1>4, <1>9
  <2>4. InBasic(n, p', m_bytes_needed', m_basic_header', m_extended_header',
                m_data_msg')
    BY <1>3, <1>4, <1>7, <2>2, <2>3
  <2>5. At(n, hybi_state', p', m_bytes_needed', m_basic_header',
           m_extended_header', m_data_msg', m_control_msg', m_current_msg')
    BY <1>4, <1>9, <2>4 DEF At
  <2>6. delivered' = Meaning[n].out /\ ec' = FALSE
    BY <1>2, <1>4, <1>9
  <2> QED
    BY <1>2, <1>4, <1>8, <2>5, <2>6, GoesOn
<1>10. ASSUME m_bytes_needed = Taken
       PROVE  /\ q + t = a + 2
              /\ m_basic_header' = Bytes(a + 1, a + 2)
              /\ BasicHeaderOK(m_basic_header', m_data_msg = NoMessage)
                   <=> BasicLegal(n + 1)
              /\ HeaderLen(m_basic_header') = ExtendedLength(stream[n + 1])
  <2>1. q + t = a + 2
    <3>1. a + 2 - q = t
      BY <1>4, <1>10
    <3> HIDE DEF a
    <3> QED
      BY <1>4, <1>5, <3>1
  <2>2. m_basic_header' = Bytes(a + 1, a + 2)
    BY <1>7, <2>1
  <2>3. PICK basic : basic = m_basic_header'
    OBVIOUS
  <2>4. /\ BasicHeaderOK(basic, m_data_msg = NoMessage) <=> BasicLegal(n + 1)
        /\ HeaderLen(basic) = ExtendedLength(stream[n + 1])
    BY <1>4, <2>2, <2>3, BasicHeaderIs
  <2> QED
    BY <2>1, <2>2, <2>3, <2>4
<1>11. CASE /\ m_bytes_needed = Taken
            /\ BasicHeaderOK(m_basic_header', m_data_msg = NoMessage)
            /\ hybi_state' = "HEADER_EXTENDED"
            /\ m_bytes_needed' = HeaderLen(m_basic_header')
            /\ UNCHANGED ec
  <2> DEFINE e == ExtendedLength(stream[n + 1])
  <2>1. /\ q + t = a + 2 /\ m_basic_header' = Bytes(a + 1, a + 2)
        /\ BasicLegal(n + 1) /\ m_bytes_needed' = e
    BY <1>10, <1>11
  <2>2. stream[n + 1].masked
    BY <2>1 DEF BasicLegal
  <2>3. e \in Nat
    BY <1>4, <1>5, FrameTyped, LengthTyped
  <2>4. a + 2 < b /\ e = b - (a + 2)
    <3> HIDE DEF a, b, e
    <3>1. b = a + 2 + e /\ a + 6 <= b
      BY <1>5, <2>2 DEF a, b, e
    <3> QED
      BY <1>5, <2>3, <3>1
  <2>5. Bytes(a + 3, a + 2) = <<>>
    <3>1. /\ a + 3 \in Nat /\ a + 2 \in Nat /\ 1 <= a + 3
          /\ a + 3 <= (a + 2) + 1 /\ a + 2 <= z /\ ((a + 2) - (a + 3)) + 1 = 0
      <4> HIDE DEF a, z
      <4> QED
        BY <1>4, <1>5, <2>1
    <3>2. Bytes(a + 3, a + 2) \in Seq(Place) /\ Len(Bytes(a + 3, a + 2)) = 0
      BY <1>4, <3>1, BytesAre
    <3> QED
      BY <3>2
  <2>6. InExtended(n, a + 2, e, Bytes(a + 1, a + 2), <<>>, m_data_msg)
    <3>1. a + 2 <= a + 2
      BY <1>5
    <3> QED
      BY <1>4, <2>1, <2>4, <2>5, <3>1 DEF InExtended
  <2>7. InExtended(n, p', m_bytes_needed', m_basic_header', m_extended_header',
                   m_data_msg')
    BY <1>3, <1>4, <1>7, <2>1, <2>6
  <2>8. At(n, hybi_state', p', m_bytes_needed', m_basic_header',
           m_extended_header', m_data_msg', m_control_msg', m_current_msg')
    BY <1>11, <2>7 DEF At
  <2>9. delivered' = Meaning[n].out /\ ec' = FALSE
    BY <1>2, <1>4, <1>11
  <2> QED
    BY <1>2, <1>4, <1>8, <2>8, <2>9, GoesOn
<1>12. CASE /\ m_bytes_needed = Taken
            /\ ~BasicHeaderOK(m_basic_header', m_data_msg = NoMessage)
            /\ m_bytes_needed' = 0 /\ ec' = TRUE
            /\ UNCHANGED hybi_state
  <2>1. ~BasicLegal(n + 1) /\ q + t = a + 2
    BY <1>10, <1>12
  <2>2. ~LegalAfter(Meaning[n], n + 1)
    BY <1>4, <2>1, LegalIs DEF HeaderLegal
  <2>3. Meaning[n + 1].error
    BY <1>4, <2>2, NextMeaning
  <2>4. Refused(n, p', delivered')
    <3>1. p' <= End(n + 1)
      BY <1>3, <1>5, <2>1
    <3> QED
      BY <1>2, <1>4, <2>3, <3>1 DEF Refused
  <2> QED
    BY <1>2, <1>4, <1>12, <2>4, Refuses
<1> QED
  BY <1>9, <1>11, <1>12 DEF ReadBasicHeader

(* The message that frame n + 1 is for, before the first octet. *)
LEMMA MessageChosen ==
  ASSUME stream \in Streams, NEW n \in 0..Len(stream), n < Len(stream),
         m_basic_header = Bytes(End(n) + 1, End(n) + 2),
         NEW extended, extended = Bytes(End(n) + 3, Start(n)),
         HeldOpen(n, m_data_msg), HeaderLegal(n + 1), ChooseMessage(extended)
  PROVE  /\ StateOf(Partial(n + 1, 0)) # "reject"
         /\ InHand(n, Stored(Partial(n + 1, 0), n + 1, 0), m_data_msg',
                   m_control_msg', m_current_msg')
<1> DEFINE f == stream[n + 1]
           open == Meaning[n].open
           a == Partial(n + 1, 0)
           new == [opcode |-> f.opcode, payload |-> <<>>, key |-> n + 1,
                   rotation |-> 0, utf8 |-> "accept"]
<1>1. /\ SentIn(m_basic_header, 1) = f
      /\ f.masked => extended[1].frame = n + 1
  BY HeaderSays
<1>2. extended[1].frame = n + 1
  BY <1>1 DEF HeaderLegal, BasicLegal
<1>3. NewMessage(extended) = new
  BY <1>1, <1>2 DEF NewMessage
<1>4. /\ (n + 1) - 1 = n /\ Meaning[n] \in Meanings
      /\ 0 + 0 <= Len(f.payload)
  <2>1. Len(f.payload) \in Nat
    BY Layout
  <2>2. 0 + 0 <= Len(f.payload)
    <3> HIDE DEF f
    <3> QED
      BY <2>1
  <2>3. (n + 1) - 1 = n /\ Meaning[n] \in Meanings
    BY MessageIs
  <2> QED
    BY <2>2, <2>3
<1>5. /\ a.payload = Before(n + 1)
      /\ a.opcode = MessageWith(Meaning[n], n + 1).opcode
  BY <1>4, PartialIs
<1>6. a = [opcode |-> a.opcode, payload |-> a.payload]
  BY DEF Partial
<1>7. /\ StateOf(open) # "reject"
      /\ open = Nobody => m_data_msg = NoMessage
      /\ m_data_msg = Stored(open, m_data_msg.key, m_data_msg.rotation)
  BY DEF HeldOpen
<1>8. m_data_msg = NoMessage => open = Nobody
  <2>1. open = Nobody \/ open.opcode \in Opcodes
    BY <1>4 DEF Meanings
  <2>2. m_data_msg.opcode = open.opcode
    BY <1>7 DEF Stored
  <2>3. NoMessage.opcode = "none" /\ "none" \notin Opcodes
    BY DEF NoMessage, Opcodes
  <2> QED
    BY <2>1, <2>2, <2>3
<1>9. ASSUME NEW msg, msg.payload = <<>>
      PROVE  StateOf(msg) = "accept"
  <2>1. Octets(<<>>) = <<>>
    BY DEF Octets
  <2>2. Validated(<<>>) = "accept"
    BY DEF Validated
  <2> QED
    BY <1>9, <2>1, <2>2 DEF StateOf
<1>10. CASE IsControl(f.opcode)
  <2>1. /\ m_control_msg' = new /\ m_current_msg' = "control"
        /\ m_data_msg' = m_data_msg
    BY <1>1, <1>3, <1>10 DEF ChooseMessage
  <2>2. a.payload = <<>> /\ a.opcode = f.opcode
    BY <1>4, <1>5, <1>10 DEF Before, MessageWith
  <2>3. StateOf(a) = "accept"
    BY <1>9, <2>2
  <2>4. Stored(a, n + 1, 0) = new
    BY <2>2, <2>3 DEF Stored
  <2>5. HeldOpen(n, m_data_msg')
    BY <2>1
  <2> HIDE DEF new, a
  <2> QED
    BY <1>10, <2>1, <2>3, <2>4, <2>5 DEF InHand, a
<1>11. CASE ~IsControl(f.opcode)
  <2>1. /\ m_data_msg' = IF m_data_msg = NoMessage THEN new
                         ELSE [m_data_msg EXCEPT !.key = n + 1, !.rotation = 0]
        /\ m_current_msg' = "data"
    BY <1>1, <1>2, <1>3, <1>11 DEF ChooseMessage
  <2>2. /\ a.payload = open.payload
        /\ a.opcode = IF open = Nobody THEN f.opcode ELSE open.opcode
    BY <1>4, <1>5, <1>11 DEF Before, MessageWith
  <2>3. StateOf(a) # "reject" /\ m_data_msg' = Stored(a, n + 1, 0)
    <3>1. CASE open = Nobody
      <4>1. a.payload = <<>> /\ a.opcode = f.opcode
        BY <2>2, <3>1 DEF Nobody
      <4>2. StateOf(a) = "accept"
        BY <1>9, <4>1
      <4>3. m_data_msg' = new
        BY <1>7, <2>1, <3>1
      <4> HIDE DEF a
      <4> QED
        BY <4>1, <4>2, <4>3 DEF Stored
    <3>2. CASE open # Nobody
      <4>1. a.payload = open.payload /\ a.opcode = open.opcode
        BY <2>2, <3>2
      <4>2. StateOf(a) = StateOf(open)
        BY <4>1 DEF StateOf
      <4>3. m_data_msg' = [m_data_msg EXCEPT !.key = n + 1, !.rotation = 0]
        BY <1>8, <2>1, <3>2
      <4>4. PICK k, r :
              m_data_msg = [opcode |-> open.opcode, payload |-> open.payload,
                            key |-> k, rotation |-> r, utf8 |-> StateOf(open)]
        BY <1>7 DEF Stored
      <4>5. m_data_msg' = [opcode |-> open.opcode, payload |-> open.payload,
                           key |-> n + 1, rotation |-> 0,
                           utf8 |-> StateOf(open)]
        <5> HIDE DEF open
        <5> QED
          BY <4>3, <4>4
      <4> HIDE DEF a, open
      <4> QED
        BY <1>7, <4>1, <4>2, <4>5 DEF Stored
    <3> QED
      BY <3>1, <3>2
  <2> HIDE DEF a
  <2> QED
    BY <1>11, <2>1, <2>3 DEF InHand, a
<1> QED
  BY <1>10, <1>11

(* An iteration in HEADER_EXTENDED. *)
LEMMA ExtendedHeaderRead ==
  ASSUME ReaderInv, ReadExtendedHeader
  PROVE  ReaderInv'
<1>1. Iteration("HEADER_EXTENDED")
  BY DEF ReadExtendedHeader
<1>2. /\ stream' = stream /\ arrived' = arrived /\ delivered' = delivered
      /\ p' \in Nat /\ p' <= arrived'
      /\ arrived' \in Nat /\ arrived' <= End(Len(stream)) /\ ec = FALSE
      /\ \E n \in 0..Len(stream) : \E q, t \in Nat :
           Takes("HEADER_EXTENDED", n, q, t) /\ p' = q + t
  BY <1>1, Taking
<1>3. PICK n \in 0..Len(stream), q \in Nat, t \in Nat :
        Takes("HEADER_EXTENDED", n, q, t) /\ p' = q + t
  BY <1>2
<1> DEFINE a == End(n)
           b == Start(n)
           c == End(n + 1)
           z == End(Len(stream))
           l == Len(stream[n + 1].payload)
<1>4. /\ stream \in Streams /\ n < Len(stream) /\ ~Meaning[n].error
      /\ a <= q /\ t = Taken /\ t <= m_bytes_needed
      /\ q + t <= z /\ TakenBytes = Bytes(q + 1, q + t)
      /\ hybi_state = "HEADER_EXTENDED" /\ delivered = Meaning[n].out
      /\ BasicLegal(n + 1)
      /\ a + 2 <= q /\ q < b /\ m_bytes_needed = b - q
      /\ m_basic_header = Bytes(a + 1, a + 2)
      /\ m_extended_header = Bytes(a + 3, q)
      /\ HeldOpen(n, m_data_msg)
  BY <1>3 DEF Takes, At, InExtended
<1>5. /\ a \in Nat /\ b \in Nat /\ a + 2 <= b /\ z \in Nat
      /\ b <= c /\ c \in Nat /\ c = b + l /\ l \in Nat
      /\ n + 1 \in 1..Len(stream)
  BY <1>4, Layout
<1>6. m_extended_header \o TakenBytes = Bytes(a + 3, q + t)
  <2>1. /\ a + 3 \in Nat /\ 1 <= a + 3 /\ a + 3 <= q + 1 /\ q <= q + t
        /\ q + t \in Nat
    <3> HIDE DEF a, b
    <3> QED
      BY <1>4, <1>5
  <2> QED
    BY <1>4, <2>1, BytesJoined
<1>7. /\ m_extended_header' = Bytes(a + 3, q + t)
      /\ m_basic_header' = m_basic_header
  BY <1>6 DEF ReadExtendedHeader
<1>8. a <= p'
  <2>1. a <= q + t
    <3> HIDE DEF a, b
    <3> QED
      BY <1>4, <1>5
  <2> QED
    BY <1>3, <2>1
<1> DEFINE length == PayloadSize(m_basic_header, m_extended_header')
           legal == /\ ExtendedHeaderOK(m_basic_header, m_extended_header')
                  /\ ~TooBig(length)
<1>9. \/ /\ m_bytes_needed > Taken
         /\ m_bytes_needed' = m_bytes_needed - Taken
         /\ UNCHANGED <<hybi_state, m_data_msg, m_control_msg, m_current_msg,
                        ec>>
      \/ /\ m_bytes_needed = Taken /\ legal
         /\ ChooseMessage(m_extended_header')
         /\ hybi_state' = "APPLICATION" /\ m_bytes_needed' = length
         /\ UNCHANGED ec
      \/ /\ m_bytes_needed = Taken /\ ~legal
         /\ ec' = TRUE
  BY DEF ReadExtendedHeader
<1>10. CASE /\ m_bytes_needed > Taken
            /\ m_bytes_needed' = m_bytes_needed - Taken
            /\ UNCHANGED <<hybi_state, m_data_msg, m_control_msg,
                           m_current_msg, ec>>
  <2>1. q + t < b /\ (b - q) - t = b - (q + t) /\ a + 2 <= q + t
    <3>1. b - q > t
      BY <1>4, <1>10
    <3> HIDE DEF a, b
    <3> QED
      BY <1>4, <1>5, <3>1
  <2>2. InExtended(n, q + t, (b - q) - t, Bytes(a + 1, a + 2),
                   Bytes(a + 3, q + t), m_data_msg)
    BY <1>4, <2>1 DEF InExtended
  <2>3. m_bytes_needed' = (b - q) - t
    BY <1>4, <1>10
  <2>4. InExtended(n, p', m_bytes_needed', m_basic_header', m_extended_header',
                   m_data_msg')
    BY <1>3, <1>4, <1>7, <1>10, <2>2, <2>3
  <2>5. At(n, hybi_state', p', m_bytes_needed', m_basic_header',
           m_extended_header', m_data_msg', m_control_msg', m_current_msg')
    BY <1>4, <1>10, <2>4 DEF At
  <2>6. delivered' = Meaning[n].out /\ ec' = FALSE
    BY <1>2, <1>4, <1>10
  <2> QED
    BY <1>2, <1>4, <1>8, <2>5, <2>6, GoesOn
<1>11. ASSUME m_bytes_needed = Taken
       PROVE  /\ q + t = b
              /\ m_extended_header' = Bytes(a + 3, b)
              /\ length = l
              /\ HeaderLegal(n + 1) <=> legal
  <2>1. q + t = b
    <3>1. b - q = t
      BY <1>4, <1>11
    <3> HIDE DEF a, b
    <3> QED
      BY <1>4, <1>5, <3>1
  <2>2. m_extended_header' = Bytes(a + 3, b)
    BY <1>7, <2>1
  <2>3. PICK extended : extended = m_extended_header'
    OBVIOUS
  <2>4. /\ PayloadSize(m_basic_header, extended) = l
        /\ HeaderLegal(n + 1) <=>
             /\ ExtendedHeaderOK(m_basic_header, extended)
             /\ ~TooBig(l)
    BY <1>4, <2>2, <2>3, ExtendedHeaderIs
  <2> QED
    BY <2>1, <2>2, <2>3, <2>4
<1>12. CASE /\ m_bytes_needed = Taken /\ legal
            /\ ChooseMessage(m_extended_header')
            /\ hybi_state' = "APPLICATION" /\ m_bytes_needed' = length
            /\ UNCHANGED ec
  <2>1. /\ q + t = b /\ m_extended_header' = Bytes(a + 3, b)
        /\ m_bytes_needed' = l /\ HeaderLegal(n + 1)
    BY <1>11, <1>12
  <2>2. PICK extended : extended = m_extended_header'
    OBVIOUS
  <2>3. /\ StateOf(Partial(n + 1, 0)) # "reject"
        /\ InHand(n, Stored(Partial(n + 1, 0), n + 1, 0), m_data_msg',
                  m_control_msg', m_current_msg')
    <3>1. ChooseMessage(extended)
      BY <1>12, <2>2
    <3> QED
      BY <1>4, <2>1, <2>2, <3>1, MessageChosen
  <2>4. b - b = 0 /\ 0 % 4 = 0 /\ b <= b /\ b <= c /\ l = c - b
    <3> HIDE DEF b, c, l
    <3> QED
      BY <1>5
  <2>5. InPayload(n, b, l, Bytes(a + 1, a + 2), m_data_msg', m_control_msg',
                  m_current_msg')
    BY <1>4, <2>1, <2>3, <2>4 DEF InPayload
  <2>6. InPayload(n, p', m_bytes_needed', m_basic_header', m_data_msg',
                  m_control_msg', m_current_msg')
    BY <1>3, <1>4, <1>7, <2>1, <2>5
  <2>7. At(n, hybi_state', p', m_bytes_needed', m_basic_header',
           m_extended_header', m_data_msg', m_control_msg', m_current_msg')
    BY <1>12, <2>6 DEF At
  <2>8. delivered' = Meaning[n].out /\ ec' = FALSE
    BY <1>2, <1>4, <1>12
  <2> QED
    BY <1>2, <1>4, <1>8, <2>7, <2>8, GoesOn
<1>13. CASE /\ m_bytes_needed = Taken /\ ~legal
            /\ ec' = TRUE
  <2>1. ~HeaderLegal(n + 1) /\ q + t = b
    BY <1>11, <1>13
  <2>2. ~LegalAfter(Meaning[n], n + 1)
    BY <1>4, <2>1, LegalIs
  <2>3. Meaning[n + 1].error
    BY <1>4, <2>2, NextMeaning
  <2>4. Refused(n, p', delivered')
    <3>1. p' <= End(n + 1)
      BY <1>3, <1>5, <2>1
    <3> QED
      BY <1>2, <1>4, <2>3, <3>1 DEF Refused
  <2> QED
    BY <1>2, <1>4, <1>13, <2>4, Refuses
<1> QED
  BY <1>9, <1>10, <1>12, <1>13

(* The bytes of an empty stretch. *)
LEMMA NoBytes ==
  ASSUME stream \in Streams, NEW c \in Nat, c <= End(Len(stream))
  PROVE  Bytes(c + 1, c) = <<>>
<1> DEFINE z == End(Len(stream))
<1>1. z \in Nat
  BY FrameTyped, FramesInPlace
<1>2. /\ c + 1 \in Nat /\ 1 <= c + 1 /\ c + 1 <= c + 1
      /\ (c - (c + 1)) + 1 = 0
  OBVIOUS
<1>3. Bytes(c + 1, c) \in Seq(Place) /\ Len(Bytes(c + 1, c)) = 0
  BY <1>2, BytesAre
<1> QED
  BY <1>3

(* An iteration in APPLICATION. *)
LEMMA PayloadRead ==
  ASSUME ReaderInv, ReadPayload
  PROVE  ReaderInv'
<1>1. Iteration("APPLICATION")
  BY DEF ReadPayload
<1>2. /\ stream' = stream /\ arrived' = arrived /\ delivered' = delivered
      /\ p' \in Nat /\ p' <= arrived'
      /\ arrived' \in Nat /\ arrived' <= End(Len(stream)) /\ ec = FALSE
      /\ \E n \in 0..Len(stream) : \E q, t \in Nat :
           Takes("APPLICATION", n, q, t) /\ p' = q + t
  BY <1>1, Taking
<1>3. PICK n \in 0..Len(stream), q \in Nat, t \in Nat :
        Takes("APPLICATION", n, q, t) /\ p' = q + t
  BY <1>2
<1> DEFINE f == stream[n + 1]
           a == End(n)
           b == Start(n)
           c == End(n + 1)
           z == End(Len(stream))
           l == Len(f.payload)
           w == MessageWith(Meaning[n], n + 1)
           x == q - b
           y == x + t
           part == Partial(n + 1, y)
           new == Stored(part, n + 1, y % 4)
<1>4. /\ stream \in Streams /\ n < Len(stream) /\ ~Meaning[n].error
      /\ a <= q /\ t = Taken /\ t <= m_bytes_needed
      /\ q + t <= z /\ TakenBytes = Bytes(q + 1, q + t)
      /\ hybi_state = "APPLICATION" /\ delivered = Meaning[n].out
      /\ HeaderLegal(n + 1)
      /\ b <= q /\ q <= c /\ m_bytes_needed = c - q
      /\ m_basic_header = Bytes(a + 1, a + 2)
      /\ StateOf(Partial(n + 1, x)) # "reject"
      /\ InHand(n, Stored(Partial(n + 1, x), n + 1, x % 4),
                m_data_msg, m_control_msg, m_current_msg)
  BY <1>3 DEF Takes, At, InPayload
<1>5. /\ a \in Nat /\ b \in Nat /\ a + 2 <= b /\ z \in Nat
      /\ b <= c /\ c \in Nat /\ c = b + l /\ l \in Nat /\ c <= z
      /\ n + 1 \in 1..Len(stream) /\ n + 1 \in 0..Len(stream)
      /\ (n + 1) - 1 = n
  BY <1>4, Layout
<1>6. /\ x \in Nat /\ y \in Nat /\ x + t <= l /\ a <= q + t /\ q + t <= c
      /\ b + x + 1 = q + 1 /\ b + x + t = q + t /\ (q + t) - b = y
      /\ b <= q + t
  <2>1. t <= c - q
    BY <1>4
  <2> HIDE DEF a, b, c, l
  <2> QED
    BY <1>4, <1>5, <2>1
<1> HIDE DEF x, y
<1>7. CurrentMsg = Stored(Partial(n + 1, x), n + 1, x % 4)
  BY <1>4 DEF InHand, CurrentMsg
<1>8. Process = new
  <2>1. TakenBytes = Bytes(b + x + 1, b + x + t)
    BY <1>4, <1>6
  <2> QED
    BY <1>4, <1>6, <1>7, <2>1, Processed DEF y
<1>9. InHand(n, new, m_data_msg', m_control_msg', m_current_msg')
  <2>1. /\ \/ m_current_msg = "data" /\ m_data_msg' = new
                 /\ UNCHANGED m_control_msg
           \/ m_current_msg = "control" /\ m_control_msg' = new
                 /\ UNCHANGED m_data_msg
        /\ UNCHANGED m_current_msg
    BY <1>8 DEF ReadPayload
  <2> HIDE DEF new
  <2>2. CASE IsControl(stream[n + 1].opcode)
    <3>1. m_current_msg = "control" /\ HeldOpen(n, m_data_msg)
      BY <1>4, <2>2 DEF InHand
    <3>2. /\ m_current_msg' = "control" /\ m_control_msg' = new
          /\ m_data_msg' = m_data_msg
      BY <2>1, <3>1
    <3>3. HeldOpen(n, m_data_msg')
      BY <3>1, <3>2
    <3> QED
      BY <2>2, <3>2, <3>3 DEF InHand
  <2>3. CASE ~IsControl(stream[n + 1].opcode)
    <3>1. m_current_msg = "data"
      BY <1>4, <2>3 DEF InHand
    <3>2. m_current_msg' = "data" /\ m_data_msg' = new
      BY <2>1, <3>1
    <3> QED
      BY <2>3, <3>2 DEF InHand
  <2> QED
    BY <2>2, <2>3
<1>10. new.utf8 = StateOf(part) /\ part = Partial(n + 1, y)
  BY DEF Stored
<1>11. SentIn(m_basic_header, 1) = f
  <2>1. PICK basic, extended : /\ basic = m_basic_header
                               /\ extended = Bytes(a + 3, b)
    OBVIOUS
  <2> QED
    BY <1>4, <2>1, HeaderSays
<1>12. FinalizeOK(Process) <=> (f.opcode = "TEXT" => StateOf(part) = "accept")
  BY <1>8, <1>10, <1>11 DEF FinalizeOK
<1>13. y = l => part = w
  BY <1>4, <1>6, PartialIs DEF y
<1>14. a <= p' /\ p' <= c /\ delivered' = Meaning[n].out
  BY <1>2, <1>3, <1>4, <1>6
<1>15. m_bytes_needed = Taken => q + t = c /\ y = l
  <2> SUFFICES ASSUME m_bytes_needed = Taken
               PROVE  q + t = c /\ y = l
    OBVIOUS
  <2>1. c - q = t
    BY <1>4
  <2> HIDE DEF b, c, l
  <2> QED
    BY <1>4, <1>5, <1>6, <2>1
<1>16. \/ Process.utf8 = "reject" /\ ec' = TRUE
       \/ /\ Process.utf8 # "reject" /\ m_bytes_needed > Taken
          /\ m_bytes_needed' = m_bytes_needed - Taken
          /\ UNCHANGED <<hybi_state, ec, m_basic_header, m_extended_header>>
       \/ /\ Process.utf8 # "reject" /\ m_bytes_needed = Taken /\ ~f.fin
          /\ reset_headers /\ UNCHANGED ec
       \/ /\ Process.utf8 # "reject" /\ m_bytes_needed = Taken /\ f.fin
          /\ FinalizeOK(Process) /\ hybi_state' = "READY" /\ UNCHANGED ec
       \/ /\ Process.utf8 # "reject" /\ m_bytes_needed = Taken /\ f.fin
          /\ ~FinalizeOK(Process) /\ ec' = TRUE
  BY <1>11 DEF ReadPayload
<1> HIDE DEF f, a, b, c, z, l, w, part, new
<1>17. CASE Process.utf8 = "reject" /\ ec' = TRUE
  <2>1. StateOf(Partial(n + 1, y)) = "reject" /\ y <= l
    BY <1>6, <1>8, <1>10, <1>17 DEF y
  <2>2. ~LegalAfter(Meaning[n], n + 1)
    BY <1>4, <1>6, <2>1, RejectedMessage DEF l, f
  <2>3. Refused(n, p', delivered')
    BY <1>4, <1>14, <2>2, NextMeaning DEF Refused, c
  <2> QED
    BY <1>2, <1>4, <1>17, <2>3, Refuses
<1>18. CASE /\ Process.utf8 # "reject" /\ m_bytes_needed > Taken
            /\ m_bytes_needed' = m_bytes_needed - Taken
            /\ UNCHANGED <<hybi_state, ec, m_basic_header, m_extended_header>>
  <2>1. (c - q) - t = c - (q + t)
    BY <1>5
  <2>2. m_bytes_needed' = c - (q + t)
    BY <1>4, <1>18, <2>1
  <2>3. StateOf(Partial(n + 1, (q + t) - b)) # "reject"
    BY <1>6, <1>8, <1>10, <1>18
  <2>4. InHand(n, Stored(Partial(n + 1, (q + t) - b), n + 1, ((q + t) - b) % 4),
               m_data_msg', m_control_msg', m_current_msg')
    BY <1>6, <1>9, <1>10 DEF new
  <2>5. InPayload(n, q + t, c - (q + t), m_basic_header, m_data_msg',
                  m_control_msg', m_current_msg')
    BY <1>4, <1>6, <2>3, <2>4 DEF InPayload, a, b, c
  <2>6. InPayload(n, p', m_bytes_needed', m_basic_header', m_data_msg',
                  m_control_msg', m_current_msg')
    BY <1>3, <1>18, <2>2, <2>5
  <2>7. At(n, hybi_state', p', m_bytes_needed', m_basic_header',
           m_extended_header', m_data_msg', m_control_msg', m_current_msg')
    BY <1>4, <1>18, <2>6 DEF At
  <2>8. ec' = FALSE /\ End(n) <= p'
    BY <1>2, <1>14, <1>18 DEF a
  <2> QED
    BY <1>2, <1>4, <1>14, <2>7, <2>8, GoesOn
<1>19. CASE /\ Process.utf8 # "reject" /\ m_bytes_needed = Taken /\ ~f.fin
            /\ reset_headers /\ UNCHANGED ec
  <2>1. q + t = c /\ StateOf(w) # "reject" /\ new = Stored(w, n + 1, y % 4)
    BY <1>8, <1>10, <1>13, <1>15, <1>19 DEF new
  <2>2. LegalAfter(Meaning[n], n + 1)
    BY <1>4, <1>19, <2>1, LegalIs DEF f, w
  <2>3. ~IsControl(f.opcode)
    BY <1>4, <1>19 DEF HeaderLegal, BasicLegal, f
  <2>4. /\ ~Meaning[n + 1].error /\ Meaning[n + 1].out = Meaning[n].out
        /\ Meaning[n + 1].open = w
    BY <1>4, <1>19, <2>2, NextMeaning DEF f, w
  <2>5. m_data_msg' = Stored(w, n + 1, y % 4)
    BY <1>9, <2>1, <2>3 DEF InHand, f
  <2>6. HeldOpen(n + 1, m_data_msg')
    <3>1. w # Nobody
      <4>1. w.opcode \in Opcodes
        BY <1>4, MessageIs DEF w
      <4>2. Nobody.opcode = "none" /\ "none" \notin Opcodes
        BY DEF Nobody, Opcodes
      <4> QED
        BY <4>1, <4>2
    <3>2. PICK dm : dm = Stored(w, n + 1, y % 4)
      OBVIOUS
    <3>3. dm.key = n + 1 /\ dm.rotation = y % 4
      BY <3>2 DEF Stored
    <3>4. HeldOpen(n + 1, dm)
      BY <2>1, <2>4, <3>1, <3>2, <3>3 DEF HeldOpen
    <3> QED
      BY <2>5, <3>2, <3>4
  <2>7. Bytes(c + 1, c) = <<>>
    BY <1>4, <1>5, NoBytes DEF z
  <2>8. c < c + 2 /\ 2 = c + 2 - c
    BY <1>5
  <2>9. InBasic(n + 1, c, 2, <<>>, <<>>, m_data_msg')
    BY <2>6, <2>7, <2>8 DEF InBasic, c
  <2>10. /\ hybi_state' = "HEADER_BASIC" /\ m_bytes_needed' = 2
         /\ m_basic_header' = <<>> /\ m_extended_header' = <<>>
    BY <1>19 DEF reset_headers, BASIC_HEADER_LENGTH
  <2>11. InBasic(n + 1, p', m_bytes_needed', m_basic_header',
                 m_extended_header', m_data_msg')
    BY <1>3, <2>1, <2>9, <2>10
  <2>12. At(n + 1, hybi_state', p', m_bytes_needed', m_basic_header',
            m_extended_header', m_data_msg', m_control_msg', m_current_msg')
    BY <2>10, <2>11 DEF At
  <2>13. ec' = FALSE /\ End(n + 1) <= p' /\ delivered' = Meaning[n + 1].out
    BY <1>2, <1>3, <1>5, <1>14, <1>19, <2>1, <2>4 DEF c
  <2> QED
    BY <1>2, <1>4, <1>5, <2>4, <2>12, <2>13, GoesOn
<1>20. CASE /\ Process.utf8 # "reject" /\ m_bytes_needed = Taken /\ f.fin
            /\ FinalizeOK(Process) /\ hybi_state' = "READY" /\ UNCHANGED ec
  <2>1. /\ q + t = c /\ StateOf(w) # "reject" /\ new = Stored(w, n + 1, y % 4)
        /\ f.opcode = "TEXT" => StateOf(w) = "accept"
    BY <1>8, <1>10, <1>12, <1>13, <1>15, <1>20 DEF new
  <2>2. LegalAfter(Meaning[n], n + 1)
    BY <1>4, <2>1, LegalIs DEF f, w
  <2>3. y % 4 \in 0..3
    <3>1. (y + 0) % 4 \in 0..3 /\ y + 0 = y
      BY <1>6, Turned
    <3> QED
      BY <3>1
  <2>4. IsReady(n, c, m_data_msg', m_control_msg', m_current_msg')
    BY <1>4, <1>9, <1>20, <2>1, <2>2, <2>3 DEF IsReady, c, f, w
  <2>5. IsReady(n, p', m_data_msg', m_control_msg', m_current_msg')
    BY <1>3, <2>1, <2>4
  <2>6. At(n, hybi_state', p', m_bytes_needed', m_basic_header',
           m_extended_header', m_data_msg', m_control_msg', m_current_msg')
    BY <1>20, <2>5 DEF At
  <2>7. ec' = FALSE /\ End(n) <= p'
    BY <1>2, <1>14, <1>20 DEF a
  <2> QED
    BY <1>2, <1>4, <1>14, <2>6, <2>7, GoesOn
<1>21. CASE /\ Process.utf8 # "reject" /\ m_bytes_needed = Taken /\ f.fin
            /\ ~FinalizeOK(Process) /\ ec' = TRUE
  <2>1. f.opcode = "TEXT" /\ StateOf(w) # "accept"
    BY <1>12, <1>13, <1>15, <1>21
  <2>2. ~LegalAfter(Meaning[n], n + 1)
    BY <1>4, <1>21, <2>1, LegalIs DEF f, w
  <2>3. Refused(n, p', delivered')
    BY <1>4, <1>14, <2>2, NextMeaning DEF Refused, c
  <2> QED
    BY <1>2, <1>4, <1>21, <2>3, Refuses
<1> QED
  BY <1>16, <1>17, <1>18, <1>19, <1>20, <1>21

(* No message is open. *)
LEMMA NobodyHeld ==
  ASSUME NEW n, Meaning[n].open = Nobody
  PROVE  HeldOpen(n, NoMessage)
<1>1. StateOf(Nobody) = "accept"
  BY DEF StateOf, Nobody
<1>2. NoMessage = Stored(Nobody, NoMessage.key, NoMessage.rotation)
  BY <1>1 DEF Stored, NoMessage, Nobody
<1> QED
  BY <1>1, <1>2 DEF HeldOpen

(* A message is handed out: its frame is behind the parser. *)
LEMMA MessageGot ==
  ASSUME ReaderInv, GetMessage
  PROVE  ReaderInv'
<1>1. /\ stream \in Streams /\ p \in Nat /\ arrived \in Nat /\ p <= arrived
      /\ arrived <= End(Len(stream))
      /\ ec = FALSE /\ hybi_state = "READY"
      /\ delivered' = Append(delivered, [opcode |-> CurrentMsg.opcode,
                                         payload |-> CurrentMsg.payload])
      /\ reset_headers
      /\ stream' = stream /\ arrived' = arrived /\ p' = p /\ ec' = ec
      /\ \/ m_current_msg = "data" /\ m_data_msg' = NoMessage
         \/ m_current_msg = "control" /\ m_data_msg' = m_data_msg
  BY DEF ReaderInv, GetMessage
<1>2. PICK n \in 0..Len(stream) :
        /\ ~Meaning[n].error /\ delivered = Meaning[n].out
        /\ IsReady(n, p, m_data_msg, m_control_msg, m_current_msg)
  BY <1>1 DEF ReaderInv, At
<1> DEFINE f == stream[n + 1]
           c == End(n + 1)
           w == MessageWith(Meaning[n], n + 1)
<1>3. /\ n < Len(stream) /\ p = c /\ LegalAfter(Meaning[n], n + 1) /\ f.fin
  BY <1>2 DEF IsReady
<1>4. PICK r \in 0..3 :
        InHand(n, Stored(w, n + 1, r), m_data_msg, m_control_msg, m_current_msg)
  BY <1>2 DEF IsReady
<1>5. /\ n + 1 \in 0..Len(stream) /\ c \in Nat /\ c <= End(Len(stream))
  BY <1>1, <1>3, Layout
<1>6. CurrentMsg = Stored(w, n + 1, r)
  BY <1>4 DEF InHand, CurrentMsg
<1>7. [opcode |-> CurrentMsg.opcode, payload |-> CurrentMsg.payload] = w
  <2>1. w \in Messages
    BY <1>1, <1>3, MessageIs
  <2>2. w = [opcode |-> w.opcode, payload |-> w.payload]
    <3> HIDE DEF w
    <3> QED
      BY <2>1 DEF Messages
  <2> HIDE DEF w
  <2> QED
    BY <1>6, <2>2 DEF Stored
<1>8. /\ ~Meaning[n + 1].error
      /\ Meaning[n + 1].out = Append(Meaning[n].out, w)
      /\ Meaning[n + 1].open = IF IsControl(f.opcode) THEN Meaning[n].open
                               ELSE Nobody
  BY <1>1, <1>2, <1>3, NextMeaning
<1>9. delivered' = Meaning[n + 1].out
  BY <1>1, <1>2, <1>7, <1>8
<1>10. HeldOpen(n + 1, m_data_msg')
  <2>1. CASE IsControl(f.opcode)
    <3>1. m_current_msg = "control" /\ HeldOpen(n, m_data_msg)
      BY <1>4, <2>1 DEF InHand
    <3>2. m_data_msg' = m_data_msg
      BY <1>1, <3>1
    <3>3. Meaning[n + 1].open = Meaning[n].open
      BY <1>8, <2>1
    <3>4. HeldOpen(n + 1, m_data_msg)
      BY <3>1, <3>3 DEF HeldOpen
    <3> QED
      BY <3>2, <3>4
  <2>2. CASE ~IsControl(f.opcode)
    <3>1. m_current_msg = "data"
      BY <1>4, <2>2 DEF InHand
    <3>2. m_data_msg' = NoMessage
      BY <1>1, <3>1
    <3>3. Meaning[n + 1].open = Nobody
      BY <1>8, <2>2
    <3>4. HeldOpen(n + 1, NoMessage)
      BY <3>3, NobodyHeld
    <3> QED
      BY <3>2, <3>4
  <2> QED
    BY <2>1, <2>2
<1>11. Bytes(c + 1, c) = <<>> /\ c < c + 2 /\ 2 = c + 2 - c
  <2>1. Bytes(c + 1, c) = <<>>
    BY <1>1, <1>5, NoBytes
  <2> HIDE DEF c
  <2> QED
    BY <1>5, <2>1
<1>12. InBasic(n + 1, c, 2, <<>>, <<>>, m_data_msg')
  BY <1>10, <1>11 DEF InBasic
<1>13. /\ hybi_state' = "HEADER_BASIC" /\ m_bytes_needed' = 2
       /\ m_basic_header' = <<>> /\ m_extended_header' = <<>>
  BY <1>1 DEF reset_headers, BASIC_HEADER_LENGTH
<1>14. p' = c /\ End(n + 1) <= p'
  BY <1>1, <1>3, <1>5
<1>15. InBasic(n + 1, p', m_bytes_needed', m_basic_header', m_extended_header',
               m_data_msg')
  BY <1>12, <1>13, <1>14
<1>16. At(n + 1, hybi_state', p', m_bytes_needed', m_basic_header',
          m_extended_header', m_data_msg', m_control_msg', m_current_msg')
  BY <1>13, <1>15 DEF At
<1>17. p' \in Nat /\ arrived' \in Nat /\ p' <= arrived' /\ ec' = FALSE
       /\ arrived' <= End(Len(stream)) /\ stream' = stream
  BY <1>1
<1> QED
  BY <1>5, <1>8, <1>9, <1>14, <1>16, <1>17, GoesOn

(* Every step keeps the invariant. *)
LEMMA ReaderInvInductive ==
  ASSUME ReaderInv, [ReaderNext]_readerVars
  PROVE  ReaderInv'
<1>1. CASE Arrive
  <2> DEFINE z == End(Len(stream))
  <2>1. /\ stream \in Streams /\ p \in Nat /\ arrived \in Nat /\ p <= arrived
        /\ ec = FALSE /\ arrived' \in (arrived + 1)..z
        /\ UNCHANGED <<stream, p, hybi_state, m_bytes_needed, m_basic_header,
                       m_extended_header, m_data_msg, m_control_msg,
                       m_current_msg, delivered, ec>>
    BY <1>1 DEF ReaderInv, Arrive
  <2>2. PICK n \in 0..Len(stream) :
          /\ ~Meaning[n].error /\ delivered = Meaning[n].out /\ End(n) <= p
          /\ At(n, hybi_state, p, m_bytes_needed, m_basic_header,
                m_extended_header, m_data_msg, m_control_msg, m_current_msg)
    BY <2>1 DEF ReaderInv
  <2>3. z \in Nat
    BY <2>1, FrameTyped, FramesInPlace
  <2>4. PICK a \in Nat : a = arrived'
    <3> HIDE DEF z
    <3>1. \A k \in (arrived + 1)..z : k \in Nat
      BY <2>1, <2>3
    <3> QED
      BY <2>1, <3>1
  <2>5. p <= a /\ a <= z
    <3> HIDE DEF z
    <3>1. a \in (arrived + 1)..z
      BY <2>1, <2>4
    <3> QED
      BY <2>1, <2>3, <3>1
  <2>6. At(n, hybi_state', p', m_bytes_needed', m_basic_header',
           m_extended_header', m_data_msg', m_control_msg', m_current_msg')
    BY <2>1, <2>2
  <2>7. /\ p' \in Nat /\ arrived' \in Nat /\ p' <= arrived' /\ ec' = FALSE
        /\ arrived' <= End(Len(stream)) /\ stream' = stream
        /\ delivered' = Meaning[n].out /\ End(n) <= p'
    BY <2>1, <2>2, <2>4, <2>5
  <2> QED
    BY <2>2, <2>6, <2>7, GoesOn
<1>2. CASE UNCHANGED readerVars
  <2>1. UNCHANGED <<stream, arrived, p, hybi_state, m_bytes_needed,
                    m_basic_header, m_extended_header, m_data_msg,
                    m_control_msg, m_current_msg, delivered, ec>>
    BY <1>2 DEF readerVars
  <2>2. CASE ~ec
    <3>1. PICK n \in 0..Len(stream) :
            /\ ~Meaning[n].error /\ delivered = Meaning[n].out /\ End(n) <= p
            /\ At(n, hybi_state, p, m_bytes_needed, m_basic_header,
                  m_extended_header, m_data_msg, m_control_msg, m_current_msg)
      BY <2>2 DEF ReaderInv
    <3>2. At(n, hybi_state', p', m_bytes_needed', m_basic_header',
             m_extended_header', m_data_msg', m_control_msg', m_current_msg')
      BY <2>1, <3>1
    <3>3. /\ p' \in Nat /\ arrived' \in Nat /\ p' <= arrived' /\ ec' = FALSE
          /\ arrived' <= End(Len(stream)) /\ stream' = stream
          /\ delivered' = Meaning[n].out /\ End(n) <= p'
      BY <2>1, <2>2, <3>1 DEF ReaderInv
    <3> QED
      BY <3>1, <3>2, <3>3, GoesOn
  <2>3. CASE ec
    <3>1. PICK n \in 0..Len(stream) :
            n < Len(stream) /\ Refused(n, p, delivered)
      BY <2>3 DEF ReaderInv
    <3>2. Refused(n, p', delivered')
      BY <2>1, <3>1
    <3>3. /\ p' \in Nat /\ arrived' \in Nat /\ p' <= arrived' /\ ec' = TRUE
          /\ arrived' <= End(Len(stream)) /\ stream' = stream
      BY <2>1, <2>3 DEF ReaderInv
    <3> QED
      BY <3>1, <3>2, <3>3, Refuses
  <2> QED
    BY <2>2, <2>3
<1> QED
  BY <1>1, <1>2, BasicHeaderRead, ExtendedHeaderRead, PayloadRead, MessageGot
  DEF ReaderNext

(* The invariant holds at first: no frame is read. *)
LEMMA ReaderInvInit == ReaderInit => ReaderInv
<1> SUFFICES ASSUME ReaderInit
             PROVE  ReaderInv
  OBVIOUS
<1>1. /\ stream \in Streams /\ arrived = 0 /\ p = 0
      /\ hybi_state = "HEADER_BASIC" /\ m_bytes_needed = 2
      /\ m_basic_header = <<>> /\ m_extended_header = <<>>
      /\ m_data_msg = NoMessage /\ delivered = <<>> /\ ec = FALSE
  BY DEF ReaderInit, BASIC_HEADER_LENGTH
<1>2. Len(stream) \in Nat /\ 0 \in 0..Len(stream)
  BY <1>1, FrameTyped
<1>3. End(0) = 0 /\ End(Len(stream)) \in Nat
  BY <1>1, <1>2, FramesInPlace
<1>4. Meaning[0] = Begun
  BY <1>2, MeaningIs
<1>5. /\ ~Meaning[0].error /\ Meaning[0].out = <<>> /\ Meaning[0].open = Nobody
  BY <1>4 DEF Begun
<1>6. HeldOpen(0, NoMessage)
  BY <1>5, NobodyHeld
<1>7. Bytes(0 + 1, 0) = <<>>
  <2>1. 0 \in Nat /\ 0 <= End(Len(stream))
    BY <1>3
  <2> QED
    BY <1>1, <2>1, NoBytes
<1>8. InBasic(0, 0, 2, <<>>, <<>>, NoMessage)
  <2>1. 0 < 0 + 2 /\ 2 = 0 + 2 - 0
    OBVIOUS
  <2> QED
    BY <1>3, <1>6, <1>7, <2>1 DEF InBasic
<1>9. At(0, hybi_state, p, m_bytes_needed, m_basic_header, m_extended_header,
         m_data_msg, m_control_msg, m_current_msg)
  BY <1>1, <1>8 DEF At
<1>10. End(0) <= p /\ 0 <= End(Len(stream)) /\ 0 <= 0
  BY <1>1, <1>3
<1> QED
  BY <1>1, <1>2, <1>5, <1>9, <1>10 DEF ReaderInv

(* What is complete when the parser waits for bytes. *)
LEMMA InvReadsAsSent ==
  ASSUME ReaderInv
  PROVE  ReadsAsSent
<1>1. stream \in Streams /\ p \in Nat
  BY DEF ReaderInv
<1>2. Len(stream) \in Nat
  BY <1>1, FrameTyped
<1> DEFINE Behind(k) == /\ End(k) <= p
                        /\ k < Len(stream) => p < End(k + 1)
<1>3. ASSUME ~ec, hybi_state # "READY", ~Consuming
      PROVE  /\ delivered = Meaning[CHOOSE k \in 0..Len(stream) : Behind(k)].out
             /\ ~Meaning[CHOOSE k \in 0..Len(stream) : Behind(k)].error
  <2>1. PICK n \in 0..Len(stream) :
          /\ ~Meaning[n].error /\ delivered = Meaning[n].out /\ End(n) <= p
          /\ At(n, hybi_state, p, m_bytes_needed, m_basic_header,
                m_extended_header, m_data_msg, m_control_msg, m_current_msg)
    BY <1>3 DEF ReaderInv
  <2>2. m_bytes_needed # 0
    BY <1>3 DEF Consuming
  <2>3. ASSUME n < Len(stream)
        PROVE  p < End(n + 1)
    <3> DEFINE a == End(n)
               b == Start(n)
               c == End(n + 1)
    <3>1. /\ a \in Nat /\ b \in Nat /\ c \in Nat /\ a + 2 <= b /\ b <= c
      BY <1>1, <2>3, Layout
    <3>2. \/ p < a + 2
          \/ p < b
          \/ p <= c /\ m_bytes_needed = c - p
      BY <1>3, <2>1 DEF At, InBasic, InExtended, InPayload
    <3> HIDE DEF a, b, c
    <3>3. p < c
      BY <1>1, <2>2, <3>1, <3>2
    <3> QED
      BY <3>3 DEF c
  <2>4. Behind(n)
    BY <2>1, <2>3
  <2>5. ASSUME NEW k \in 0..Len(stream), Behind(k)
        PROVE  k = n
    <3>1. ASSUME NEW i \in 0..Len(stream), NEW j \in 0..Len(stream), i < j,
                 Behind(i), Behind(j)
          PROVE  FALSE
      <4> DEFINE d == End(i + 1)
                 e == End(j)
      <4>1. i < Len(stream) /\ i + 1 \in 0..Len(stream) /\ i + 1 <= j
        BY <1>2, <3>1
      <4>2. p < d /\ e <= p
        BY <3>1, <4>1
      <4>3. d \in Nat /\ e \in Nat
        BY <1>1, <4>1, FramesInPlace
      <4>4. d <= e
        <5>1. CASE i + 1 = j
          BY <4>3, <5>1
        <5>2. CASE i + 1 < j
          <6>1. d + 2 <= e
            BY <1>1, <4>1, <5>2, EndsGrow
          <6> HIDE DEF d, e
          <6> QED
            BY <4>3, <6>1
        <5> QED
          BY <1>2, <4>1, <5>1, <5>2
      <4> HIDE DEF d, e
      <4> QED
        BY <1>1, <4>2, <4>3, <4>4
    <3> HIDE DEF Behind
    <3>2. ~(k < n) /\ ~(n < k)
      BY <2>4, <2>5, <3>1
    <3> QED
      BY <1>2, <3>2
  <2> HIDE DEF Behind
  <2>6. (CHOOSE k \in 0..Len(stream) : Behind(k)) = n
    BY <2>4, <2>5
  <2> QED
    BY <2>1, <2>6
<1>4. ASSUME ec
      PROVE  \E n \in 1..Len(stream) :
               /\ ~Meaning[n - 1].error /\ Meaning[n].error
               /\ delivered = Meaning[n - 1].out
               /\ p <= End(n)
  <2>1. PICK n \in 0..Len(stream) : n < Len(stream) /\ Refused(n, p, delivered)
    BY <1>4 DEF ReaderInv
  <2>2. n + 1 \in 1..Len(stream) /\ (n + 1) - 1 = n
    BY <1>2, <2>1
  <2> QED
    BY <2>1, <2>2 DEF Refused
<1> QED
  BY <1>3, <1>4 DEF ReadsAsSent

(* The loop of handle_read_frame and consume: whatever frames a client sends and
   however its bytes are cut into reads, the messages handed out are those of
   the frames, unmasked and each with the last of its bytes, and the first frame
   that is illegal is refused behind all that was legal. *)
THEOREM MessagesAreAsSent == ReaderSpec => []ReadsAsSent
<1>1. ReaderInit => ReaderInv
  BY ReaderInvInit
<1>2. ReaderInv /\ [ReaderNext]_readerVars => ReaderInv'
  BY ReaderInvInductive
<1>3. ReaderInv => ReadsAsSent
  BY InvReadsAsSent
<1> QED
  BY <1>1, <1>2, <1>3, PTL DEF ReaderSpec

=============================================================================
