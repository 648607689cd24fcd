---------------------------- MODULE VideoProofs ----------------------------
(***************************************************************************)
(* Video, by the fragment and by the picture. However many fragments an    *)
(* access unit is cut into: the header of each says what it carries, the   *)
(* assembler gives the unit out as soon as it has all pieces, or all but   *)
(* one and the parity, and what it gives out is what was sent, once: the   *)
(* channel keeps FrameChannel's promise.                                   *)
(*                                                                         *)
(* And how long a broken picture lasts, for any viewers, intervals,        *)
(* windows and number of losses. While no keyframe is asked for, a picture *)
(* has been broken no longer than the clock of the periodic keyframe has   *)
(* run; the tick that finds that clock at its end asks, and the next one   *)
(* sends.                                                                  *)
(***************************************************************************)
EXTENDS Clvd, VideoPath, FiniteSetTheorems, SequenceTheorems, WellFoundedInduction, TLAPS

-----------------------------------------------------------------------------
(* Sequences of sequences *)

\* Induction over the naturals, as a fact about sets of them.
LEMMA NatSetInduction ==
  ASSUME NEW T, 0 \in T, \A n \in Nat : n \in T => n + 1 \in T
  PROVE  \A n \in Nat : n \in T
<1> DEFINE R == OpToRel(<, Nat)
           U == Nat \ T
<1>1. IsWellFoundedOn(R, Nat)
  BY NatLessThanWellFounded
<1>2. \A x, y \in Nat : y < x => <<y, x>> \in R
  BY DEF OpToRel
<1> HIDE DEF R
<1>3. SUFFICES ASSUME U # {} PROVE FALSE
  OBVIOUS
<1>4. PICK x \in U : \A y \in U : ~(<<y, x>> \in R)
  <2>1. U \subseteq Nat
    OBVIOUS
  <2> HIDE DEF U
  <2>2. QED
    BY <1>1, <1>3, <2>1, WFMin
<1>5. x \in Nat \ {0}
  OBVIOUS
<1>6. x - 1 \in Nat /\ x - 1 < x /\ (x - 1) + 1 = x
  BY <1>5
<1>7. x - 1 \in T
  BY <1>2, <1>4, <1>5, <1>6
<1>8. QED
  BY <1>6, <1>7

\* The sequences of a sequence, one after the other.
LEMMA Flattened ==
  ASSUME NEW S, NEW n \in Nat \ {0}, NEW s \in Seq(Seq(S)), Len(s) = n
  PROVE  \E f : /\ f = [i \in 1 .. n |-> IF i = 1 THEN s[i] ELSE f[i - 1] \o s[i]]
                /\ FlattenSeq(s) = f[n]
<1> DEFINE Fold(f, k) == f = [i \in 1 .. k |-> IF i = 1 THEN s[i] ELSE f[i - 1] \o s[i]]
           T == {k \in Nat : \E f : Fold(f, k)}
<1>1. 0 \in T
  <2>1. Fold(<<>>, 0)
    OBVIOUS
  <2>2. QED
    BY <2>1
<1>2. ASSUME NEW k \in Nat, k \in T PROVE k + 1 \in T
  <2>1. PICK f : Fold(f, k)
    BY <1>2
  <2> DEFINE g == [i \in 1 .. (k + 1) |->
                     IF i <= k THEN f[i] ELSE IF i = 1 THEN s[i] ELSE f[i - 1] \o s[i]]
  <2>2. \A i \in 1 .. (k + 1) : i # 1 => i - 1 \in 1 .. k /\ i - 1 \in 1 .. (k + 1)
    OBVIOUS
  <2>3. ASSUME NEW i \in 1 .. (k + 1)
        PROVE  g[i] = IF i = 1 THEN s[i] ELSE g[i - 1] \o s[i]
    <3>1. CASE i = 1
      <4>1. CASE i <= k
        BY <2>1, <3>1, <4>1
      <4>2. CASE ~(i <= k)
        BY <3>1, <4>2
      <4>3. QED
        BY <4>1, <4>2
    <3>2. CASE i # 1
      <4>1. i - 1 \in 1 .. (k + 1) /\ i - 1 <= k
        BY <3>2, <2>2
      <4>2. g[i - 1] = f[i - 1]
        BY <4>1
      <4>3. CASE i <= k
        <5>1. i \in 1 .. k
          BY <4>3
        <5>2. f[i] = f[i - 1] \o s[i]
          BY <2>1, <3>2, <5>1
        <5>3. QED
          BY <3>2, <4>2, <4>3, <5>2
      <4>4. CASE ~(i <= k)
        BY <3>2, <4>2, <4>4
      <4>5. QED
        BY <4>3, <4>4
    <3>3. QED
      BY <3>1, <3>2
  <2>4. g = [i \in 1 .. (k + 1) |-> g[i]]
    OBVIOUS
  <2> HIDE DEF g
  <2>5. Fold(g, k + 1)
    BY <2>3, <2>4
  <2> HIDE DEF Fold
  <2>6. \E h : Fold(h, k + 1)
    BY <2>5
  <2>7. QED
    BY <2>6
<1>3. n \in T
  <2> HIDE DEF T
  <2>1. QED
    BY <1>1, <1>2, NatSetInduction
<1>4. \E f : Fold(f, n)
  BY <1>3
<1> DEFINE flatten == CHOOSE f : Fold(f, n)
<1>5. Fold(flatten, n)
  BY <1>4
<1>6. FlattenSeq(s) = flatten[n]
  BY DEF FlattenSeq
<1>7. QED
  BY <1>5, <1>6

-----------------------------------------------------------------------------
(* Headers *)

\* What a header can say.
Headed(f) ==
  /\ f.keyframe \in BOOLEAN /\ f.stamp \in Nat /\ f.wm \in Nat
  /\ f.count \in Nat \ {0} /\ f.idx \in 0 .. f.count

\* Whatever version a fragment is written in, it is read as it was
\* (encode_fragment, decode_fragment).
THEOREM HeaderReadBack ==
  ASSUME NEW f, Headed(f)
  PROVE  DecodeFragment(EncodeFragment(f)) =
           [ok |-> TRUE, seq |-> f.seq, size |-> f.size, keyframe |-> f.keyframe,
            idx |-> f.idx, count |-> f.count, stamp |-> f.stamp, wm |-> f.wm,
            payload |-> f.payload]
<1> DEFINE key == IF f.keyframe THEN 1 ELSE 0
<1>1. (key = 1) = f.keyframe
  BY DEF Headed
<1>2. f.count # 0 /\ ~(f.idx > f.count)
  BY DEF Headed
<1>3. CASE f.wm = 0 /\ f.stamp = 0
  <2> DEFINE m == <<"CLVD", V2, key, f.size, f.seq, f.idx, f.count, f.payload>>
  <2>1. EncodeFragment(f) = m
    BY <1>3 DEF EncodeFragment, WireVersion, V2, V4
  <2>2. /\ Len(m) = 8 /\ m[1] = "CLVD" /\ m[2] = V2 /\ m[3] = key /\ m[4] = f.size
        /\ m[5] = f.seq /\ m[6] = f.idx /\ m[7] = f.count /\ m[8] = f.payload
    OBVIOUS
  <2> HIDE DEF m, key
  <2>3. /\ HeaderWords(V2) = 8 /\ V2 \in {V2, V3, V4} /\ V2 \notin {V3, V4} /\ V2 # V4
        /\ ~(8 < 8)
    BY DEF HeaderWords, V2, V3, V4
  <2>4. DecodeFragment(m) =
          [ok |-> TRUE, seq |-> m[5], size |-> m[4], keyframe |-> m[3] = 1,
           idx |-> m[6], count |-> m[7], stamp |-> 0, wm |-> 0, payload |-> m[8]]
    BY <1>2, <2>2, <2>3, Zenon DEF DecodeFragment
  <2>5. QED
    BY <1>1, <1>3, <2>1, <2>2, <2>4, Zenon
<1>4. CASE ~(f.wm = 0 /\ f.stamp = 0)
  <2> DEFINE m == <<"CLVD", V4, key, f.size, f.seq, f.idx, f.count, f.stamp, f.wm, f.payload>>
  <2>1. EncodeFragment(f) = m
    BY <1>4 DEF EncodeFragment, WireVersion, V2, V4, Headed
  <2>2. /\ Len(m) = 10 /\ m[1] = "CLVD" /\ m[2] = V4 /\ m[3] = key /\ m[4] = f.size
        /\ m[5] = f.seq /\ m[6] = f.idx /\ m[7] = f.count /\ m[8] = f.stamp
        /\ m[9] = f.wm /\ m[10] = f.payload
    OBVIOUS
  <2> HIDE DEF m, key
  <2>3. /\ HeaderWords(V4) = 10 /\ V4 \in {V2, V3, V4} /\ V4 \in {V3, V4}
        /\ ~(10 < 8) /\ ~(10 < 10)
    BY DEF HeaderWords, V2, V3, V4
  <2>4. DecodeFragment(m) =
          [ok |-> TRUE, seq |-> m[5], size |-> m[4], keyframe |-> m[3] = 1,
           idx |-> m[6], count |-> m[7], stamp |-> m[8], wm |-> m[9], payload |-> m[10]]
    BY <1>2, <2>2, <2>3, Zenon DEF DecodeFragment
  <2>5. QED
    BY <1>1, <2>1, <2>2, <2>4, Zenon
<1>5. QED
  BY <1>3, <1>4

-----------------------------------------------------------------------------
(* Cutting and parity *)

\* An access unit is cut into one fragment at least, even an empty one.
LEMMA CountPositive ==
  ASSUME NEW p \in Seq({0, 1}) PROVE CountOf(p) \in Nat \ {0}
<1>1. CASE p = <<>>
  BY <1>1 DEF CountOf
<1>2. CASE p # <<>>
  <2>1. Len(p) \in Nat \ {0}
    BY <1>2
  <2>2. Len(p) + Chunk - 1 \in Nat /\ Len(p) + Chunk - 1 >= Chunk /\ Chunk \in Nat \ {0}
    BY <2>1, ClvdAssumption
  <2>3. (Len(p) + Chunk - 1) \div Chunk \in Nat \ {0}
    BY <2>2
  <2>4. QED
    BY <1>2, <2>3 DEF CountOf
<1>3. QED
  BY <1>1, <1>2

\* The pieces but the last are full, the last holds the rest, and each is what
\* lies at its place.
LEMMA CountCovers ==
  ASSUME NEW p \in Seq({0, 1}), p # <<>>
  PROVE  /\ CountOf(p) \in Nat \ {0}
         /\ (CountOf(p) - 1) * Chunk < Len(p) /\ Len(p) <= CountOf(p) * Chunk
<1>1. Len(p) \in Nat \ {0} /\ Chunk \in Nat \ {0}
  BY ClvdAssumption
<1>2. CountOf(p) = (Len(p) + Chunk - 1) \div Chunk
  BY DEF CountOf
<1>3. ASSUME NEW L \in Nat \ {0}, NEW C \in Nat \ {0}, NEW q, q = (L + C - 1) \div C
      PROVE  q \in Nat \ {0} /\ (q - 1) * C < L /\ L <= q * C
  <2>1. L + C - 1 \in Nat /\ L + C - 1 >= C /\ q \in Nat
    BY <1>3
  <2>2. q * C <= L + C - 1 /\ L + C - 1 < (q + 1) * C
    BY <1>3
  <2>3. (q + 1) * C = q * C + C /\ (q - 1) * C = q * C - C /\ q * C \in Nat
    BY <2>1
  <2>4. q # 0
    <3> SUFFICES ASSUME q = 0 PROVE FALSE
      OBVIOUS
    <3>1. q * C = 0
      OBVIOUS
    <3>2. QED
      BY <2>1, <2>2, <2>3, <3>1
  <2>5. QED
    BY <2>1, <2>2, <2>3, <2>4
<1>4. QED
  BY <1>1, <1>2, <1>3

\* Where the i-th piece starts and how long it is.
PieceLen(p, i) == IF (i + 1) * Chunk <= Len(p) THEN Chunk ELSE Len(p) - i * Chunk

LEMMA PieceCut ==
  ASSUME NEW p \in Seq({0, 1}), NEW i \in 0 .. (CountOf(p) - 1)
  PROVE  /\ PieceLen(p, i) \in 0 .. Chunk /\ i * Chunk \in Nat
         /\ i * Chunk + PieceLen(p, i) <= Len(p)
         /\ PieceOf(p, i) = SubSeq(p, i * Chunk + 1, i * Chunk + PieceLen(p, i))
         /\ PieceOf(p, i) \in Seq({0, 1}) /\ Len(PieceOf(p, i)) = PieceLen(p, i)
         /\ \A j \in 1 .. PieceLen(p, i) : PieceOf(p, i)[j] = p[i * Chunk + j]
         /\ i < CountOf(p) - 1 => PieceLen(p, i) = Chunk
         /\ i = CountOf(p) - 1 => i * Chunk + PieceLen(p, i) = Len(p)
<1>1. CASE p = <<>>
  <2>1. CountOf(p) = 1 /\ i = 0
    BY <1>1 DEF CountOf
  <2>2. Len(p) = 0 /\ Chunk \in Nat \ {0} /\ 0 * Chunk = 0 /\ (0 + 1) * Chunk = Chunk
    BY <1>1, ClvdAssumption
  <2>3. PieceOf(p, i) = <<>> /\ PieceLen(p, i) = 0
    BY <1>1, <2>1, <2>2 DEF PieceOf, PieceLen
  <2>4. 0 * Chunk \in Nat /\ 0 \in 0 .. Chunk /\ <<>> \in Seq({0, 1}) /\ Len(<<>>) = 0
    BY <2>2
  <2>5. i * Chunk = 0 /\ ~(i < CountOf(p) - 1)
    BY <2>1, <2>2
  <2>6. SubSeq(p, 0 + 1, 0 + 0) = <<>>
    BY <1>1
  <2>7. QED
    BY <2>2, <2>3, <2>4, <2>5, <2>6
<1>2. CASE p # <<>>
  <2> DEFINE n == CountOf(p)
             L == Len(p)
             C == Chunk
             a == i * C
  <2>1. n \in Nat \ {0} /\ (n - 1) * C < L /\ L <= n * C
    BY <1>2, CountCovers
  <2>2. L \in Nat \ {0} /\ C \in Nat \ {0} /\ i \in Nat /\ i <= n - 1
    BY <1>2, <2>1, ClvdAssumption
  <2>3. a \in Nat /\ (i + 1) * C = a + C /\ a <= (n - 1) * C
    <3> HIDE DEF n, L, C
    <3>1. i * C \in Nat /\ (i + 1) * C = i * C + C
      BY <2>2
    <3>2. (n - 1 - i) * C >= 0 /\ (n - 1) * C = i * C + (n - 1 - i) * C
      BY <2>1, <2>2
    <3>3. QED
      BY <2>1, <2>2, <3>1, <3>2
  <2>4. i < n - 1 => a + C <= L
    <3> HIDE DEF n, L, C
    <3> SUFFICES ASSUME i < n - 1 PROVE a + C <= L
      OBVIOUS
    <3>1. (n - 2 - i) * C >= 0 /\ (n - 1) * C = i * C + C + (n - 2 - i) * C
      BY <2>1, <2>2
    <3>2. QED
      BY <2>1, <2>2, <3>1
  <2>5. i = n - 1 => L <= a + C
    <3> HIDE DEF n, L, C
    <3>1. n * C = (n - 1) * C + C
      BY <2>1, <2>2
    <3>2. QED
      BY <2>1, <2>2, <3>1
  <2> DEFINE e == IF a + C <= L THEN a + C ELSE L
  <2>6. PieceOf(p, i) = SubSeq(p, a + 1, e) /\ PieceLen(p, i) = e - a
    <3>1. PieceOf(p, i) = SubSeq(p, a + 1, IF (i + 1) * C <= L THEN (i + 1) * C ELSE L)
      BY DEF PieceOf
    <3>2. PieceLen(p, i) = IF (i + 1) * C <= L THEN C ELSE L - a
      BY DEF PieceLen
    <3> HIDE DEF n, L, C, a
    <3>3. QED
      BY <2>2, <2>3, <3>1, <3>2
  <2> HIDE DEF n, L, C, a
  <2>7. e \in Nat /\ a < e /\ e <= L /\ e - a <= C
    BY <2>1, <2>2, <2>3
  <2> HIDE DEF e
  <2>8. \A j \in (a + 1) .. e : p[j] \in {0, 1}
    BY <2>2, <2>3, <2>7 DEF L
  <2>9. /\ SubSeq(p, a + 1, e) \in Seq({0, 1})
        /\ Len(SubSeq(p, a + 1, e)) = e - a
        /\ \A j \in 1 .. (e - a) : SubSeq(p, a + 1, e)[j] = p[a + j]
    <3>1. a + 1 \in Int /\ e \in Int
      BY <2>3, <2>7
    <3>2. /\ SubSeq(p, a + 1, e) \in Seq({0, 1})
          /\ Len(SubSeq(p, a + 1, e)) = IF a + 1 <= e THEN e - (a + 1) + 1 ELSE 0
          /\ \A j \in 1 .. (e - (a + 1) + 1) : SubSeq(p, a + 1, e)[j] = p[(a + 1) + j - 1]
      BY <2>8, <3>1, SubSeqProperties
    <3>3. QED
      BY <2>3, <2>7, <3>2
  <2>10. i < n - 1 => e - a = C
    BY <2>2, <2>3, <2>4, <2>7 DEF e
  <2>11. i = n - 1 => e = L
    BY <2>2, <2>3, <2>5, <2>7 DEF e
  <2>12. e = a + (e - a)
    BY <2>3, <2>7
  <2>13. QED
    BY <2>2, <2>3, <2>6, <2>7, <2>9, <2>10, <2>11, <2>12 DEF n, L, C, a
<1>3. QED
  BY <1>1, <1>2

\* The pieces one after the other are the payload.
LEMMA PiecesJoin ==
  ASSUME NEW p \in Seq({0, 1})
  PROVE  FlattenSeq([i \in 1 .. CountOf(p) |-> PieceOf(p, i - 1)]) = p
<1> DEFINE n == CountOf(p)
           s == [i \in 1 .. n |-> PieceOf(p, i - 1)]
           End(i) == i * Chunk + PieceLen(p, i)
<1>1. n \in Nat \ {0} /\ Chunk \in Nat \ {0}
  BY ClvdAssumption, CountPositive
<1>2. \A i \in 0 .. (n - 1) :
        /\ s[i + 1] = PieceOf(p, i) /\ PieceOf(p, i) \in Seq({0, 1})
        /\ PieceOf(p, i) = SubSeq(p, i * Chunk + 1, End(i))
        /\ i * Chunk \in Nat /\ End(i) \in i * Chunk .. Len(p)
        /\ i < n - 1 => End(i) = (i + 1) * Chunk
        /\ i = n - 1 => End(i) = Len(p)
  <2> SUFFICES ASSUME NEW i \in 0 .. (n - 1)
               PROVE  /\ s[i + 1] = PieceOf(p, i) /\ PieceOf(p, i) \in Seq({0, 1})
                      /\ PieceOf(p, i) = SubSeq(p, i * Chunk + 1, End(i))
                      /\ i * Chunk \in Nat /\ End(i) \in i * Chunk .. Len(p)
                      /\ i < n - 1 => End(i) = (i + 1) * Chunk
                      /\ i = n - 1 => End(i) = Len(p)
    OBVIOUS
  <2>1. i + 1 \in 1 .. n /\ (i + 1) - 1 = i
    BY <1>1
  <2>2. s[i + 1] = PieceOf(p, i)
    BY <2>1
  <2>3. (i + 1) * Chunk = i * Chunk + Chunk
    BY <1>1
  <2>4. Len(p) \in Nat
    OBVIOUS
  <2>5. /\ PieceLen(p, i) \in 0 .. Chunk /\ i * Chunk \in Nat
        /\ i * Chunk + PieceLen(p, i) <= Len(p)
        /\ PieceOf(p, i) = SubSeq(p, i * Chunk + 1, i * Chunk + PieceLen(p, i))
        /\ PieceOf(p, i) \in Seq({0, 1})
        /\ i < n - 1 => PieceLen(p, i) = Chunk
        /\ i = n - 1 => i * Chunk + PieceLen(p, i) = Len(p)
    BY PieceCut
  <2>6. End(i) \in i * Chunk .. Len(p)
    BY <2>4, <2>5
  <2>7. QED
    BY <2>2, <2>3, <2>5, <2>6
<1>3. s \in Seq(Seq({0, 1})) /\ Len(s) = n
  <2>1. \A i \in 1 .. n : PieceOf(p, i - 1) \in Seq({0, 1})
    <3>1. \A i \in 1 .. n : i - 1 \in 0 .. (n - 1)
      BY <1>1
    <3>2. QED
      BY <1>2, <3>1
  <2> HIDE DEF n
  <2>2. QED
    BY <1>1, <2>1
<1> HIDE DEF s, n, End
<1>4. PICK f : /\ f = [i \in 1 .. n |-> IF i = 1 THEN s[i] ELSE f[i - 1] \o s[i]]
               /\ FlattenSeq(s) = f[n]
  BY <1>1, <1>3, Flattened
<1> DEFINE T == {i \in Nat : i <= n - 1 => f[i + 1] = SubSeq(p, 1, End(i))}
<1>5. 0 \in T
  <2>1. f[1] = s[1] /\ 0 \in 0 .. (n - 1) /\ 0 + 1 = 1 /\ 0 * Chunk + 1 = 1
    BY <1>1, <1>4
  <2>2. QED
    BY <1>2, <2>1
<1>6. ASSUME NEW i \in Nat, i \in T PROVE i + 1 \in T
  <2> SUFFICES ASSUME i + 1 <= n - 1
               PROVE  f[(i + 1) + 1] = SubSeq(p, 1, End(i + 1))
    OBVIOUS
  <2>1. /\ i \in 0 .. (n - 1) /\ i + 1 \in 0 .. (n - 1) /\ i < n - 1
        /\ (i + 1) + 1 \in 1 .. n /\ (i + 1) + 1 # 1 /\ ((i + 1) + 1) - 1 = i + 1
    BY <1>1
  <2>2. f[(i + 1) + 1] = f[i + 1] \o s[(i + 1) + 1]
    BY <1>4, <2>1
  <2>3. f[i + 1] = SubSeq(p, 1, End(i))
    BY <1>6, <2>1
  <2>4. s[(i + 1) + 1] = SubSeq(p, End(i) + 1, End(i + 1))
    BY <1>2, <2>1
  <2>5. /\ End(i) \in Nat /\ End(i + 1) \in Nat /\ End(i) <= End(i + 1)
        /\ End(i + 1) <= Len(p) /\ Len(p) \in Nat
    <3>1. Len(p) \in Nat
      OBVIOUS
    <3>2. /\ i * Chunk \in Nat /\ End(i) \in i * Chunk .. Len(p) /\ End(i) = (i + 1) * Chunk
          /\ (i + 1) * Chunk \in Nat /\ End(i + 1) \in (i + 1) * Chunk .. Len(p)
      BY <1>2, <2>1
    <3>3. QED
      BY <3>1, <3>2
  <2>6. 1 \in 1 .. (Len(p) + 1) /\ End(i) \in (1 - 1) .. Len(p) /\ End(i + 1) \in End(i) .. Len(p)
    BY <2>5
  <2>7. SubSeq(p, 1, End(i)) \o SubSeq(p, End(i) + 1, End(i + 1)) = SubSeq(p, 1, End(i + 1))
    BY <2>6, ConcatAdjacentSubSeq
  <2>8. QED
    BY <2>2, <2>3, <2>4, <2>7
<1>7. n - 1 \in T /\ n - 1 \in 0 .. (n - 1) /\ (n - 1) + 1 = n
  <2>1. n - 1 \in Nat
    BY <1>1
  <2> HIDE DEF T
  <2>2. QED
    BY <1>1, <1>5, <1>6, <2>1, NatSetInduction
<1>8. f[n] = SubSeq(p, 1, Len(p))
  BY <1>2, <1>7
<1>9. SubSeq(p, 1, Len(p)) = p
  BY SubSeqFull
<1>10. QED
  BY <1>4, <1>8, <1>9 DEF s, n

\* The XOR of all pieces and of all but one is the one.
LEMMA XorIsTheOther ==
  ASSUME NEW p \in Seq({0, 1}), NEW k \in 0 .. (CountOf(p) - 1), NEW parts,
         DOMAIN parts = (0 .. (CountOf(p) - 1)) \ {k},
         \A i \in DOMAIN parts : parts[i] = PieceOf(p, i),
         NEW j \in 1 .. Chunk, At(PieceOf(p, k), j) \in {0, 1}
  PROVE  (ParityOf(p).xor[j] + XorOf(parts, DOMAIN parts)[j]) % 2 = At(PieceOf(p, k), j)
<1> DEFINE n == CountOf(p)
           P == [i \in 0 .. (n - 1) |-> PieceOf(p, i)]
           A == {i \in 0 .. (n - 1) : At(P[i], j) = 1}
           B == {i \in DOMAIN parts : At(parts[i], j) = 1}
<1>1. ParityOf(p).xor[j] = Cardinality(A) % 2
  BY DEF ParityOf, XorOf
<1>2. XorOf(parts, DOMAIN parts)[j] = Cardinality(B) % 2
  BY DEF XorOf
<1>3. P[k] = PieceOf(p, k) /\ \A i \in DOMAIN parts : parts[i] = P[i]
  OBVIOUS
<1> HIDE DEF P
<1>4. B \subseteq 0 .. (n - 1)
  OBVIOUS
<1>5. B = A \ {k} /\ k \notin B /\ (k \in A <=> At(P[k], j) = 1)
  BY <1>3
<1> HIDE DEF A, B
<1>6. IsFiniteSet(B) /\ Cardinality(B) \in Nat
  <2>1. n \in Nat
    BY CountPositive
  <2>2. IsFiniteSet(0 .. (n - 1))
    BY <2>1, FS_Interval
  <2>3. QED
    BY <1>4, <2>2, FS_Subset, FS_CardinalityType
<1>7. CASE At(P[k], j) = 1
  <2>1. A = B \cup {k}
    BY <1>5, <1>7
  <2>2. Cardinality(A) = Cardinality(B) + 1
    BY <1>5, <1>6, <2>1, FS_AddElement
  <2>3. QED
    BY <1>1, <1>2, <1>3, <1>6, <1>7, <2>2
<1>8. CASE At(P[k], j) = 0
  <2>1. A = B
    BY <1>5, <1>8
  <2>2. QED
    BY <1>1, <1>2, <1>3, <1>6, <1>8, <2>1
<1>9. QED
  BY <1>3, <1>7, <1>8

\* Parity and all pieces but one give the one, at its length.
LEMMA ParityRecovers ==
  ASSUME NEW p \in Seq({0, 1}), NEW k \in 0 .. (CountOf(p) - 1), NEW parts,
         DOMAIN parts = (0 .. (CountOf(p) - 1)) \ {k},
         \A i \in DOMAIN parts : parts[i] = PieceOf(p, i)
  PROVE  Recovered(parts, k, CountOf(p), ParityOf(p)) = PieceOf(p, k)
<1> DEFINE n == CountOf(p)
           piece == PieceOf(p, k)
           acc == [j \in 1 .. Chunk |->
                     (ParityOf(p).xor[j] + XorOf(parts, DOMAIN parts)[j]) % 2]
<1>1. n \in Nat \ {0} /\ Chunk \in Nat \ {0}
  BY ClvdAssumption, CountPositive
<1>2. /\ piece \in Seq({0, 1}) /\ Len(piece) \in 0 .. Chunk
      /\ k # n - 1 => Len(piece) = Chunk
  <2>1. /\ PieceLen(p, k) \in 0 .. Chunk
        /\ piece \in Seq({0, 1}) /\ Len(piece) = PieceLen(p, k)
        /\ k < CountOf(p) - 1 => PieceLen(p, k) = Chunk
    BY PieceCut
  <2>2. QED
    BY <1>1, <2>1
<1>3. ParityOf(p).last = Len(PieceOf(p, n - 1))
  BY DEF ParityOf
<1>4. Recovered(parts, k, n, ParityOf(p))
        = IF k = n - 1 THEN SubSeq(acc, 1, ParityOf(p).last) ELSE acc
  BY DEF Recovered
<1> HIDE DEF piece
<1>5. \A j \in 1 .. Len(piece) : piece[j] \in {0, 1}
  BY <1>2
<1>6. \A j \in 1 .. Chunk : At(piece, j) \in {0, 1}
  BY <1>1, <1>2, <1>5 DEF At
<1>7. acc = [j \in 1 .. Chunk |-> At(piece, j)]
  <2>1. \A j \in 1 .. Chunk :
          (ParityOf(p).xor[j] + XorOf(parts, DOMAIN parts)[j]) % 2 = At(piece, j)
    BY <1>6, XorIsTheOther DEF piece
  <2>2. QED
    BY <2>1
<1> HIDE DEF acc
<1>8. \A j \in 1 .. Len(piece) : j \in 1 .. Chunk /\ acc[j] = piece[j]
  BY <1>1, <1>2, <1>7 DEF At
<1>9. CASE k = n - 1
  <2>1. ParityOf(p).last = Len(piece)
    BY <1>3, <1>9 DEF piece
  <2> DEFINE cut == SubSeq(acc, 1, Len(piece))
  <2>2. /\ cut \in Seq({0, 1}) /\ Len(cut) = Len(piece)
        /\ \A j \in 1 .. Len(piece) : cut[j] = acc[j]
    <3>1. \A j \in 1 .. Len(piece) : acc[j] \in {0, 1}
      BY <1>5, <1>8
    <3>2. 1 \in Int /\ Len(piece) \in Int /\ Len(piece) >= 0
      BY <1>1, <1>2
    <3>3. /\ cut \in Seq({0, 1})
          /\ Len(cut) = IF 1 <= Len(piece) THEN Len(piece) - 1 + 1 ELSE 0
          /\ \A j \in 1 .. (Len(piece) - 1 + 1) : cut[j] = acc[1 + j - 1]
      BY <3>1, <3>2, SubSeqProperties
    <3>4. QED
      BY <3>2, <3>3
  <2> HIDE DEF cut
  <2>3. cut = piece
    BY <1>2, <1>8, <2>2, SeqEqual
  <2>4. QED
    BY <1>4, <1>9, <2>1, <2>3 DEF cut, piece
<1>10. CASE k # n - 1
  <2>1. Len(piece) = Chunk
    BY <1>2, <1>10
  <2>2. acc \in Seq({0, 1}) /\ Len(acc) = Chunk
    BY <1>1, <1>6, <1>7
  <2>3. acc = piece
    BY <1>2, <1>8, <2>1, <2>2, SeqEqual
  <2>4. QED
    BY <1>4, <1>10, <2>3 DEF piece
<1>11. QED
  BY <1>9, <1>10

-----------------------------------------------------------------------------
(* The assembler *)

\* What the assembler holds of an access unit, by the indices of the fragments.
Held(a) == DOMAIN a.parts \cup (IF a.parity # {} THEN {a.count} ELSE {})

\* A part of the pieces and the rest of them add up.
LEMMA HeldIsFinite ==
  ASSUME NEW n \in Nat, NEW D \in SUBSET (0 .. (n - 1))
  PROVE  /\ IsFiniteSet(D) /\ IsFiniteSet((0 .. (n - 1)) \ D)
         /\ Cardinality(D) \in Nat /\ Cardinality((0 .. (n - 1)) \ D) \in Nat
         /\ Cardinality(D) + Cardinality((0 .. (n - 1)) \ D) = n
<1>1. IsFiniteSet(0 .. (n - 1)) /\ Cardinality(0 .. (n - 1)) = n
  BY FS_Interval
<1>2. IsFiniteSet(D) /\ IsFiniteSet((0 .. (n - 1)) \ D)
  BY <1>1, FS_Subset
<1>3. Cardinality(D) \in Nat /\ Cardinality((0 .. (n - 1)) \ D) \in Nat
  BY <1>2, FS_CardinalityType
<1>4. (0 .. (n - 1)) \cap D = D
  OBVIOUS
<1>5. Cardinality((0 .. (n - 1)) \ D) = n - Cardinality(D)
  <2>1. Cardinality((0 .. (n - 1)) \ D)
          = Cardinality(0 .. (n - 1)) - Cardinality((0 .. (n - 1)) \cap D)
    BY <1>1, FS_Difference, Zenon
  <2>2. QED
    BY <1>1, <1>4, <2>1, Zenon
<1>6. QED
  BY <1>2, <1>3, <1>5

\* An access unit that is not whole lacks a fragment that carries bits no other
\* gives.
LEMMA NotWholeIsShort ==
  ASSUME NEW a, a.count \in Nat \ {0}, DOMAIN a.parts \subseteq 0 .. (a.count - 1), ~Whole(a)
  PROVE  Cardinality(Held(a)) \in Nat /\ Cardinality(Held(a)) < a.count
<1> DEFINE D == DOMAIN a.parts
           n == a.count
<1>1. /\ IsFiniteSet(D) /\ IsFiniteSet(Missing(a))
      /\ Cardinality(D) \in Nat /\ Cardinality(Missing(a)) \in Nat
      /\ Cardinality(D) + Cardinality(Missing(a)) = n
  BY HeldIsFinite DEF Missing
<1>2. Cardinality(Missing(a)) # 0
  BY <1>1, FS_EmptySet DEF Whole
<1>3. CASE a.parity = {}
  BY <1>1, <1>2, <1>3 DEF Held
<1>4. CASE a.parity # {}
  <2>1. Cardinality(Missing(a)) > 1
    BY <1>1, <1>2, <1>4 DEF Whole
  <2>2. Held(a) = D \cup {n}
    BY <1>4 DEF Held
  <2>3. Cardinality(D \cup {n}) = Cardinality(D) + 1
    <3>1. n \notin D
      OBVIOUS
    <3> HIDE DEF D, n
    <3>2. QED
      BY <1>1, <3>1, FS_AddElement, Zenon
  <2>4. QED
    BY <1>1, <2>1, <2>2, <2>3
<1>5. QED
  BY <1>3, <1>4

-----------------------------------------------------------------------------
(* The inductive invariant *)

N(u) == CountOf(sent[u].annex_b)
Shots == {AccessUnit(q, p) : q \in Nat, p \in Pictures}

SentInv == /\ sent \in Seq(Shots) /\ fec \in BOOLEAN
           /\ \A u \in DOMAIN sent : sent[u].seq = u

Carried(m) == \E u \in DOMAIN sent : \E f \in Fragments(sent[u], fec) : m = EncodeFragment(f)
FlightInv == \A m \in flight : Carried(m)

Shape(a) == a = [seq |-> a.seq, size |-> a.size, keyframe |-> a.keyframe,
                 count |-> a.count, stamp |-> a.stamp, wm |-> a.wm,
                 parts |-> a.parts, parity |-> a.parity]

Returned(q) == \E i \in DOMAIN out : out[i].seq = q

\* The assembler is on q and holds what arrived of it since it changed to q.
Partial(q) ==
  /\ asm.seq = q /\ asm.count = N(q) /\ DOMAIN asm.parts \subseteq 0 .. (N(q) - 1)
  /\ Held(asm) = {r[2] : r \in run} /\ ~Whole(asm)

RunInv ==
  /\ Shape(asm) /\ \E T : out \in Seq(T)
  /\ asm.seq # 0 => run # {} /\ \A r \in run : r[1] = asm.seq
  /\ run # {} => \E q \in DOMAIN sent : /\ \A r \in run : r[1] = q
                                        /\ Returned(q) \/ Partial(q)

ClvdInv == SentInv /\ FlightInv /\ RunInv

\* The access units that can be sent.
LEMMA ShotMade == ASSUME NEW q \in Nat, NEW p \in Pictures PROVE AccessUnit(q, p) \in Shots
BY DEF Shots

LEMMA ShotTyped ==
  ASSUME NEW au \in Shots
  PROVE  /\ au.annex_b \in Seq({0, 1}) /\ au.keyframe \in BOOLEAN
         /\ au.stamp \in Nat /\ au.wm \in Nat
BY ClvdAssumption DEF Shots, AccessUnit

\* Every fragment of an access unit says which and how many there are of it.
LEMMA FragmentHeaded ==
  ASSUME NEW au \in Shots, NEW parity \in BOOLEAN, NEW f \in Fragments(au, parity)
  PROVE  Headed(f) /\ f.seq = au.seq /\ f.count = CountOf(au.annex_b)
<1>1. CountOf(au.annex_b) \in Nat \ {0}
  BY ShotTyped, CountPositive
<1>2. QED
  BY <1>1, ShotTyped DEF Fragments, Headed

LEMMA InitInv == Init => ClvdInv
<1> SUFFICES ASSUME Init PROVE ClvdInv
  OBVIOUS
<1>1. SentInv /\ FlightInv
  BY DEF Init, SentInv, FlightInv
<1>2. Shape(asm) /\ asm.seq = 0
  BY DEF Init, Shape, Idle
<1>3. out \in Seq({}) /\ run = {}
  BY DEF Init
<1>4. QED
  BY <1>1, <1>2, <1>3 DEF ClvdInv, RunInv

\* An access unit more on the channel.
LEMMA SendKeeps == ClvdInv /\ Send => ClvdInv'
<1> SUFFICES ASSUME ClvdInv, Send PROVE ClvdInv'
  OBVIOUS
<1>1. PICK p \in Pictures :
        /\ sent' = Append(sent, AccessUnit(Len(sent) + 1, p))
        /\ flight' = flight \cup {EncodeFragment(f) :
                                     f \in Fragments(AccessUnit(Len(sent) + 1, p), fec)}
  BY DEF Send
<1> DEFINE au == AccessUnit(Len(sent) + 1, p)
<1>2. sent \in Seq(Shots) /\ Len(sent) \in Nat
  BY DEF ClvdInv, SentInv
<1>3. au \in Shots /\ au.seq = Len(sent) + 1
  <2>1. Len(sent) + 1 \in Nat
    BY <1>2
  <2>2. au \in Shots
    BY <2>1, ShotMade
  <2>3. QED
    BY <2>2 DEF AccessUnit
<1> HIDE DEF au
<1>4. /\ sent' \in Seq(Shots) /\ DOMAIN sent' = DOMAIN sent \cup {Len(sent) + 1}
      /\ sent'[Len(sent) + 1] = au /\ \A u \in DOMAIN sent : sent'[u] = sent[u]
  BY <1>1, <1>2, <1>3 DEF au
<1>5. fec' = fec /\ UNCHANGED <<asm, out, run>>
  BY DEF Send
<1>6. SentInv'
  BY <1>3, <1>4, <1>5 DEF ClvdInv, SentInv
<1>7. FlightInv'
  BY <1>1, <1>4, <1>5 DEF ClvdInv, FlightInv, Carried, au
<1>8. \A q \in DOMAIN sent : N(q)' = N(q)
  BY <1>4 DEF N
<1>9. RunInv'
  BY <1>4, <1>5, <1>8 DEF ClvdInv, RunInv, Returned, Partial
<1>10. QED
  BY <1>6, <1>7, <1>9 DEF ClvdInv

-----------------------------------------------------------------------------
(* A fragment arrives *)

\* Storing changes the parts and the parity, and what is stored is held.
LEMMA StoredShaped ==
  ASSUME NEW a, NEW f, Shape(a)
  PROVE  /\ Shape(Stored(a, f)) /\ Stored(a, f).seq = a.seq
         /\ Stored(a, f).count = a.count
BY DEF Stored, Shape

LEMMA StoredIsHeld ==
  ASSUME NEW a, NEW f, Shape(a), f.count = a.count, a.count \in Nat \ {0},
         f.idx \in 0 .. a.count, DOMAIN a.parts \subseteq 0 .. (a.count - 1)
  PROVE  /\ Shape(Stored(a, f)) /\ Stored(a, f).seq = a.seq
         /\ Stored(a, f).count = a.count
         /\ DOMAIN Stored(a, f).parts \subseteq 0 .. (a.count - 1)
         /\ Held(Stored(a, f)) = Held(a) \cup {f.idx}
<1>1. CASE f.idx = f.count
  BY <1>1 DEF Stored, Shape, Held
<1>2. CASE f.idx # f.count
  <2> DEFINE parts == [i \in DOMAIN a.parts \cup {f.idx} |->
                         IF i = f.idx THEN f.payload ELSE a.parts[i]]
  <2>1. DOMAIN parts = DOMAIN a.parts \cup {f.idx}
    OBVIOUS
  <2>2. Stored(a, f) = [a EXCEPT !.parts = parts]
    BY <1>2 DEF Stored
  <2> HIDE DEF parts
  <2>3. /\ Shape(Stored(a, f)) /\ Stored(a, f).seq = a.seq /\ Stored(a, f).count = a.count
        /\ Stored(a, f).parts = parts /\ Stored(a, f).parity = a.parity
    BY <2>2 DEF Shape
  <2>4. QED
    BY <1>2, <2>1, <2>3 DEF Held
<1>3. QED
  BY <1>1, <1>2

\* What the assembler goes on with, or starts over from.
LEMMA Adopted ==
  ASSUME NEW f, Shape(asm)
  PROVE  /\ Shape(Adopt(asm, f)) /\ Adopt(asm, f).seq = f.seq
         /\ asm.seq = f.seq => Adopt(asm, f) = asm
         /\ asm.seq # f.seq =>
              /\ Adopt(asm, f).count = f.count /\ DOMAIN Adopt(asm, f).parts = {}
              /\ Held(Adopt(asm, f)) = {}
<1>1. DOMAIN <<>> = {}
  OBVIOUS
<1>2. QED
  BY <1>1 DEF Adopt, Shape, Held

\* What arrived since the access unit last changed is all of one.
LEMMA OneAtATime ==
  ASSUME ClvdInv, NEW u, \E r \in run : r[1] = u
  PROVE  (\A r \in run : r[1] = u) /\ (Returned(u) \/ Partial(u))
<1>1. PICK r \in run : r[1] = u
  OBVIOUS
<1>2. PICK q \in DOMAIN sent : (\A x \in run : x[1] = q) /\ (Returned(q) \/ Partial(q))
  <2>1. run # {}
    BY <1>1
  <2>2. QED
    BY <2>1, Zenon DEF ClvdInv, RunInv
<1>3. q = u
  BY <1>1, <1>2
<1>4. QED
  BY <1>2, <1>3

\* A fragment of the access unit at hand joins the others; one of another starts
\* over; a late one changes nothing that was returned.
LEMMA ReceiveKeeps == ClvdInv /\ Receive => ClvdInv'
<1> SUFFICES ASSUME ClvdInv, Receive PROVE ClvdInv'
  OBVIOUS
<1>1. PICK m \in flight :
        /\ flight' = flight \ {m}
        /\ IF DecodeFragment(m).ok
           THEN /\ PushFragment(DecodeFragment(m))
                /\ run' = {r \in run : r[1] = DecodeFragment(m).seq}
                            \cup {<<DecodeFragment(m).seq, DecodeFragment(m).idx>>}
           ELSE UNCHANGED <<asm, out, run>>
        /\ UNCHANGED <<fec, sent>>
  BY DEF Receive
<1>2. PICK u \in DOMAIN sent : \E f \in Fragments(sent[u], fec) : m = EncodeFragment(f)
  BY DEF ClvdInv, FlightInv, Carried
<1> DEFINE g == DecodeFragment(m)
           a == Stored(Adopt(asm, g), g)
<1>3. g.ok /\ g.seq = u /\ g.count = N(u) /\ N(u) \in Nat \ {0} /\ g.idx \in 0 .. N(u)
  <2>1. PICK f \in Fragments(sent[u], fec) : m = EncodeFragment(f)
    BY <1>2
  <2>2. sent[u] \in Shots /\ sent[u].seq = u /\ fec \in BOOLEAN
    BY DEF ClvdInv, SentInv
  <2>3. Headed(f) /\ f.seq = u /\ f.count = N(u)
    BY <2>2, FragmentHeaded DEF N
  <2>4. g.ok /\ g.seq = f.seq /\ g.count = f.count /\ g.idx = f.idx
    BY <2>1, <2>3, HeaderReadBack
  <2>5. QED
    BY <2>3, <2>4 DEF Headed
<1>4. SentInv' /\ FlightInv'
  BY <1>1 DEF ClvdInv, SentInv, FlightInv, Carried
<1>5. /\ PushFragment(g) /\ UNCHANGED <<fec, sent>>
      /\ run' = {r \in run : r[1] = u} \cup {<<u, g.idx>>}
  BY <1>1, <1>3
<1> HIDE DEF g, a
<1>6. run' # {} /\ \A r \in run' : r[1] = u
  <2>1. <<u, g.idx>>[1] = u
    OBVIOUS
  <2>2. QED
    BY <1>5, <2>1
<1>7. N(u)' = N(u)
  BY <1>5 DEF N
<1>8. PICK T : out \in Seq(T)
  BY DEF ClvdInv, RunInv
<1>9. Shape(asm) /\ Shape(Adopt(asm, g)) /\ Adopt(asm, g).seq = u
  BY <1>3, Adopted DEF ClvdInv, RunInv
<1>10. Shape(a) /\ a.seq = u /\ a.count = Adopt(asm, g).count
  BY <1>9, StoredShaped DEF a
<1> DEFINE given == [seq |-> g.seq, size |-> a.size, keyframe |-> a.keyframe,
                     annex_b |-> Joined(a), stamp |-> a.stamp, wm |-> a.wm]
<1>11. \/ g.count # Adopt(asm, g).count /\ asm' = Adopt(asm, g) /\ out' = out
       \/ /\ g.count = Adopt(asm, g).count /\ Whole(a)
          /\ out' = Append(out, given)
          /\ asm' = [a EXCEPT !.seq = 0, !.parts = <<>>, !.parity = {}]
       \/ g.count = Adopt(asm, g).count /\ ~Whole(a) /\ asm' = a /\ out' = out
  BY <1>5 DEF PushFragment, a
<1>12. given.seq = u
  BY <1>3
<1> HIDE DEF given
<1>13. Shape(asm') /\ asm'.seq \in {0, u}
  BY <1>9, <1>10, <1>11 DEF Shape
<1>14. /\ \E S : out' \in Seq(S)
       /\ Returned(u) => Returned(u)'
       /\ out' = Append(out, given) => Returned(u)'
  <2>1. CASE out' = out
    BY <1>8, <2>1 DEF Returned
  <2>2. CASE out' = Append(out, given)
    <3> DEFINE S == T \cup {given}
    <3>1. out \in Seq(S) /\ Len(out) \in Nat
      BY <1>8
    <3>2. out' \in Seq(S)
      BY <2>2, <3>1
    <3>3. /\ Len(out) + 1 \in DOMAIN out' /\ out'[Len(out) + 1] = given
          /\ \A i \in DOMAIN out : i \in DOMAIN out' /\ out'[i] = out[i]
      BY <2>2, <3>1
    <3>4. Returned(u)'
      BY <1>12, <3>3 DEF Returned
    <3>5. QED
      BY <3>2, <3>4
  <2>3. QED
    BY <1>11, <2>1, <2>2
<1>15. ~Returned(u) =>
         /\ Adopt(asm, g).count = N(u) /\ DOMAIN Adopt(asm, g).parts \subseteq 0 .. (N(u) - 1)
         /\ Held(Adopt(asm, g)) = {r[2] : r \in {x \in run : x[1] = u}}
  <2> SUFFICES ASSUME ~Returned(u)
               PROVE  /\ Adopt(asm, g).count = N(u)
                      /\ DOMAIN Adopt(asm, g).parts \subseteq 0 .. (N(u) - 1)
                      /\ Held(Adopt(asm, g)) = {r[2] : r \in {x \in run : x[1] = u}}
    OBVIOUS
  <2>1. u # 0
    BY DEF ClvdInv, SentInv
  <2>2. \A r \in run : r[1] = u => asm.seq = u /\ Partial(u)
    BY OneAtATime DEF Partial
  <2>3. CASE asm.seq = u
    <3>1. run # {} /\ \A r \in run : r[1] = u
      BY <2>1, <2>3 DEF ClvdInv, RunInv
    <3>2. Partial(u) /\ {x \in run : x[1] = u} = run
      BY <2>2, <3>1
    <3>3. Adopt(asm, g) = asm
      BY <1>3, <1>9, <2>3, Adopted
    <3>4. QED
      BY <3>2, <3>3 DEF Partial
  <2>4. CASE asm.seq # u
    <3>1. {x \in run : x[1] = u} = {}
      BY <2>2, <2>4
    <3>2. /\ Adopt(asm, g).count = g.count /\ DOMAIN Adopt(asm, g).parts = {}
          /\ Held(Adopt(asm, g)) = {}
      BY <1>3, <1>9, <2>4, Adopted
    <3>3. QED
      BY <1>3, <3>1, <3>2
  <2>5. QED
    BY <2>3, <2>4
<1>16. Returned(u)' \/ Partial(u)'
  <2> SUFFICES ASSUME ~Returned(u), asm' = a, ~Whole(a) PROVE Partial(u)'
    BY <1>3, <1>11, <1>14, <1>15
  <2>1. /\ a.count = N(u) /\ DOMAIN a.parts \subseteq 0 .. (N(u) - 1)
        /\ Held(a) = Held(Adopt(asm, g)) \cup {g.idx}
    BY <1>3, <1>9, <1>15, StoredIsHeld DEF a
  <2>2. {r[2] : r \in run'} = {r[2] : r \in {x \in run : x[1] = u}} \cup {g.idx}
    <3>1. <<u, g.idx>>[2] = g.idx
      OBVIOUS
    <3>2. QED
      BY <1>5, <3>1
  <2>3. Held(a) = {r[2] : r \in run'}
    BY <1>15, <2>1, <2>2
  <2>4. QED
    BY <1>7, <1>10, <2>1, <2>3 DEF Partial, Held, Whole, Missing
<1>17. u \in DOMAIN sent'
  BY <1>5
<1>18. RunInv'
  BY <1>6, <1>13, <1>14, <1>16, <1>17 DEF RunInv
<1>19. QED
  BY <1>4, <1>18 DEF ClvdInv

-----------------------------------------------------------------------------
LEMMA StepInv == ClvdInv /\ [Next]_vars => ClvdInv'
<1> SUFFICES ASSUME ClvdInv, [Next]_vars PROVE ClvdInv'
  OBVIOUS
<1>1. ASSUME UNCHANGED <<fec, sent, asm, out, run>>, flight' \subseteq flight PROVE ClvdInv'
  BY <1>1 DEF ClvdInv, SentInv, FlightInv, Carried, RunInv, Returned, Partial, N
<1>2. CASE Lose
  BY <1>1, <1>2 DEF Lose
<1>3. CASE Done \/ UNCHANGED vars
  BY <1>1, <1>3 DEF Done, vars
<1>4. QED
  BY <1>2, <1>3, SendKeeps, ReceiveKeeps DEF Next

\* All fragments but one are more than an access unit that is not whole can hold.
LEMMA InvIsEnough == ClvdInv => EnoughIsEnough
<1> SUFFICES ASSUME ClvdInv, NEW u \in DOMAIN sent,
                    Cardinality({r[2] : r \in {q \in run : q[1] = u}}) >= N(u)
             PROVE  Returned(u)
  BY DEF EnoughIsEnough, N, Returned
<1>1. N(u) \in Nat \ {0}
  BY ShotTyped, CountPositive DEF ClvdInv, SentInv, N
<1>2. {q \in run : q[1] = u} # {}
  <2> SUFFICES ASSUME {q \in run : q[1] = u} = {} PROVE FALSE
    OBVIOUS
  <2>1. {r[2] : r \in {q \in run : q[1] = u}} = {}
    OBVIOUS
  <2>2. QED
    BY <1>1, <2>1, FS_EmptySet
<1>3. /\ \A r \in run : r[1] = u
      /\ Returned(u) \/ Partial(u)
  BY <1>2, OneAtATime
<1>4. CASE Partial(u)
  <2>1. {q \in run : q[1] = u} = run
    BY <1>3
  <2>2. Cardinality(Held(asm)) \in Nat /\ Cardinality(Held(asm)) < N(u)
    BY <1>1, <1>4, NotWholeIsShort DEF Partial
  <2>3. Held(asm) = {r[2] : r \in {q \in run : q[1] = u}}
    BY <1>4, <2>1 DEF Partial
  <2>4. QED
    BY <1>1, <2>2, <2>3
<1>5. QED
  BY <1>3, <1>4

\* For any size of access unit and of fragment, whatever is lost and in whatever
\* order the rest arrives, one fragment at most may be missing
\* (EnoughIsEnough in Clvd).
THEOREM OneMayBeMissing == Spec => []EnoughIsEnough
BY InitInv, StepInv, InvIsEnough, PTL DEF Spec

-----------------------------------------------------------------------------
(* What the assembler holds is what was sent *)

\* What can still arrive of an access unit, and what could still come together.
Left(u) == {DecodeFragment(m).idx : m \in {x \in flight : DecodeFragment(x).seq = u}}
Rest(u) == Left(u) \cup (IF asm.seq = u THEN Held(asm) ELSE {})

\* A fragment of u, and an assembler with fragments of u.
Carries(f, u) ==
  /\ f.seq = u /\ f.size = sent[u].size /\ f.keyframe = sent[u].keyframe
  /\ f.stamp = sent[u].stamp /\ f.wm = sent[u].wm
  /\ f.count = N(u) /\ f.idx \in 0 .. N(u)
  /\ f.idx # N(u) => f.payload = PieceOf(sent[u].annex_b, f.idx)
  /\ f.idx = N(u) => N(u) > 1 /\ f.payload = ParityOf(sent[u].annex_b)

Pieces(a, u) ==
  /\ a.size = sent[u].size /\ a.keyframe = sent[u].keyframe
  /\ a.stamp = sent[u].stamp /\ a.wm = sent[u].wm
  /\ a.count = N(u) /\ DOMAIN a.parts \subseteq 0 .. (N(u) - 1)
  /\ \A i \in DOMAIN a.parts : a.parts[i] = PieceOf(sent[u].annex_b, i)
  /\ a.parity # {} => N(u) > 1 /\ a.parity = {ParityOf(sent[u].annex_b)}

PiecesInv == asm.seq # 0 =>
  /\ asm.seq \in DOMAIN sent /\ Pieces(asm, asm.seq) /\ ~Whole(asm)
  /\ Held(asm) \cap Left(asm.seq) = {}

\* Of an access unit that was returned, one fragment at most is left to come, and
\* none of one that has no parity.
SpentInv ==
  /\ \A i \in DOMAIN out : out[i].seq \in DOMAIN sent
  /\ \A u \in DOMAIN sent : Returned(u) =>
        /\ \E x : Rest(u) \subseteq {x}
        /\ N(u) = 1 => Rest(u) = {}

ChannelInv == ClvdInv /\ PiecesInv /\ SpentInv

LEMMA UnitTyped ==
  ASSUME SentInv, NEW u \in DOMAIN sent
  PROVE  /\ sent[u] \in Shots /\ sent[u].seq = u /\ u \in Nat \ {0}
         /\ sent[u].annex_b \in Seq({0, 1}) /\ N(u) \in Nat \ {0}
<1>1. sent[u] \in Shots /\ sent[u].seq = u /\ u \in Nat \ {0}
  BY DEF SentInv
<1>2. QED
  BY <1>1, ShotTyped, CountPositive DEF N

\* A fragment is one of its access unit, and the index says which.
LEMMA FragmentCarries ==
  ASSUME SentInv, NEW u \in DOMAIN sent, NEW f \in Fragments(sent[u], fec)
  PROVE  Carries(f, u) /\ Headed(f)
<1>1. /\ sent[u] \in Shots /\ sent[u].seq = u /\ fec \in BOOLEAN
      /\ N(u) \in Nat \ {0}
  BY UnitTyped DEF SentInv
<1>2. Headed(f)
  BY <1>1, FragmentHeaded
<1>3. Carries(f, u)
  BY <1>1 DEF Fragments, Carries, N
<1>4. QED
  BY <1>2, <1>3

LEMMA FragmentsDiffer ==
  ASSUME SentInv, NEW u \in DOMAIN sent,
         NEW f \in Fragments(sent[u], fec), NEW g \in Fragments(sent[u], fec), f.idx = g.idx
  PROVE  f = g
<1>1. N(u) \in Nat \ {0}
  BY UnitTyped
<1>2. QED
  BY <1>1 DEF Fragments, N

\* Every message is read as the fragment it was written from.
LEMMA MessageRead ==
  ASSUME SentInv, FlightInv, NEW m \in flight
  PROVE  \E u \in DOMAIN sent : \E f \in Fragments(sent[u], fec) :
            /\ m = EncodeFragment(f) /\ DecodeFragment(m).ok
            /\ Carries(DecodeFragment(m), u) /\ DecodeFragment(m).idx = f.idx
<1>1. PICK u \in DOMAIN sent : \E f \in Fragments(sent[u], fec) : m = EncodeFragment(f)
  BY DEF FlightInv, Carried
<1> PICK f \in Fragments(sent[u], fec) : m = EncodeFragment(f)
  BY <1>1
<1>2. Carries(f, u) /\ Headed(f)
  BY <1>1, FragmentCarries
<1>3. DecodeFragment(m) =
        [ok |-> TRUE, seq |-> f.seq, size |-> f.size, keyframe |-> f.keyframe,
         idx |-> f.idx, count |-> f.count, stamp |-> f.stamp, wm |-> f.wm,
         payload |-> f.payload]
  BY <1>1, <1>2, HeaderReadBack
<1>4. DecodeFragment(m).ok /\ DecodeFragment(m).idx = f.idx
  BY <1>3
<1>5. Carries(DecodeFragment(m), u)
  BY <1>2, <1>3 DEF Carries
<1>6. QED
  BY <1>1, <1>4, <1>5

LEMMA LeftBounded ==
  ASSUME SentInv, FlightInv, NEW u \in DOMAIN sent
  PROVE  Left(u) \subseteq 0 .. N(u) /\ (N(u) = 1 => Left(u) \subseteq {0})
<1> SUFFICES ASSUME NEW m \in flight, DecodeFragment(m).seq = u
             PROVE  /\ DecodeFragment(m).idx \in 0 .. N(u)
                    /\ N(u) = 1 => DecodeFragment(m).idx = 0
  BY DEF Left
<1>1. PICK v \in DOMAIN sent : Carries(DecodeFragment(m), v)
  BY MessageRead
<1>2. v = u
  BY <1>1 DEF Carries
<1>3. N(u) \in Nat \ {0}
  BY UnitTyped
<1>4. QED
  BY <1>1, <1>2, <1>3 DEF Carries

\* A message arrives: it is gone from the channel, and no other has its index.
LEMMA Received ==
  ASSUME ClvdInv, Receive
  PROVE  \E u \in DOMAIN sent : \E g :
            /\ Carries(g, u) /\ PushFragment(g) /\ UNCHANGED <<fec, sent>>
            /\ g.idx \in Left(u) /\ Left(u)' = Left(u) \ {g.idx}
            /\ \A v : v # u => Left(v)' = Left(v)
<1>1. PICK m \in flight :
        /\ flight' = flight \ {m}
        /\ DecodeFragment(m).ok => PushFragment(DecodeFragment(m))
        /\ UNCHANGED <<fec, sent>>
  BY DEF Receive
<1>2. SentInv /\ FlightInv
  BY DEF ClvdInv
<1> PICK u \in DOMAIN sent : \E f \in Fragments(sent[u], fec) :
        /\ m = EncodeFragment(f) /\ DecodeFragment(m).ok
        /\ Carries(DecodeFragment(m), u) /\ DecodeFragment(m).idx = f.idx
  BY <1>2, MessageRead
<1>3. PICK f \in Fragments(sent[u], fec) :
        /\ m = EncodeFragment(f) /\ DecodeFragment(m).ok
        /\ Carries(DecodeFragment(m), u) /\ DecodeFragment(m).idx = f.idx
  OBVIOUS
<1> DEFINE g == DecodeFragment(m)
<1>4. g.seq = u
  BY <1>3 DEF Carries
<1>5. g.idx \in Left(u)
  BY <1>4 DEF Left
<1>6. ASSUME NEW x \in flight, DecodeFragment(x).seq = u, DecodeFragment(x).idx = g.idx
      PROVE  x = m
  <2> PICK v \in DOMAIN sent : \E h \in Fragments(sent[v], fec) :
          /\ x = EncodeFragment(h)
          /\ Carries(DecodeFragment(x), v) /\ DecodeFragment(x).idx = h.idx
    BY <1>2, MessageRead
  <2>1. PICK h \in Fragments(sent[v], fec) :
          /\ x = EncodeFragment(h)
          /\ Carries(DecodeFragment(x), v) /\ DecodeFragment(x).idx = h.idx
    OBVIOUS
  <2>2. v = u
    BY <1>6, <2>1 DEF Carries
  <2>3. h = f
    BY <1>2, <1>3, <1>6, <2>1, <2>2, FragmentsDiffer
  <2>4. QED
    BY <1>3, <2>1, <2>3
<1>7. Left(u)' = Left(u) \ {g.idx}
  <2>1. Left(u)' = {DecodeFragment(x).idx : x \in {y \in flight' : DecodeFragment(y).seq = u}}
    BY DEF Left
  <2>2. QED
    BY <1>1, <1>4, <1>6, <2>1 DEF Left
<1>8. ASSUME NEW v, v # u PROVE Left(v)' = Left(v)
  <2>1. Left(v)' = {DecodeFragment(x).idx : x \in {y \in flight' : DecodeFragment(y).seq = v}}
    BY DEF Left
  <2>2. {y \in flight' : DecodeFragment(y).seq = v} = {y \in flight : DecodeFragment(y).seq = v}
    BY <1>1, <1>4, <1>8
  <2>3. QED
    BY <2>1, <2>2 DEF Left
<1>9. PushFragment(g)
  BY <1>1, <1>3
<1> HIDE DEF g
<1>10. QED
  BY <1>1, <1>3, <1>5, <1>7, <1>8, <1>9 DEF g

-----------------------------------------------------------------------------
(* The assembler's step *)

\* What it goes on with when f arrives.
LEMMA AdoptedPieces ==
  ASSUME SentInv, PiecesInv, Shape(asm), NEW u \in DOMAIN sent, NEW f, Carries(f, u)
  PROVE  /\ Shape(Adopt(asm, f)) /\ Adopt(asm, f).seq = u /\ Pieces(Adopt(asm, f), u)
         /\ Held(Adopt(asm, f)) \cap Left(u) = {}
         /\ Left(u) \cup Held(Adopt(asm, f)) \subseteq Rest(u)
<1>1. f.seq = u /\ u # 0 /\ N(u) \in Nat
  BY UnitTyped DEF Carries
<1>2. CASE asm.seq = u
  <2>1. Adopt(asm, f) = asm
    BY <1>1, <1>2 DEF Adopt
  <2>2. QED
    BY <1>1, <1>2, <2>1 DEF PiecesInv, Rest
<1>3. CASE asm.seq # u
  <2> DEFINE a == Adopt(asm, f)
  <2>1. a = [seq |-> f.seq, size |-> f.size, keyframe |-> f.keyframe, count |-> f.count,
             stamp |-> f.stamp, wm |-> f.wm, parts |-> <<>>, parity |-> {}]
    BY <1>1, <1>3 DEF Adopt
  <2>2. DOMAIN <<>> = {}
    OBVIOUS
  <2>3. /\ Shape(a) /\ a.seq = u /\ DOMAIN a.parts = {} /\ a.parity = {}
        /\ a.size = f.size /\ a.keyframe = f.keyframe /\ a.count = f.count
        /\ a.stamp = f.stamp /\ a.wm = f.wm
    BY <1>1, <2>1, <2>2 DEF Shape
  <2> HIDE DEF a
  <2>4. Held(a) = {} /\ Pieces(a, u)
    BY <2>3 DEF Held, Pieces, Carries
  <2>5. QED
    BY <2>3, <2>4 DEF Rest, a
<1>4. QED
  BY <1>2, <1>3

LEMMA StoredPieces ==
  ASSUME NEW u \in DOMAIN sent, NEW a, NEW f, Shape(a), Pieces(a, u), Carries(f, u),
         N(u) \in Nat \ {0}
  PROVE  /\ Shape(Stored(a, f)) /\ Stored(a, f).seq = a.seq /\ Pieces(Stored(a, f), u)
         /\ Held(Stored(a, f)) = Held(a) \cup {f.idx}
<1>1. /\ f.count = a.count /\ a.count \in Nat \ {0} /\ f.idx \in 0 .. a.count
      /\ DOMAIN a.parts \subseteq 0 .. (a.count - 1) /\ a.count = N(u)
  BY DEF Pieces, Carries
<1>2. /\ Shape(Stored(a, f)) /\ Stored(a, f).seq = a.seq /\ Stored(a, f).count = a.count
      /\ DOMAIN Stored(a, f).parts \subseteq 0 .. (a.count - 1)
      /\ Held(Stored(a, f)) = Held(a) \cup {f.idx}
  BY <1>1, StoredIsHeld
<1>3. /\ Stored(a, f).size = a.size /\ Stored(a, f).keyframe = a.keyframe
      /\ Stored(a, f).stamp = a.stamp /\ Stored(a, f).wm = a.wm
  BY DEF Stored, Shape
<1>4. CASE f.idx = f.count
  <2>1. Stored(a, f).parts = a.parts /\ Stored(a, f).parity = {f.payload}
    BY <1>4 DEF Stored, Shape
  <2>2. N(u) > 1 /\ f.payload = ParityOf(sent[u].annex_b)
    BY <1>1, <1>4 DEF Carries
  <2>3. Pieces(Stored(a, f), u)
    BY <1>1, <1>2, <1>3, <2>1, <2>2 DEF Pieces
  <2>4. QED
    BY <1>2, <2>3
<1>5. CASE f.idx # f.count
  <2> DEFINE parts == [i \in DOMAIN a.parts \cup {f.idx} |->
                         IF i = f.idx THEN f.payload ELSE a.parts[i]]
  <2>1. Stored(a, f) = [a EXCEPT !.parts = parts]
    BY <1>5 DEF Stored
  <2>2. f.payload = PieceOf(sent[u].annex_b, f.idx)
    BY <1>1, <1>5 DEF Carries
  <2>3. \A i \in DOMAIN parts : parts[i] = PieceOf(sent[u].annex_b, i)
    BY <2>2 DEF Pieces
  <2> HIDE DEF parts
  <2>4. Stored(a, f).parts = parts /\ Stored(a, f).parity = a.parity
    BY <2>1 DEF Shape
  <2>5. Pieces(Stored(a, f), u)
    BY <1>1, <1>2, <1>3, <2>3, <2>4 DEF Pieces
  <2>6. QED
    BY <1>2, <2>5
<1>6. QED
  BY <1>4, <1>5

\* What it gives out is what was cut.
LEMMA WholeJoined ==
  ASSUME SentInv, NEW u \in DOMAIN sent, NEW a, Pieces(a, u), Whole(a)
  PROVE  Joined(a) = sent[u].annex_b
<1> DEFINE p == sent[u].annex_b
           n == CountOf(p)
<1>1. p \in Seq({0, 1}) /\ n \in Nat \ {0} /\ a.count = n
  BY UnitTyped DEF Pieces, N
<1>2. /\ DOMAIN a.parts \subseteq 0 .. (n - 1)
      /\ \A i \in DOMAIN a.parts : a.parts[i] = PieceOf(p, i)
      /\ a.parity # {} => a.parity = {ParityOf(p)}
  BY DEF Pieces, N
<1>3. Missing(a) = (0 .. (n - 1)) \ DOMAIN a.parts
  BY <1>1 DEF Missing
<1> HIDE DEF p, n
<1>4. ASSUME NEW i \in 0 .. (n - 1) PROVE Piece(a, i) = PieceOf(p, i)
  <2>1. CASE i \in DOMAIN a.parts
    BY <1>2, <2>1 DEF Piece
  <2>2. CASE i \notin DOMAIN a.parts
    <3>1. i \in Missing(a)
      BY <1>3, <2>2
    <3>2. Cardinality(Missing(a)) = 1 /\ a.parity # {}
      BY <3>1 DEF Whole
    <3>3. IsFiniteSet(Missing(a))
      <4>1. IsFiniteSet(0 .. (n - 1)) /\ Missing(a) \subseteq 0 .. (n - 1)
        BY <1>1, <1>3, FS_Interval
      <4>2. QED
        BY <4>1, FS_Subset
    <3>4. Missing(a) = {i}
      <4>1. PICK x : Missing(a) = {x}
        BY <3>2, <3>3, FS_Singleton
      <4>2. QED
        BY <3>1, <4>1
    <3>5. DOMAIN a.parts = (0 .. (n - 1)) \ {i}
      BY <1>2, <1>3, <3>4
    <3>6. (CHOOSE x \in a.parity : TRUE) = ParityOf(p)
      BY <1>2, <3>2
    <3>7. Recovered(a.parts, i, n, ParityOf(p)) = PieceOf(p, i)
      BY <1>1, <1>2, <3>5, ParityRecovers DEF n
    <3>8. QED
      BY <1>1, <2>2, <3>6, <3>7 DEF Piece
  <2>3. QED
    BY <2>1, <2>2
<1>5. [i \in 1 .. n |-> Piece(a, i - 1)] = [i \in 1 .. n |-> PieceOf(p, i - 1)]
  <2>1. \A i \in 1 .. n : i - 1 \in 0 .. (n - 1)
    BY <1>1
  <2>2. \A i \in 1 .. n : Piece(a, i - 1) = PieceOf(p, i - 1)
    BY <1>4, <2>1
  <2>3. QED
    BY <2>2
<1>6. FlattenSeq([i \in 1 .. n |-> PieceOf(p, i - 1)]) = p
  BY <1>1, PiecesJoin DEF n
<1>7. QED
  BY <1>1, <1>5, <1>6 DEF Joined, p

\* Of what it gave out, one fragment at most is left; one fragment is not enough
\* for an access unit of two or more.
LEMMA OneIsLeft ==
  ASSUME NEW u \in DOMAIN sent, NEW a, Pieces(a, u), Whole(a), N(u) \in Nat \ {0},
         NEW L, L \subseteq 0 .. N(u), N(u) = 1 => L \subseteq {0}, Held(a) \cap L = {}
  PROVE  (\E x : L \subseteq {x}) /\ (N(u) = 1 => L = {})
<1>1. /\ a.count = N(u) /\ DOMAIN a.parts \subseteq 0 .. (N(u) - 1)
      /\ a.parity # {} => N(u) > 1
  BY DEF Pieces
<1>2. CASE Missing(a) = {}
  <2>1. DOMAIN a.parts = 0 .. (N(u) - 1)
    BY <1>1, <1>2 DEF Missing
  <2>2. L \subseteq {N(u)} /\ (N(u) = 1 => L = {})
    BY <2>1 DEF Held
  <2>3. QED
    BY <2>2
<1>3. CASE Cardinality(Missing(a)) = 1 /\ a.parity # {}
  <2>1. IsFiniteSet(Missing(a))
    <3>1. IsFiniteSet(0 .. (N(u) - 1)) /\ Missing(a) \subseteq 0 .. (N(u) - 1)
      BY <1>1, FS_Interval DEF Missing
    <3>2. QED
      BY <3>1, FS_Subset
  <2>2. PICK x : Missing(a) = {x}
    BY <1>3, <2>1, FS_Singleton
  <2>3. L \subseteq {x}
    BY <1>1, <1>3, <2>2 DEF Held, Missing
  <2>4. QED
    BY <1>1, <1>3, <2>3
<1>4. QED
  BY <1>2, <1>3 DEF Whole

LEMMA OneIsTooFew ==
  ASSUME NEW u \in DOMAIN sent, NEW a, Pieces(a, u), N(u) \in Nat, N(u) > 1,
         NEW x, Held(a) \subseteq {x}
  PROVE  ~Whole(a)
<1>1. a.count = N(u) /\ DOMAIN a.parts \subseteq 0 .. (N(u) - 1)
  BY DEF Pieces
<1>2. 0 \in 0 .. (N(u) - 1) /\ 1 \in 0 .. (N(u) - 1) /\ N(u) \notin 0 .. (N(u) - 1) /\ 0 # 1
  OBVIOUS
<1>3. DOMAIN a.parts \subseteq {x}
  BY DEF Held
<1>4. Missing(a) # {}
  BY <1>1, <1>2, <1>3 DEF Missing
<1>5. ASSUME a.parity # {}, Cardinality(Missing(a)) = 1 PROVE FALSE
  <2>1. x = N(u) /\ DOMAIN a.parts = {}
    BY <1>1, <1>2, <1>3, <1>5 DEF Held
  <2>2. Missing(a) = 0 .. (N(u) - 1)
    BY <1>1, <2>1 DEF Missing
  <2>3. Cardinality(0 .. (N(u) - 1)) = N(u)
    BY FS_Interval
  <2>4. QED
    BY <1>5, <2>2, <2>3
<1>6. QED
  BY <1>4, <1>5 DEF Whole

\* A message arrives: an access unit is given out as it was sent, for the first
\* time, or nothing is.
LEMMA ReceiveDelivers ==
  ASSUME ChannelInv, Receive
  PROVE  /\ PiecesInv' /\ SpentInv'
         /\ \/ out' = out
            \/ \E u \in DOMAIN sent : ~Returned(u) /\ out' = Append(out, sent[u])
<1>1. SentInv /\ FlightInv /\ RunInv /\ PiecesInv /\ SpentInv /\ Shape(asm)
  BY DEF ChannelInv, ClvdInv, RunInv
<1> PICK u \in DOMAIN sent : \E g :
            /\ Carries(g, u) /\ PushFragment(g) /\ UNCHANGED <<fec, sent>>
            /\ g.idx \in Left(u) /\ Left(u)' = Left(u) \ {g.idx}
            /\ \A v : v # u => Left(v)' = Left(v)
  BY Received DEF ChannelInv
<1>2. PICK g :
        /\ Carries(g, u) /\ PushFragment(g) /\ UNCHANGED <<fec, sent>>
        /\ g.idx \in Left(u) /\ Left(u)' = Left(u) \ {g.idx}
        /\ \A v : v # u => Left(v)' = Left(v)
  OBVIOUS
<1>3. /\ sent[u] \in Shots /\ sent[u].seq = u /\ u \in Nat \ {0} /\ N(u) \in Nat \ {0}
      /\ Left(u) \subseteq 0 .. N(u) /\ (N(u) = 1 => Left(u) \subseteq {0})
  BY <1>1, UnitTyped, LeftBounded
<1> DEFINE b == Adopt(asm, g)
           a == Stored(b, g)
           given == [seq |-> g.seq, size |-> a.size, keyframe |-> a.keyframe,
                     annex_b |-> Joined(a), stamp |-> a.stamp, wm |-> a.wm]
<1>4. /\ Shape(b) /\ b.seq = u /\ Pieces(b, u) /\ Held(b) \cap Left(u) = {}
      /\ Left(u) \cup Held(b) \subseteq Rest(u)
  BY <1>1, <1>2, AdoptedPieces
<1>5. g.count = b.count /\ g.seq = u
  BY <1>2, <1>4 DEF Carries, Pieces
<1>6. \/ /\ Whole(a) /\ out' = Append(out, given)
         /\ asm' = [a EXCEPT !.seq = 0, !.parts = <<>>, !.parity = {}]
      \/ ~Whole(a) /\ asm' = a /\ out' = out
  BY <1>2, <1>5 DEF PushFragment
<1> HIDE DEF b
<1>7. /\ Shape(a) /\ a.seq = u /\ Pieces(a, u) /\ Held(a) = Held(b) \cup {g.idx}
  BY <1>2, <1>3, <1>4, StoredPieces
<1> HIDE DEF a
<1>8. Held(a) \cap Left(u)' = {} /\ Held(a) \cup Left(u)' \subseteq Rest(u)
  BY <1>2, <1>4, <1>7
<1>9. \A v \in DOMAIN sent : N(v)' = N(v) /\ (\A c : Pieces(c, v)' <=> Pieces(c, v))
  BY <1>2 DEF N, Pieces
<1>10. CASE ~Whole(a) /\ asm' = a /\ out' = out
  <2>1. Held(asm)' = Held(a) /\ Whole(asm)' = Whole(a)
    BY <1>10 DEF Held, Whole, Missing
  <2>2. PiecesInv'
    <3>1. asm'.seq = u /\ u \in DOMAIN sent'
      BY <1>2, <1>7, <1>10
    <3>2. Pieces(asm, u)'
      BY <1>7, <1>9, <1>10
    <3>3. Held(asm)' \cap Left(u)' = {}
      BY <1>8, <2>1
    <3>4. ~Whole(asm)'
      BY <1>10, <2>1
    <3>5. Left(asm.seq)' = Left(u)' /\ (Pieces(asm, asm.seq)' <=> Pieces(asm, u)')
      BY <3>1 DEF Left, Pieces, N
    <3>6. QED
      BY <3>1, <3>2, <3>3, <3>4, <3>5 DEF PiecesInv
  <2>3. \A v \in DOMAIN sent : Rest(v)' \subseteq Rest(v)
    <3> SUFFICES ASSUME NEW v \in DOMAIN sent PROVE Rest(v)' \subseteq Rest(v)
      OBVIOUS
    <3>1. asm'.seq = u
      BY <1>7, <1>10
    <3>2. CASE v = u
      BY <1>8, <2>1, <3>1, <3>2 DEF Rest
    <3>3. CASE v # u
      BY <1>2, <3>1, <3>3 DEF Rest
    <3>4. QED
      BY <3>2, <3>3
  <2>4. \A v : Returned(v)' <=> Returned(v)
    BY <1>10 DEF Returned
  <2>5. SpentInv'
    BY <1>1, <1>2, <1>9, <1>10, <2>3, <2>4 DEF SpentInv
  <2>6. QED
    BY <1>10, <2>2, <2>5
<1>11. CASE /\ Whole(a) /\ out' = Append(out, given)
            /\ asm' = [a EXCEPT !.seq = 0, !.parts = <<>>, !.parity = {}]
  <2>1. asm'.seq = 0
    BY <1>7, <1>11 DEF Shape
  <2>2. PiecesInv'
    BY <2>1 DEF PiecesInv
  <2>3. ~Returned(u)
    <3> SUFFICES ASSUME Returned(u) PROVE FALSE
      OBVIOUS
    <3>1. PICK x : Rest(u) \subseteq {x}
      BY <1>1 DEF SpentInv
    <3>2. N(u) # 1
      BY <1>1, <1>2, <1>4 DEF SpentInv
    <3>3. Held(a) \subseteq {x} /\ N(u) > 1 /\ N(u) \in Nat
      BY <1>3, <1>8, <3>1, <3>2
    <3>4. QED
      BY <1>7, <1>11, <3>3, OneIsTooFew
  <2>4. given = sent[u]
    <3>1. Joined(a) = sent[u].annex_b
      BY <1>1, <1>7, <1>11, WholeJoined
    <3>2. sent[u] = [seq |-> u, size |-> sent[u].size, keyframe |-> sent[u].keyframe,
                     annex_b |-> sent[u].annex_b, stamp |-> sent[u].stamp, wm |-> sent[u].wm]
      BY <1>3 DEF Shots, AccessUnit
    <3>3. QED
      BY <1>5, <1>7, <3>1, <3>2 DEF Pieces
  <2> HIDE DEF given
  <2>5. PICK T : out \in Seq(T)
    BY <1>1 DEF RunInv
  <2>6. /\ Len(out) \in Nat /\ DOMAIN out = 1 .. Len(out)
        /\ DOMAIN out' = 1 .. (Len(out) + 1) /\ out'[Len(out) + 1] = sent[u]
        /\ \A i \in DOMAIN out : out'[i] = out[i]
    <3> DEFINE S == T \cup {sent[u]}
    <3>1. out \in Seq(S)
      BY <2>5
    <3>2. QED
      BY <1>11, <2>4, <3>1
  <2>7. \A v : Returned(v)' => v = u \/ Returned(v)
    <3> SUFFICES ASSUME NEW v, NEW i \in DOMAIN out', out'[i].seq = v
                 PROVE  v = u \/ \E k \in DOMAIN out : out[k].seq = v
      BY DEF Returned
    <3>1. i \in DOMAIN out \/ i = Len(out) + 1
      BY <2>6
    <3>2. QED
      BY <1>3, <2>6, <3>1
  <2>8. \A v \in DOMAIN sent : Rest(v)' = Left(v)'
    BY <1>2, <2>1 DEF Rest, SentInv, ChannelInv, ClvdInv
  <2>9. \A i \in DOMAIN out' : out'[i].seq \in DOMAIN sent'
    <3> SUFFICES ASSUME NEW i \in DOMAIN out' PROVE out'[i].seq \in DOMAIN sent
      BY <1>2
    <3>1. i \in DOMAIN out \/ i = Len(out) + 1
      BY <2>6
    <3>2. QED
      BY <1>1, <1>3, <2>6, <3>1 DEF SpentInv
  <2>10. (\E x : Rest(u)' \subseteq {x}) /\ (N(u) = 1 => Rest(u)' = {})
    <3>1. Left(u)' \subseteq 0 .. N(u) /\ (N(u) = 1 => Left(u)' \subseteq {0})
      BY <1>2, <1>3
    <3>2. (\E x : Left(u)' \subseteq {x}) /\ (N(u) = 1 => Left(u)' = {})
      BY <1>3, <1>7, <1>8, <1>11, <3>1, OneIsLeft
    <3>3. QED
      BY <2>8, <3>2
  <2>11. ASSUME NEW v \in DOMAIN sent, v # u, Returned(v)
         PROVE  (\E x : Rest(v)' \subseteq {x}) /\ (N(v) = 1 => Rest(v)' = {})
    <3>1. Rest(v)' \subseteq Rest(v)
      BY <1>2, <2>8, <2>11 DEF Rest
    <3>2. QED
      BY <1>1, <2>11, <3>1 DEF SpentInv
  <2>12. SpentInv'
    BY <1>2, <1>9, <2>7, <2>9, <2>10, <2>11 DEF SpentInv
  <2>13. QED
    BY <1>11, <2>2, <2>3, <2>4, <2>12
<1>12. QED
  BY <1>6, <1>10, <1>11

\* An access unit more is sent: none of it was given out, or has been read.
LEMMA SendChannel ==
  ASSUME ChannelInv, Send
  PROVE  /\ PiecesInv' /\ SpentInv' /\ out' = out
         /\ \E p \in Pictures : LET au == AccessUnit(Len(sent) + 1, p) IN
               /\ sent' = Append(sent, au) /\ Len(sent) + 1 \in 1 .. Units
               /\ \A v \in DOMAIN sent : sent[v] # au
<1>1. PICK p \in Pictures :
        /\ sent' = Append(sent, AccessUnit(Len(sent) + 1, p))
        /\ flight' = flight \cup {EncodeFragment(f) :
                                     f \in Fragments(AccessUnit(Len(sent) + 1, p), fec)}
  BY DEF Send
<1> DEFINE k == Len(sent) + 1
           au == AccessUnit(k, p)
<1>2. SentInv /\ FlightInv /\ PiecesInv /\ SpentInv
  BY DEF ChannelInv, ClvdInv
<1>3. sent \in Seq(Shots) /\ Len(sent) \in Nat /\ k \in 1 .. Units /\ Units \in Nat
  BY <1>2, ClvdAssumption DEF SentInv, Send
<1>4. au \in Shots /\ au.seq = k
  <2>1. au \in Shots
    BY <1>3, ShotMade
  <2>2. QED
    BY <2>1 DEF AccessUnit
<1> HIDE DEF au
<1>5. /\ DOMAIN sent = 1 .. Len(sent) /\ DOMAIN sent' = 1 .. k
      /\ sent'[k] = au /\ \A v \in DOMAIN sent : v \in DOMAIN sent' /\ sent'[v] = sent[v] /\ v # k
  BY <1>1, <1>3, <1>4 DEF au
<1>6. UNCHANGED <<fec, asm, out>>
  BY DEF Send
<1>7. \A v \in DOMAIN sent : sent[v] # au
  BY <1>2, <1>4, <1>5 DEF SentInv
<1>8. \A v \in DOMAIN sent : N(v)' = N(v) /\ (\A c : Pieces(c, v)' <=> Pieces(c, v))
  BY <1>5 DEF N, Pieces
<1>9. ASSUME NEW v \in DOMAIN sent PROVE Left(v)' = Left(v)
  <2>1. \A f \in Fragments(au, fec) : DecodeFragment(EncodeFragment(f)).seq = k
    <3> SUFFICES ASSUME NEW f \in Fragments(au, fec)
                 PROVE  DecodeFragment(EncodeFragment(f)).seq = k
      OBVIOUS
    <3>1. Headed(f) /\ f.seq = k
      BY <1>2, <1>4, FragmentHeaded DEF SentInv
    <3>2. QED
      BY <3>1, HeaderReadBack
  <2>2. flight' = flight \cup {EncodeFragment(f) : f \in Fragments(au, fec)}
    BY <1>1 DEF au
  <2>3. {x \in flight' : DecodeFragment(x).seq = v} = {x \in flight : DecodeFragment(x).seq = v}
    BY <1>5, <2>1, <2>2
  <2>4. Left(v)' = {DecodeFragment(x).idx : x \in {y \in flight' : DecodeFragment(y).seq = v}}
    BY DEF Left
  <2>5. QED
    BY <2>3, <2>4 DEF Left
<1>10. PiecesInv'
  <2> SUFFICES ASSUME asm.seq # 0
               PROVE  /\ asm.seq \in DOMAIN sent' /\ Pieces(asm, asm.seq)' /\ ~Whole(asm)'
                      /\ Held(asm)' \cap Left(asm.seq)' = {}
    BY <1>6 DEF PiecesInv
  <2>1. Whole(asm)' = Whole(asm) /\ Held(asm)' = Held(asm)
    BY <1>6 DEF Whole, Held, Missing
  <2>2. asm.seq \in DOMAIN sent
    BY <1>2 DEF PiecesInv
  <2>3. Left(asm.seq)' = Left(asm.seq)
    <3>1. PICK v \in DOMAIN sent : v = asm.seq
      BY <2>2
    <3>2. Left(v)' = Left(v) /\ Left(asm.seq)' = Left(v)'
      BY <1>6, <1>9, <3>1 DEF Left
    <3>3. QED
      BY <3>1, <3>2
  <2>4. Pieces(asm, asm.seq)' <=> Pieces(asm, asm.seq)
    <3>1. PICK v \in DOMAIN sent : v = asm.seq
      BY <2>2
    <3>2. Pieces(asm, v)' <=> Pieces(asm, v)
      BY <1>6, <1>8 DEF Pieces, N
    <3>3. Pieces(asm, asm.seq)' <=> Pieces(asm, v)'
      BY <1>6, <3>1 DEF Pieces, N
    <3>4. QED
      BY <3>1, <3>2, <3>3
  <2>5. QED
    BY <1>2, <1>5, <2>1, <2>2, <2>3, <2>4 DEF PiecesInv
<1>11. SpentInv'
  <2>1. \A v : Returned(v)' <=> Returned(v)
    BY <1>6 DEF Returned
  <2>2. ~Returned(k)
    BY <1>2, <1>5 DEF SpentInv, Returned
  <2>3. \A v \in DOMAIN sent : Rest(v)' = Rest(v)
    BY <1>6, <1>9 DEF Rest, Held
  <2>4. ASSUME NEW v \in DOMAIN sent', Returned(v)
        PROVE  (\E x : Rest(v)' \subseteq {x}) /\ (N(v)' = 1 => Rest(v)' = {})
    <3>1. v \in DOMAIN sent
      BY <1>3, <1>5, <2>2, <2>4
    <3>2. QED
      BY <1>2, <1>8, <2>3, <2>4, <3>1 DEF SpentInv
  <2>5. \A i \in DOMAIN out' : out'[i].seq \in DOMAIN sent'
    BY <1>2, <1>5, <1>6 DEF SpentInv
  <2>6. QED
    BY <2>1, <2>4, <2>5 DEF SpentInv
<1>12. QED
  BY <1>1, <1>3, <1>6, <1>7, <1>10, <1>11 DEF au

LEMMA InitChannel == Init => ChannelInv
<1> SUFFICES ASSUME Init PROVE ChannelInv
  OBVIOUS
<1>1. asm.seq = 0 /\ out = <<>> /\ DOMAIN out = {}
  BY DEF Init, Idle
<1>2. PiecesInv /\ SpentInv
  BY <1>1 DEF PiecesInv, SpentInv, Returned
<1>3. QED
  BY <1>2, InitInv DEF ChannelInv

LEMMA StepChannel == ChannelInv /\ [Next]_vars => ChannelInv'
<1> SUFFICES ASSUME ChannelInv, [Next]_vars PROVE ChannelInv'
  OBVIOUS
<1>1. ASSUME UNCHANGED <<fec, sent, asm, out>>, flight' \subseteq flight
      PROVE  PiecesInv' /\ SpentInv'
  <2>1. \A v : Left(v)' \subseteq Left(v) /\ N(v)' = N(v)
    BY <1>1 DEF Left, N
  <2>2. Held(asm)' = Held(asm) /\ Whole(asm)' = Whole(asm)
    BY <1>1 DEF Held, Whole, Missing
  <2>3. Pieces(asm, asm.seq)' = Pieces(asm, asm.seq)
    BY <1>1 DEF Pieces, N
  <2>4. Left(asm.seq)' \subseteq Left(asm.seq)
    BY <1>1 DEF Left
  <2>5. PiecesInv'
    BY <1>1, <2>2, <2>3, <2>4 DEF ChannelInv, PiecesInv
  <2>6. \A v : Rest(v)' \subseteq Rest(v) /\ (Returned(v)' <=> Returned(v))
    BY <1>1, <2>1, <2>2 DEF Rest, Returned
  <2>7. SpentInv'
    <3>1. ASSUME NEW v \in DOMAIN sent, Returned(v)
          PROVE  (\E x : Rest(v)' \subseteq {x}) /\ (N(v) = 1 => Rest(v)' = {})
      BY <2>6, <3>1 DEF ChannelInv, SpentInv
    <3>2. QED
      BY <1>1, <2>1, <2>6, <3>1 DEF ChannelInv, SpentInv
  <2>8. QED
    BY <2>5, <2>7
<1>2. CASE Lose
  BY <1>1, <1>2, StepInv DEF Lose, ChannelInv
<1>3. CASE Done \/ UNCHANGED vars
  BY <1>1, <1>3, StepInv DEF Done, vars, ChannelInv
<1>4. CASE Send
  BY <1>4, StepInv, SendChannel DEF ChannelInv
<1>5. CASE Receive
  BY <1>5, StepInv, ReceiveDelivers DEF ChannelInv
<1>6. QED
  BY <1>2, <1>3, <1>4, <1>5 DEF Next

-----------------------------------------------------------------------------
(* The channel is what FrameChannel promises *)

LEMMA StepIsPromised == ChannelInv /\ [Next]_vars => [Promise!Next]_(Promise!vars)
<1> SUFFICES ASSUME ChannelInv, [Next]_vars PROVE [Promise!Next]_(Promise!vars)
  OBVIOUS
<1>1. ASSUME UNCHANGED <<sent, out>> PROVE UNCHANGED Promise!vars
  BY <1>1 DEF Promise!vars
<1>2. CASE Lose \/ Done \/ UNCHANGED vars
  BY <1>1, <1>2 DEF Lose, Done, vars
<1>3. sent \in Seq(Shots)
  BY DEF ChannelInv, ClvdInv, SentInv
<1>4. CASE Send
  <2>1. PICK p \in Pictures :
          /\ sent' = Append(sent, AccessUnit(Len(sent) + 1, p)) /\ Len(sent) + 1 \in 1 .. Units
          /\ \A v \in DOMAIN sent : sent[v] # AccessUnit(Len(sent) + 1, p)
    BY <1>4, SendChannel
  <2> DEFINE au == AccessUnit(Len(sent) + 1, p)
  <2>2. au \in {AccessUnit(q, x) : q \in 1 .. Units, x \in Pictures}
    BY <2>1
  <2>3. au \in Shots
    BY <1>3, ShotMade
  <2>4. out' = out
    BY <1>4, SendChannel
  <2> HIDE DEF au
  <2>5. ToSet(sent') = ToSet(sent) \cup {au}
    <3>1. /\ DOMAIN sent = 1 .. Len(sent) /\ DOMAIN sent' = 1 .. (Len(sent) + 1)
          /\ Len(sent) \in Nat /\ sent'[Len(sent) + 1] = au
          /\ \A v \in DOMAIN sent : sent'[v] = sent[v]
      BY <1>3, <2>1, <2>3 DEF au
    <3>2. QED
      BY <3>1 DEF ToSet
  <2>6. au \notin ToSet(sent)
    BY <2>1 DEF ToSet, au
  <2>7. Promise!Push
    BY <2>2, <2>4, <2>5, <2>6 DEF Promise!Push
  <2>8. QED
    BY <2>7 DEF Promise!Next
<1>5. CASE Receive
  <2>1. UNCHANGED sent
    BY <1>5 DEF Receive
  <2>2. CASE out' = out
    BY <1>1, <2>1, <2>2
  <2>3. CASE out' # out
    <3>1. PICK u \in DOMAIN sent : ~Returned(u) /\ out' = Append(out, sent[u])
      BY <1>5, <2>3, ReceiveDelivers
    <3>2. sent[u] \in ToSet(sent) /\ sent[u].seq = u
      BY DEF ToSet, ChannelInv, ClvdInv, SentInv
    <3>3. sent[u] \notin Promise!Delivered
      BY <3>1, <3>2 DEF Promise!Delivered, Returned
    <3>4. Promise!Deliver
      BY <2>1, <3>1, <3>2, <3>3 DEF Promise!Deliver
    <3>5. QED
      BY <3>4 DEF Promise!Next
  <2>4. QED
    BY <2>2, <2>3
<1>6. QED
  BY <1>2, <1>4, <1>5 DEF Next

\* Whatever is cut, lost, recovered and mixed up, what comes out is what went in,
\* bit for bit, each access unit once (ImplementsFrameChannel in Clvd).
THEOREM VideoChannelKeepsItsPromise == Spec => ImplementsFrameChannel
<1>1. Init => Promise!Init
  <2> SUFFICES ASSUME Init PROVE Promise!Init
    OBVIOUS
  <2>1. sent = <<>> /\ out = <<>> /\ DOMAIN <<>> = {}
    BY DEF Init
  <2>2. QED
    BY <2>1 DEF Promise!Init, ToSet
<1>2. QED
  BY <1>1, InitChannel, StepChannel, StepIsPromised, PTL
     DEF Spec, ImplementsFrameChannel, Promise!Spec

-----------------------------------------------------------------------------
(* Pictures *)

LoopTypes ==
  loop \in [force : BOOLEAN, burst : Nat, age : 0 .. Interval, asked : BOOLEAN,
            ticked : BOOLEAN, raw : BOOLEAN]
Views ==
  [kind : Kinds, pic : {"off", "good", "broken"}, since : Nat, due : BOOLEAN, dc : BOOLEAN,
   wc : {"off", "waiting", "decoding", "painted"}, photon : BOOLEAN,
   sent : {"none", "rtp", "warmup", "webcodecs"}]
ViewTypes ==
  view \in [Viewers -> Views]

\* Only a broken picture is waited for.
WholeIsZero == \A v \in Viewers : view[v].pic # "broken" => view[v].since = 0

\* The tick that lets time pass leaves the clock short of its end, or has asked.
ClockRuns == loop.ticked /\ ~loop.asked => loop.age < Interval

\* How long a picture may be broken by now.
Allowed == IF ~loop.asked THEN loop.age
           ELSE IF loop.ticked THEN Interval ELSE Interval + 1
InTime == \A v \in Viewers : view[v].since <= Allowed

HealInv == LoopTypes /\ ViewTypes /\ WholeIsZero /\ ClockRuns /\ InTime

LEMMA HealInit == PathInit => HealInv
<1> SUFFICES ASSUME PathInit PROVE HealInv
  OBVIOUS
<1>1. LoopTypes /\ ~loop.ticked
  BY TimesAssumption DEF PathInit, LoopTypes
<1>2. PICK kind \in [Viewers -> Kinds] : view = [v \in Viewers |-> NewView(kind[v])]
  BY DEF PathInit
<1>4. ViewTypes /\ \A v \in Viewers : view[v].pic = "off" /\ view[v].since = 0
  BY <1>2 DEF NewView, ViewTypes, Views
<1>5. Allowed \in Nat
  BY <1>1, TimesAssumption DEF Allowed, LoopTypes
<1>6. QED
  BY <1>1, <1>4, <1>5 DEF HealInv, WholeIsZero, ClockRuns, InTime

\* A step that changes neither the clock nor how long a picture is broken, and
\* starts no waiting but at zero.
LEMMA ClockUntouched ==
  ASSUME HealInv, LoopTypes', ViewTypes',
         loop'.age = loop.age, loop'.asked = loop.asked, loop'.ticked = loop.ticked,
         \A v \in Viewers : \/ view'[v].since = view[v].since /\ view'[v].pic = view[v].pic
                            \/ view'[v].since = 0
  PROVE  HealInv'
<1>1. Allowed' = Allowed /\ Allowed \in Nat
  BY TimesAssumption DEF Allowed, HealInv, LoopTypes
<1>2. WholeIsZero' /\ InTime'
  BY <1>1 DEF HealInv, WholeIsZero, InTime, ViewTypes, Views
<1>3. QED
  BY <1>2 DEF HealInv, ClockRuns

\* The same for a step that changes one viewer.
LEMMA OneViewer ==
  ASSUME HealInv, LoopTypes',
         loop'.age = loop.age, loop'.asked = loop.asked, loop'.ticked = loop.ticked,
         NEW v \in Viewers, NEW w \in Views, view' = [view EXCEPT ![v] = w],
         (w.since = view[v].since /\ w.pic = view[v].pic) \/ w.since = 0
  PROVE  HealInv'
<1>1. ViewTypes'
  BY DEF HealInv, ViewTypes
<1>2. \A u \in Viewers : \/ view'[u].since = view[u].since /\ view'[u].pic = view[u].pic
                         \/ view'[u].since = 0
  BY DEF HealInv, ViewTypes
<1>3. QED
  BY <1>1, <1>2, ClockUntouched

\* What a push makes of a viewer.
LEMMA ShownOf ==
  ASSUME HealInv, NEW v \in Viewers, NEW key \in BOOLEAN, NEW failed \in BOOLEAN, NEW clvd
  PROVE  /\ Shown(v, key, failed, clvd) \in Views
         /\ Shown(v, key, failed, clvd).pic # "broken" => Shown(v, key, failed, clvd).since = 0
         /\ key => Shown(v, key, failed, clvd).since = 0
         /\ Shown(v, key, failed, clvd).since \in {view[v].since, 0}
<1> DEFINE w == view[v]
           r == IF w.pic = "off" THEN w
                ELSE IF failed THEN [w EXCEPT !.pic = "broken", !.since = 0,
                                            !.due = w.pic = "good" \/ w.due]
                ELSE IF key THEN [w EXCEPT !.pic = "good", !.since = 0, !.due = FALSE]
                ELSE w
<1>1. w \in Views /\ (w.pic # "broken" => w.since = 0)
  BY DEF HealInv, ViewTypes, WholeIsZero
<1>2. r \in Views /\ (r.pic # "broken" => r.since = 0) /\ (key => r.since = 0)
      /\ r.since \in {w.since, 0}
  <2> HIDE DEF w
  <2>1. (w.pic = "good" \/ w.due) \in BOOLEAN
    BY <1>1 DEF Views
  <2>2. CASE w.pic = "off"
    BY <1>1, <2>2
  <2>3. CASE w.pic # "off" /\ failed
    BY <1>1, <2>1, <2>3 DEF Views
  <2>4. CASE w.pic # "off" /\ ~failed
    BY <1>1, <2>4 DEF Views
  <2>5. QED
    BY <2>2, <2>3, <2>4
<1>3. Shown(v, key, failed, clvd) \in {r, [r EXCEPT !.wc = "decoding"]}
  BY DEF Shown
<1> HIDE DEF r
<1>4. QED
  BY <1>2, <1>3 DEF Views

LEMMA PushedViews ==
  ASSUME HealInv, NEW key \in BOOLEAN, Push(key)
  PROVE  /\ ViewTypes' /\ WholeIsZero'
         /\ \A v \in Viewers : \/ view'[v].since = view[v].since /\ ~key
                               \/ view'[v].since = 0
<1>1. PICK failed, cut \in SUBSET Viewers, bad \in {"cut", "late"} :
        view' = [v \in Viewers |->
                   Shown(v, key, v \in failed, IF v \in cut THEN bad ELSE "whole")]
  BY DEF Push
<1>2. ASSUME NEW v \in Viewers
      PROVE  /\ view'[v] \in Views
             /\ view'[v].pic # "broken" => view'[v].since = 0
             /\ key => view'[v].since = 0
             /\ view'[v].since \in {view[v].since, 0}
  <2> DEFINE clvd == IF v \in cut THEN bad ELSE "whole"
             gone == v \in failed
  <2>1. view'[v] = Shown(v, key, gone, clvd) /\ gone \in BOOLEAN
    BY <1>1
  <2> HIDE DEF clvd, gone
  <2>2. QED
    BY <2>1, ShownOf
<1>3. QED
  BY <1>1, <1>2 DEF ViewTypes, WholeIsZero

\* After a tick the clock is short of its end or a keyframe is asked for, and a
\* keyframe leaves no picture broken but by its own loss.
LEMMA TickHeals ==
  ASSUME HealInv, NEW key \in BOOLEAN, Push(key), LoopTypes', loop'.ticked,
         loop.asked => key,
         ~loop'.asked => loop'.age < Interval,
         ~key => loop'.asked \/ loop'.age = loop.age
  PROVE  HealInv'
<1>1. \A v \in Viewers : view'[v].since <= Allowed'
  <2> SUFFICES ASSUME NEW v \in Viewers PROVE view'[v].since <= Allowed'
    OBVIOUS
  <2>1. Allowed' \in Nat
    BY TimesAssumption DEF Allowed, LoopTypes
  <2>2. CASE view'[v].since = 0
    BY <2>1, <2>2
  <2>3. CASE view'[v].since = view[v].since /\ ~key
    <3>1. view[v].since <= loop.age /\ loop.age <= Interval
      BY <2>3, TimesAssumption DEF HealInv, InTime, Allowed, LoopTypes
    <3>2. Allowed' = IF loop'.asked THEN Interval ELSE loop.age
      BY <2>3 DEF Allowed, LoopTypes
    <3>3. QED
      BY <2>3, <3>1, <3>2, TimesAssumption DEF HealInv, ViewTypes, Views, LoopTypes
  <2>4. QED
    BY <2>2, <2>3, PushedViews
<1>2. QED
  BY <1>1, PushedViews DEF HealInv, ClockRuns, InTime

LEMMA EncodedHeals == HealInv /\ TickEncoded => HealInv'
<1> SUFFICES ASSUME HealInv, TickEncoded PROVE HealInv'
  OBVIOUS
<1> DEFINE age == IF loop.asked THEN 0 ELSE loop.age
           due == age >= Interval
           asked == Forced \/ loop.burst > 0 \/ due
           newAge == IF due /\ ~Forced /\ loop.burst = 0 THEN 0 ELSE age
<1>1. loop.asked \in BOOLEAN /\ age \in 0 .. Interval /\ Push(loop.asked)
  BY TimesAssumption DEF HealInv, LoopTypes, TickEncoded
<1>2. loop' = [loop EXCEPT !.force = FALSE, !.burst = 0, !.asked = asked, !.age = newAge,
                           !.ticked = TRUE]
  BY DEF TickEncoded
<1>3. asked \in BOOLEAN /\ newAge \in 0 .. Interval
  BY <1>1, TimesAssumption
<1>4. /\ ~asked => newAge < Interval
      /\ ~loop.asked => asked \/ newAge = loop.age
  BY <1>1, TimesAssumption
<1> HIDE DEF age, due, asked, newAge
<1>5. LoopTypes' /\ loop'.ticked /\ loop'.asked = asked /\ loop'.age = newAge
  BY <1>2, <1>3 DEF HealInv, LoopTypes
<1>6. QED
  BY <1>1, <1>4, <1>5, TickHeals

LEMMA RawHeals == HealInv /\ TickRaw => HealInv'
<1> SUFFICES ASSUME HealInv, TickRaw PROVE HealInv'
  OBVIOUS
<1> DEFINE hybrid == \E v \in Wanting : HybridDual(v)
           burst == IF Forced THEN (IF hybrid THEN 1 ELSE Burst) ELSE loop.burst
           key == burst > 0 \/ loop.age >= Interval
           left == BurstLeft(burst)
           newAge == IF key THEN 0 ELSE loop.age
<1>1. burst \in Nat /\ left \in Nat
  BY TimesAssumption DEF HealInv, LoopTypes, BurstLeft
<1>2. /\ Push(key \/ loop.asked)
      /\ loop' = [loop EXCEPT !.force = FALSE, !.asked = FALSE, !.burst = left,
                              !.age = newAge, !.ticked = TRUE]
  BY DEF TickRaw
<1> HIDE DEF burst, left
<1>3. /\ (key \/ loop.asked) \in BOOLEAN
      /\ newAge \in 0 .. Interval /\ newAge < Interval
      /\ ~(key \/ loop.asked) => newAge = loop.age
  BY <1>1, TimesAssumption DEF HealInv, LoopTypes
<1> HIDE DEF key, newAge
<1>4. LoopTypes' /\ loop'.ticked /\ ~loop'.asked /\ loop'.age = newAge
  BY <1>1, <1>2, <1>3 DEF HealInv, LoopTypes
<1>5. QED
  BY <1>2, <1>3, <1>4, TickHeals

\* A unit of time makes every broken picture one older, and the clock too.
LEMMA ElapseHeals == HealInv /\ Elapse => HealInv'
<1> SUFFICES ASSUME HealInv, Elapse PROVE HealInv'
  OBVIOUS
<1> DEFINE newAge == Min2(loop.age + 1, Interval)
           older(v) == IF view[v].pic = "broken"
                       THEN Min2(view[v].since + 1, Interval + 2) ELSE 0
<1>1. loop.ticked /\ loop' = [loop EXCEPT !.age = newAge, !.ticked = FALSE]
  BY DEF Elapse
<1>2. newAge \in 0 .. Interval /\ (~loop.asked => newAge = loop.age + 1)
  BY <1>1, TimesAssumption DEF HealInv, LoopTypes, ClockRuns, Min2
<1>3. /\ LoopTypes' /\ loop'.asked = loop.asked /\ ~loop'.ticked
      /\ ~loop.asked => loop'.age = loop.age + 1
  <2> HIDE DEF newAge
  <2>1. QED
    BY <1>1, <1>2 DEF HealInv, LoopTypes
<1>4. \A v \in Viewers : older(v) \in Nat /\ older(v) <= view[v].since + 1
                         /\ (view[v].pic # "broken" => older(v) = 0)
  BY TimesAssumption DEF HealInv, ViewTypes, Views, Min2
<1>5. view' = [v \in Viewers |-> [view[v] EXCEPT !.since = older(v)]]
  BY DEF Elapse
<1> HIDE DEF older
<1>6. /\ ViewTypes' /\ WholeIsZero'
      /\ \A v \in Viewers : view'[v].since <= view[v].since + 1
  BY <1>4, <1>5 DEF HealInv, ViewTypes, Views, WholeIsZero
<1>7. Allowed' = Allowed + 1
  BY <1>1, <1>3, TimesAssumption DEF HealInv, LoopTypes, Allowed
<1>8. Allowed \in Nat
  BY TimesAssumption DEF HealInv, LoopTypes, Allowed
<1>9. InTime'
  <2> SUFFICES ASSUME NEW v \in Viewers PROVE view'[v].since <= Allowed'
    BY DEF InTime
  <2>1. view[v].since \in Nat /\ view'[v].since \in Nat /\ view[v].since <= Allowed
    BY <1>6 DEF HealInv, ViewTypes, Views, InTime
  <2>2. QED
    BY <1>6, <1>7, <1>8, <2>1
<1>10. QED
  BY <1>3, <1>6, <1>9 DEF HealInv, ClockRuns

\* The host's encoder starts with a keyframe.
LEMMA FallBackHeals == HealInv /\ FallBack => HealInv'
<1> SUFFICES ASSUME HealInv, FallBack PROVE HealInv'
  OBVIOUS
<1>1. LoopTypes' /\ loop'.asked /\ loop'.ticked = loop.ticked /\ view' = view
  BY DEF FallBack, HealInv, LoopTypes
<1>2. Allowed <= Allowed' /\ Allowed \in Nat /\ Allowed' \in Nat
  BY <1>1, TimesAssumption DEF Allowed, HealInv, LoopTypes
<1>3. \A v \in Viewers : view[v].since \in Nat /\ view[v].since <= Allowed
  BY DEF HealInv, ViewTypes, Views, InTime
<1>4. InTime'
  BY <1>1, <1>2, <1>3 DEF InTime
<1>5. QED
  BY <1>1, <1>4 DEF HealInv, ViewTypes, WholeIsZero, ClockRuns

LEMMA HealStep == HealInv /\ [PathNext]_pathVars => HealInv'
<1> SUFFICES ASSUME HealInv, [PathNext]_pathVars PROVE HealInv'
  OBVIOUS
<1>1. CASE NoFrame
  <2>1. /\ LoopTypes' /\ view' = view
        /\ loop'.age = loop.age /\ loop'.asked = loop.asked /\ loop'.ticked = loop.ticked
    BY <1>1 DEF NoFrame, Forced, HealInv, LoopTypes
  <2>2. QED
    BY <2>1, ClockUntouched DEF HealInv, ViewTypes
<1>2. ASSUME NEW v \in Viewers,
             Connect(v) \/ ViewOpensDc(v) \/ Rtcp(v) \/ Paint(v) \/ DecoderFails(v) \/ Rebuild(v)
      PROVE  HealInv'
  <2>1. /\ LoopTypes'
        /\ loop'.age = loop.age /\ loop'.asked = loop.asked /\ loop'.ticked = loop.ticked
    BY <1>2 DEF Connect, ViewOpensDc, Rtcp, Paint, DecoderFails, Rebuild, HealInv, LoopTypes
  <2>2. view[v] \in Views /\ view[v].kind \in Kinds
    BY DEF HealInv, ViewTypes, Views
  <2>3. SUFFICES \E w \in Views :
          /\ view' = [view EXCEPT ![v] = w]
          /\ (w.since = view[v].since /\ w.pic = view[v].pic) \/ w.since = 0
    BY <2>1, OneViewer
  <2>4. CASE Connect(v)
    <3> DEFINE due == view[v].kind # "chrome"
               w == [view[v] EXCEPT !.pic = "broken", !.since = 0, !.due = due]
               r == [w EXCEPT !.sent = "rtp"]
    <3>1. view' \in {[view EXCEPT ![v] = w], [view EXCEPT ![v] = r]}
      BY <2>4 DEF Connect, Notify
    <3>2. due \in BOOLEAN
      OBVIOUS
    <3> HIDE DEF due
    <3>3. w \in Views /\ r \in Views /\ w.since = 0 /\ r.since = 0
      BY <2>2, <3>2 DEF Views
    <3>4. QED
      BY <3>1, <3>3
  <2>5. CASE ViewOpensDc(v)
    <3> DEFINE path == IF view[v].kind = "chrome" THEN "warmup" ELSE "rtp"
               w == [view[v] EXCEPT !.dc = TRUE, !.sent = path]
    <3>1. view' = [view EXCEPT ![v] = w]
      BY <2>5 DEF ViewOpensDc, Notify
    <3>2. path \in {"rtp", "warmup"}
      OBVIOUS
    <3> HIDE DEF path
    <3>3. w \in Views /\ w.since = view[v].since /\ w.pic = view[v].pic
      BY <2>2, <3>2 DEF Views
    <3>4. QED
      BY <3>1, <3>3
  <2>6. CASE Rtcp(v)
    <3> DEFINE due == view[v].kind # "native"
               w == [view[v] EXCEPT !.due = due]
    <3>1. view' = [view EXCEPT ![v] = w] /\ due \in BOOLEAN
      BY <2>6 DEF Rtcp
    <3> HIDE DEF due
    <3>2. w \in Views /\ w.since = view[v].since /\ w.pic = view[v].pic
      BY <2>2, <3>1 DEF Views
    <3>3. QED
      BY <3>1, <3>2
  <2>7. CASE Paint(v)
    <3> DEFINE w == [view[v] EXCEPT !.wc = "painted", !.photon = TRUE, !.sent = "webcodecs"]
    <3>1. view' = [view EXCEPT ![v] = w]
      BY <2>7 DEF Paint, Promote, Notify
    <3>2. w \in Views /\ w.since = view[v].since /\ w.pic = view[v].pic
      BY <2>2 DEF Views
    <3>3. QED
      BY <3>1, <3>2
  <2>8. CASE DecoderFails(v)
    <3> DEFINE w == [view[v] EXCEPT !.wc = "waiting"]
    <3>1. view' = [view EXCEPT ![v] = w]
      BY <2>8 DEF DecoderFails
    <3>2. w \in Views /\ w.since = view[v].since /\ w.pic = view[v].pic
      BY <2>2 DEF Views
    <3>3. QED
      BY <3>1, <3>2
  <2>9. CASE Rebuild(v)
    <3> DEFINE w == [NewView(view[v].kind) EXCEPT !.sent = view[v].sent]
               kept == [w EXCEPT !.wc = view[v].wc, !.photon = view[v].photon]
    <3>1. view' \in {[view EXCEPT ![v] = w], [view EXCEPT ![v] = kept]}
      BY <2>9 DEF Rebuild
    <3>2. w \in Views /\ kept \in Views /\ w.since = 0 /\ kept.since = 0
      BY <2>2 DEF NewView, Views
    <3>3. QED
      BY <3>1, <3>2
  <2>10. QED
    BY <1>2, <2>4, <2>5, <2>6, <2>7, <2>8, <2>9
<1>3. ASSUME NEW v \in Viewers,
             HostOpensDc(v) \/ PathArrives(v) \/ Statistics(v) \/ Jam(v) \/ Drain(v)
      PROVE  HealInv'
  <2>1. /\ LoopTypes' /\ view' = view
        /\ loop'.age = loop.age /\ loop'.asked = loop.asked /\ loop'.ticked = loop.ticked
    BY <1>3 DEF HostOpensDc, PathArrives, Statistics, Jam, Drain, HealInv, LoopTypes
  <2>2. QED
    BY <2>1, ClockUntouched DEF HealInv, ViewTypes
<1>4. CASE UNCHANGED pathVars
  BY <1>4, ClockUntouched DEF pathVars, HealInv, LoopTypes, ViewTypes
<1>5. QED
  BY <1>1, <1>2, <1>3, <1>4, EncodedHeals, RawHeals, ElapseHeals, FallBackHeals DEF PathNext

\* For any viewers, intervals and losses: however the requests of the viewers are
\* lost, coalesced or ignored, no picture is broken for longer than the interval of
\* the periodic keyframe and the tick that sends it (HealsInTime in VideoPath).
THEOREM PicturesHeal == PathSpec => []HealsInTime
<1>1. HealInv => HealsInTime
  <2> SUFFICES ASSUME HealInv PROVE HealsInTime
    OBVIOUS
  <2>1. Allowed \in Nat /\ Allowed <= Interval + 1
    BY TimesAssumption DEF HealInv, LoopTypes, Allowed
  <2>2. QED
    BY <2>1, TimesAssumption DEF HealInv, ViewTypes, Views, InTime, HealsInTime
<1>2. QED
  BY <1>1, HealInit, HealStep, PTL DEF PathSpec
=============================================================================
