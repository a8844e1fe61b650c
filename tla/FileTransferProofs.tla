------------------------- MODULE FileTransferProofs -------------------------
(***************************************************************************)
(* Proofs about FileTransfer, for every content of every length and every  *)
(* size of the buffer: what the two conversions of text mode compute, that *)
(* one undoes the other, and that RETR and STOR lose, repeat and reorder   *)
(* nothing.                                                                *)
(*                                                                         *)
(* Decode and Encode are recursive functions.  A recursive function stands *)
(* for CHOOSE f : f = [x \in D |-> ...f...]; its equation holds once some f *)
(* satisfies it, which is shown by induction (DecodeEquation,              *)
(* EncodeEquation), and what it computes follows by induction again.       *)
(***************************************************************************)
EXTENDS FileTransfer, SequenceTheorems, WellFoundedInduction, TLAPS

(* Every set of natural numbers has a least element.                       *)
LEMMA LeastNatural ==
    ASSUME NEW S, S \subseteq Nat, S # {}
    PROVE  \E n \in S : \A m \in S : n <= m
<1> DEFINE R == OpToRel(<, Nat)
<1>1. IsWellFoundedOn(R, Nat)
  BY NatLessThanWellFounded
<1>2. \A x, y \in Nat : x < y => <<x, y>> \in R
  BY DEF OpToRel
<1>3. PICK n \in S : \A m \in S : ~(<<m, n>> \in R)
  <2> HIDE DEF R
  <2> QED  BY <1>1, WFMin
<1>4. \A m \in S : ~(m < n)
  <2> HIDE DEF R
  <2> QED  BY <1>2, <1>3
<1>5. \A m \in S : n \in Nat /\ m \in Nat
  OBVIOUS
<1> QED  BY <1>4, <1>5

(* Induction, with a set in the place of a predicate.                      *)
LEMMA Induction ==
    ASSUME NEW T, 0 \in T, \A n \in Nat : n \in T => n + 1 \in T
    PROVE  \A n \in Nat : n \in T
<1> DEFINE S == Nat \ T
<1> SUFFICES ASSUME S # {} PROVE FALSE
  OBVIOUS
<1>1. PICK n \in S : \A m \in S : n <= m
  BY LeastNatural
<1>2. n \in Nat /\ n # 0
  OBVIOUS
<1>3. n - 1 \in Nat /\ n - 1 \notin S
  BY <1>1, <1>2
<1> QED  BY <1>2, <1>3

(* From n down to 0.                                                       *)
LEMMA Downward ==
    ASSUME NEW n \in Nat, NEW T, n \in T, \A i \in 1 .. n : i \in T => i - 1 \in T
    PROVE  \A i \in 0 .. n : i \in T
<1> DEFINE U == {k \in Nat : k <= n => n - k \in T}
<1>1. 0 \in U
  OBVIOUS
<1>2. ASSUME NEW k \in Nat, k \in U PROVE k + 1 \in U
  <2> SUFFICES ASSUME k + 1 <= n PROVE n - (k + 1) \in T
    OBVIOUS
  <2>1. n - k \in T /\ n - k \in 1 .. n
    BY <1>2
  <2> QED  BY <2>1
<1>3. \A k \in Nat : k \in U
  <2> HIDE DEF U
  <2> QED  BY <1>1, <1>2, Induction
<1> TAKE i \in 0 .. n
<1>4. n - i \in U /\ n - (n - i) = i /\ n - i <= n
  BY <1>3
<1> QED  BY <1>4

-----------------------------------------------------------------------------
(* Decode.                                                                 *)

(* What reading c yields from its i-th byte on, if f is what it yields     *)
(* from the later ones on.                                                 *)
DecodeStep(c, f, i) ==
    IF i > Len(c) \/ c[i] = "sub" THEN <<>>
    ELSE IF c[i] = "cr" /\ i < Len(c) /\ c[i + 1] = "lf" THEN f[i + 1]
    ELSE <<c[i]>> \o f[i + 1]

(* The function that Decode defines locally.                               *)
DecodedFrom(c) == CHOOSE f : f = [i \in 1 .. Len(c) + 1 |-> DecodeStep(c, f, i)]

LEMMA DecodeIs == \A c : Decode(c) = DecodedFrom(c)[1]
  BY DEF Decode, DecodedFrom, DecodeStep

(* What a step of the recursion reads lies behind it.                      *)
LEMMA DecodeStepLocal ==
    ASSUME NEW c \in Seq(Byte), NEW i \in 1 .. Len(c) + 1, NEW g, NEW h,
           i <= Len(c) => g[i + 1] = h[i + 1]
    PROVE  DecodeStep(c, g, i) = DecodeStep(c, h, i)
<1>1. Len(c) \in Nat
  OBVIOUS
<1>2. CASE i > Len(c)
  BY <1>2 DEF DecodeStep
<1>3. CASE i <= Len(c)
  BY <1>1, <1>3 DEF DecodeStep
<1> QED  BY <1>1, <1>2, <1>3

(* A step of the recursion yields bytes.                                   *)
LEMMA DecodeStepTypes ==
    ASSUME NEW c \in Seq(Byte), NEW i \in 1 .. Len(c) + 1, NEW g,
           i <= Len(c) => g[i + 1] \in Seq(Byte)
    PROVE  DecodeStep(c, g, i) \in Seq(Byte)
<1>1. Len(c) \in Nat
  OBVIOUS
<1>2. CASE i > Len(c)
  BY <1>2 DEF DecodeStep
<1>3. CASE i <= Len(c)
  <2>1. c[i] \in Byte /\ <<c[i]>> \in Seq(Byte) /\ g[i + 1] \in Seq(Byte)
    BY <1>1, <1>3
  <2>2. <<c[i]>> \o g[i + 1] \in Seq(Byte)
    BY <2>1, ConcatProperties
  <2> QED  BY <2>1, <2>2 DEF DecodeStep
<1> QED  BY <1>1, <1>2, <1>3

(* Decode's recursion is well-defined, for every content.                  *)
LEMMA DecodeEquation ==
    ASSUME NEW c \in Seq(Byte)
    PROVE  /\ DecodedFrom(c) \in [1 .. Len(c) + 1 -> Seq(Byte)]
           /\ \A i \in 1 .. Len(c) + 1 : DecodedFrom(c)[i] = DecodeStep(c, DecodedFrom(c), i)
<1> DEFINE n == Len(c)
           Solves(g, k) == \A i \in 1 .. n + 1 : k < i => g[i] = DecodeStep(c, g, i)
           T == {k \in 0 .. n : \E g \in [1 .. n + 1 -> Seq(Byte)] : Solves(g, k)}
           f == DecodedFrom(c)
           U == {k \in 0 .. n : f[k + 1] \in Seq(Byte)}
<1>1. n \in Nat
  OBVIOUS
<1>2. n \in T
  <2> DEFINE g == [i \in 1 .. n + 1 |-> <<>>]
  <2>1. g \in [1 .. n + 1 -> Seq(Byte)]
    OBVIOUS
  <2>2. ASSUME NEW i \in 1 .. n + 1, n < i PROVE g[i] = DecodeStep(c, g, i)
    BY <2>2 DEF DecodeStep
  <2>3. Solves(g, n)
    <3> HIDE DEF g
    <3> QED  BY <2>2
  <2> HIDE DEF Solves, g
  <2> QED  BY <1>1, <2>1, <2>3
<1>3. ASSUME NEW k \in 1 .. n, k \in T PROVE k - 1 \in T
  <2>1. PICK g \in [1 .. n + 1 -> Seq(Byte)] : Solves(g, k)
    BY <1>3
  <2> DEFINE h == [g EXCEPT ![k] = DecodeStep(c, g, k)]
  <2>2. k \in 1 .. n + 1 /\ k + 1 \in 1 .. n + 1
    BY <1>1
  <2>3. DecodeStep(c, g, k) \in Seq(Byte)
    BY <2>2, DecodeStepTypes
  <2>4. h \in [1 .. n + 1 -> Seq(Byte)]
    BY <2>3
  <2>5. ASSUME NEW i \in 1 .. n + 1, k - 1 < i PROVE h[i] = DecodeStep(c, h, i)
    <3>1. i + 1 # k /\ (i <= n => i + 1 \in 1 .. n + 1)
      BY <1>1, <2>5
    <3>2. DecodeStep(c, g, i) = DecodeStep(c, h, i)
      <4>1. i <= n => g[i + 1] = h[i + 1]
        BY <3>1
      <4> HIDE DEF h
      <4> QED  BY <4>1, DecodeStepLocal
    <3>3. CASE i = k
      <4>1. h[k] = DecodeStep(c, g, k)
        BY <2>2
      <4> QED  BY <3>2, <3>3, <4>1
    <3>4. CASE k < i
      <4>1. h[i] = g[i] /\ g[i] = DecodeStep(c, g, i)
        BY <2>1, <3>4
      <4> QED  BY <3>2, <4>1
    <3> QED  BY <1>1, <2>5, <3>3, <3>4
  <2>6. k - 1 \in 0 .. n
    BY <1>1
  <2> HIDE DEF h
  <2> QED  BY <2>4, <2>5, <2>6
<1>4. 0 \in T
  <2> HIDE DEF T
  <2> QED  BY <1>1, <1>2, <1>3, Downward
<1>5. f = [i \in 1 .. n + 1 |-> DecodeStep(c, f, i)]
  <2>1. PICK g \in [1 .. n + 1 -> Seq(Byte)] : Solves(g, 0)
    BY <1>4
  <2>2. \A i \in 1 .. n + 1 : g[i] = DecodeStep(c, g, i)
    BY <1>1, <2>1
  <2>3. g = [i \in 1 .. n + 1 |-> DecodeStep(c, g, i)]
    BY <2>2
  <2> QED  BY <2>3 DEF DecodedFrom
<1>6. \A i \in 1 .. n + 1 : f[i] = DecodeStep(c, f, i)
  <2> HIDE DEF f
  <2> QED  BY <1>5
<1>7. n \in U
  <2> HIDE DEF f
  <2>1. f[n + 1] = DecodeStep(c, f, n + 1) /\ n + 1 \in 1 .. n + 1
    BY <1>1, <1>6
  <2>2. DecodeStep(c, f, n + 1) \in Seq(Byte)
    BY <1>1, <2>1, DecodeStepTypes
  <2> QED  BY <1>1, <2>1, <2>2
<1>8. ASSUME NEW k \in 1 .. n, k \in U PROVE k - 1 \in U
  <2> HIDE DEF f
  <2>1. k \in 1 .. n + 1 /\ f[k] = DecodeStep(c, f, k) /\ f[k + 1] \in Seq(Byte)
    BY <1>1, <1>6, <1>8
  <2>2. DecodeStep(c, f, k) \in Seq(Byte)
    BY <1>1, <2>1, DecodeStepTypes
  <2> QED  BY <1>1, <2>1, <2>2
<1>9. \A k \in 0 .. n : k \in U
  <2> HIDE DEF U
  <2> QED  BY <1>1, <1>7, <1>8, Downward
<1>10. \A i \in 1 .. n + 1 : f[i] \in Seq(Byte)
  <2> HIDE DEF f
  <2> TAKE i \in 1 .. n + 1
  <2>1. i - 1 \in 0 .. n /\ (i - 1) + 1 = i
    BY <1>1
  <2> QED  BY <1>9, <2>1
<1> HIDE DEF f
<1> QED  BY <1>5, <1>6, <1>10 DEF f

-----------------------------------------------------------------------------
(* Encode.                                                                 *)

(* What writing one byte puts into the file.                               *)
Encoded(b) == IF b = "lf" THEN <<"cr", "lf">> ELSE <<b>>

(* The function that Encode defines locally.                               *)
EncodedUpTo(c) ==
    CHOOSE f : f = [i \in 0 .. Len(c) |-> IF i = 0 THEN <<>> ELSE f[i - 1] \o Encoded(c[i])]

LEMMA EncodeIs == \A c : Encode(c) = EncodedUpTo(c)[Len(c)]
  BY DEF Encode, EncodedUpTo, Encoded

LEMMA EncodedTypes ==
    ASSUME NEW b \in Byte PROVE Encoded(b) \in Seq(Byte)
<1>1. <<"cr", "lf">> \in Seq(Byte) /\ <<b>> \in Seq(Byte)
  BY DEF Byte
<1> QED  BY <1>1 DEF Encoded

(* Encode's recursion is well-defined, for every content.                  *)
LEMMA EncodeEquation ==
    ASSUME NEW c \in Seq(Byte)
    PROVE  /\ EncodedUpTo(c) \in [0 .. Len(c) -> Seq(Byte)]
           /\ EncodedUpTo(c)[0] = <<>>
           /\ \A i \in 1 .. Len(c) : EncodedUpTo(c)[i] = EncodedUpTo(c)[i - 1] \o Encoded(c[i])
<1> DEFINE n == Len(c)
           Step(g, i) == IF i = 0 THEN <<>> ELSE g[i - 1] \o Encoded(c[i])
           Solves(g, k) == \A i \in 0 .. n : i <= k => g[i] = Step(g, i)
           T == {k \in Nat : k <= n => \E g \in [0 .. n -> Seq(Byte)] : Solves(g, k)}
           f == EncodedUpTo(c)
           U == {k \in Nat : k <= n => f[k] \in Seq(Byte)}
<1>1. n \in Nat /\ \A i \in 1 .. n : Encoded(c[i]) \in Seq(Byte)
  BY EncodedTypes
<1>2. 0 \in T
  <2> DEFINE g == [i \in 0 .. n |-> <<>>]
  <2>1. g \in [0 .. n -> Seq(Byte)]
    OBVIOUS
  <2>2. ASSUME NEW i \in 0 .. n, i <= 0 PROVE g[i] = Step(g, i)
    BY <2>2
  <2>3. Solves(g, 0)
    <3> HIDE DEF g, Step
    <3> QED  BY <2>2
  <2> HIDE DEF Solves, g
  <2> QED  BY <1>1, <2>1, <2>3
<1>3. ASSUME NEW k \in Nat, k \in T PROVE k + 1 \in T
  <2> SUFFICES ASSUME k + 1 <= n PROVE \E h \in [0 .. n -> Seq(Byte)] : Solves(h, k + 1)
    BY <1>1
  <2>1. PICK g \in [0 .. n -> Seq(Byte)] : Solves(g, k)
    BY <1>1, <1>3
  <2> DEFINE h == [g EXCEPT ![k + 1] = g[k] \o Encoded(c[k + 1])]
  <2>2. k \in 0 .. n /\ k + 1 \in 1 .. n
    BY <1>1
  <2>3. g[k] \o Encoded(c[k + 1]) \in Seq(Byte)
    BY <1>1, <2>2, ConcatProperties
  <2>4. h \in [0 .. n -> Seq(Byte)]
    BY <2>3
  <2>5. ASSUME NEW i \in 0 .. n, i <= k + 1 PROVE h[i] = Step(h, i)
    <3>1. CASE i = k + 1
      <4>1. h[i] = g[k] \o Encoded(c[i]) /\ h[i - 1] = g[k] /\ i # 0
        BY <2>2, <3>1
      <4> HIDE DEF h
      <4> QED  BY <4>1
    <3>2. CASE i <= k
      <4>1. h[i] = g[i] /\ g[i] = Step(g, i)
        BY <2>1, <2>2, <3>2
      <4>2. i # 0 => h[i - 1] = g[i - 1]
        BY <2>2, <3>2
      <4> HIDE DEF h
      <4> QED  BY <4>1, <4>2
    <3> QED  BY <2>5, <3>1, <3>2
  <2>6. Solves(h, k + 1)
    <3> HIDE DEF h, Step
    <3> QED  BY <2>5
  <2> HIDE DEF Solves, h
  <2> QED  BY <2>4, <2>6
<1>4. n \in T
  <2> HIDE DEF T
  <2> QED  BY <1>1, <1>2, <1>3, Induction
<1>5. f = [i \in 0 .. n |-> Step(f, i)]
  <2>1. PICK g \in [0 .. n -> Seq(Byte)] : Solves(g, n)
    BY <1>1, <1>4
  <2>2. \A i \in 0 .. n : g[i] = Step(g, i)
    <3> HIDE DEF Step
    <3> QED  BY <1>1, <2>1
  <2>3. g = [i \in 0 .. n |-> Step(g, i)]
    <3> HIDE DEF Step
    <3> QED  BY <2>2
  <2> QED  BY <2>3 DEF EncodedUpTo
<1>6. \A i \in 0 .. n : f[i] = Step(f, i)
  <2> HIDE DEF f
  <2> QED  BY <1>5
<1>7. f[0] = <<>> /\ \A i \in 1 .. n : f[i] = f[i - 1] \o Encoded(c[i])
  <2> HIDE DEF f
  <2>1. 0 \in 0 .. n /\ f[0] = Step(f, 0)
    BY <1>1, <1>6
  <2>2. ASSUME NEW i \in 1 .. n PROVE f[i] = f[i - 1] \o Encoded(c[i])
    <3>1. i \in 0 .. n /\ i # 0
      BY <1>1
    <3>2. f[i] = Step(f, i)
      BY <1>6, <3>1
    <3> QED  BY <3>1, <3>2
  <2> QED  BY <2>1, <2>2
<1>8. 0 \in U
  <2> HIDE DEF f
  <2>1. f[0] = <<>>
    BY <1>7
  <2>2. f[0] \in Seq(Byte)
    BY <2>1
  <2> QED  BY <2>2
<1>9. ASSUME NEW k \in Nat, k \in U PROVE k + 1 \in U
  <2> HIDE DEF f
  <2> SUFFICES ASSUME k + 1 <= n PROVE f[k + 1] \in Seq(Byte)
    BY <1>1
  <2>1. f[k] \in Seq(Byte) /\ k + 1 \in 1 .. n /\ (k + 1) - 1 = k
    BY <1>1, <1>9
  <2>2. f[k + 1] = f[k] \o Encoded(c[k + 1]) /\ Encoded(c[k + 1]) \in Seq(Byte)
    BY <1>1, <1>7, <2>1
  <2> QED  BY <2>1, <2>2, ConcatProperties
<1>10. \A i \in 0 .. n : f[i] \in Seq(Byte)
  <2>1. \A k \in Nat : k \in U
    <3> HIDE DEF U
    <3> QED  BY <1>8, <1>9, Induction
  <2> HIDE DEF f
  <2> QED  BY <1>1, <2>1
<1> HIDE DEF f
<1> QED  BY <1>5, <1>7, <1>10 DEF f

-----------------------------------------------------------------------------
(* The two conversions undo each other.                                    *)

(* Both conversions turn bytes into bytes.                                 *)
LEMMA ConversionTypes ==
    ASSUME NEW c \in Seq(Byte) PROVE Decode(c) \in Seq(Byte) /\ Encode(c) \in Seq(Byte)
<1>1. Len(c) \in Nat
  OBVIOUS
<1>2. 1 \in 1 .. Len(c) + 1 /\ Len(c) \in 0 .. Len(c)
  BY <1>1
<1> QED  BY <1>2, DecodeEquation, EncodeEquation, DecodeIs, EncodeIs

(* Where the parts of a concatenation are.                                 *)
LEMMA ConcatParts ==
    ASSUME NEW s \in Seq(Byte), NEW t \in Seq(Byte)
    PROVE  /\ Len(s) \in Nat /\ Len(t) \in Nat
           /\ Len(s \o t) = Len(s) + Len(t) /\ Len(s) <= Len(s \o t)
           /\ \A j \in 1 .. Len(s) : (s \o t)[j] = s[j]
           /\ \A j \in 1 .. Len(t) : (s \o t)[Len(s) + j] = t[j]
<1>1. Len(s) \in Nat /\ Len(t) \in Nat
  OBVIOUS
<1>2. Len(s \o t) = Len(s) + Len(t)
  BY ConcatProperties
<1>3. \A j \in 1 .. Len(s) : (s \o t)[j] = s[j]
  BY <1>1, ConcatProperties
<1>4. ASSUME NEW j \in 1 .. Len(t) PROVE (s \o t)[Len(s) + j] = t[j]
  BY <1>1, ConcatProperties
<1> QED  BY <1>1, <1>2, <1>3, <1>4

(* One step of Encode: it puts the bytes of c[i] behind those before.      *)
LEMMA EncodeByte ==
    ASSUME NEW c \in Seq(Byte), NEW i \in 1 .. Len(c)
    PROVE  LET before == EncodedUpTo(c)[i - 1]
               after  == EncodedUpTo(c)[i]
               bytes  == Encoded(c[i])
           IN  /\ before \in Seq(Byte) /\ after \in Seq(Byte) /\ bytes \in Seq(Byte)
               /\ Len(before) \in Nat /\ Len(bytes) \in Nat
               /\ Len(after) = Len(before) + Len(bytes) /\ Len(before) <= Len(after)
               /\ \A j \in 1 .. Len(before) : after[j] = before[j]
               /\ \A j \in 1 .. Len(bytes) : after[Len(before) + j] = bytes[j]
<1> DEFINE before == EncodedUpTo(c)[i - 1]
           after  == EncodedUpTo(c)[i]
           bytes  == Encoded(c[i])
<1>1. Len(c) \in Nat /\ i - 1 \in 0 .. Len(c) /\ i \in 0 .. Len(c) /\ c[i] \in Byte
  OBVIOUS
<1>2. before \in Seq(Byte) /\ after \in Seq(Byte)
  BY <1>1, EncodeEquation
<1>3. bytes \in Seq(Byte)
  BY <1>1, EncodedTypes
<1>4. after = before \o bytes
  BY EncodeEquation
<1> HIDE DEF before, after, bytes
<1>5. /\ Len(before) \in Nat /\ Len(bytes) \in Nat
      /\ Len(after) = Len(before) + Len(bytes) /\ Len(before) <= Len(after)
      /\ \A j \in 1 .. Len(before) : after[j] = before[j]
      /\ \A j \in 1 .. Len(bytes) : after[Len(before) + j] = bytes[j]
  BY <1>2, <1>3, <1>4, ConcatParts, Zenon
<1> QED  BY <1>2, <1>3, <1>5 DEF before, after, bytes

(* What was encoded stays where it is while the rest is encoded.           *)
LEMMA EncodedPrefix ==
    ASSUME NEW c \in Seq(Byte), NEW i \in 0 .. Len(c)
    PROVE  /\ EncodedUpTo(c)[i] \in Seq(Byte)
           /\ Len(EncodedUpTo(c)[i]) <= Len(Encode(c))
           /\ \A j \in 1 .. Len(EncodedUpTo(c)[i]) : Encode(c)[j] = EncodedUpTo(c)[i][j]
<1> DEFINE n == Len(c)
           E(k) == EncodedUpTo(c)[k]
           e == Encode(c)
           Within(k) == Len(E(k)) <= Len(e) /\ \A j \in 1 .. Len(E(k)) : e[j] = E(k)[j]
           T == {k \in 0 .. n : Within(k)}
<1>1. n \in Nat /\ n \in 0 .. n /\ e = E(n) /\ Len(e) \in Nat
  BY EncodeIs, ConversionTypes
<1>2. \A k \in 0 .. n : E(k) \in Seq(Byte)
  BY EncodeEquation
<1>3. n \in T
  BY <1>1
<1>4. ASSUME NEW k \in 1 .. n, k \in T PROVE k - 1 \in T
  <2>1. /\ Len(E(k - 1)) \in Nat /\ Len(Encoded(c[k])) \in Nat
        /\ Len(E(k)) = Len(E(k - 1)) + Len(Encoded(c[k])) /\ Len(E(k - 1)) <= Len(E(k))
        /\ \A j \in 1 .. Len(E(k - 1)) : E(k)[j] = E(k - 1)[j]
    BY EncodeByte, Zenon
  <2>2. k - 1 \in 0 .. n
    BY <1>1
  <2>3. Within(k)
    BY <1>4
  <2> HIDE DEF E, e
  <2>4. Len(E(k - 1)) <= Len(e)
    BY <1>1, <2>1, <2>3
  <2>5. ASSUME NEW j \in 1 .. Len(E(k - 1)) PROVE e[j] = E(k - 1)[j]
    <3>1. j \in 1 .. Len(E(k))
      BY <2>1
    <3> QED  BY <2>1, <2>3, <3>1
  <2>6. Within(k - 1)
    BY <2>4, <2>5
  <2> HIDE DEF Within
  <2> QED  BY <2>2, <2>6
<1>5. \A k \in 0 .. n : k \in T
  <2> HIDE DEF T
  <2> QED  BY <1>1, <1>3, <1>4, Downward
<1>6. Within(i)
  <2> HIDE DEF Within
  <2> QED  BY <1>5
<1> QED  BY <1>2, <1>6

(* What Decode finds at each byte of a text.                               *)
LEMMA DecodeByte ==
    ASSUME NEW e \in Seq(Byte), NEW j \in 1 .. Len(e), e[j] # "sub"
    PROVE  DecodedFrom(e)[j] = IF e[j] = "cr" /\ j < Len(e) /\ e[j + 1] = "lf"
                                 THEN DecodedFrom(e)[j + 1]
                                 ELSE <<e[j]>> \o DecodedFrom(e)[j + 1]
<1>1. Len(e) \in Nat /\ j \in 1 .. Len(e) + 1 /\ ~(j > Len(e))
  OBVIOUS
<1>2. DecodedFrom(e)[j] = DecodeStep(e, DecodedFrom(e), j)
  BY <1>1, DecodeEquation
<1> QED  BY <1>1, <1>2 DEF DecodeStep

(* Reading a byte of c back from its encoding: from where the encoding of  *)
(* c[i] begins, Decode yields c[i] and goes on where that of c[i + 1] does.*)
LEMMA ByteReadBack ==
    ASSUME NEW c \in Seq(Byte), NEW i \in 1 .. Len(c), c[i] # "sub"
    PROVE  DecodedFrom(Encode(c))[Len(EncodedUpTo(c)[i - 1]) + 1]
             = <<c[i]>> \o DecodedFrom(Encode(c))[Len(EncodedUpTo(c)[i]) + 1]
<1> DEFINE n == Len(c)
           E(k) == EncodedUpTo(c)[k]
           e == Encode(c)
           F(j) == DecodedFrom(e)[j]
           p == Len(E(i - 1)) + 1
<1>1. n \in Nat /\ i \in 0 .. n /\ e \in Seq(Byte) /\ Len(e) \in Nat
  BY ConversionTypes
<1>2. /\ Len(E(i - 1)) \in Nat /\ Len(Encoded(c[i])) \in Nat
      /\ Len(E(i)) = Len(E(i - 1)) + Len(Encoded(c[i]))
      /\ \A j \in 1 .. Len(Encoded(c[i])) : E(i)[Len(E(i - 1)) + j] = Encoded(c[i])[j]
  BY EncodeByte, Zenon
<1>3. /\ Len(E(i)) <= Len(e)
      /\ \A j \in 1 .. Len(E(i)) : e[j] = E(i)[j]
  BY <1>1, EncodedPrefix
<1>4. \A j \in 1 .. Len(e) : e[j] # "sub" =>
         F(j) = IF e[j] = "cr" /\ j < Len(e) /\ e[j + 1] = "lf"
                  THEN F(j + 1) ELSE <<e[j]>> \o F(j + 1)
  BY <1>1, DecodeByte
<1>5. CASE c[i] = "lf"
  <2>1. /\ Len(Encoded(c[i])) = 2
        /\ Encoded(c[i])[1] = "cr" /\ Encoded(c[i])[2] = "lf"
    BY <1>5 DEF Encoded
  <2> HIDE DEF E, e, F
  <2>2. Len(E(i)) = p + 1 /\ E(i)[p] = "cr" /\ E(i)[p + 1] = "lf"
    <3>1. 1 \in 1 .. Len(Encoded(c[i])) /\ 2 \in 1 .. Len(Encoded(c[i]))
      BY <2>1
    <3>2. E(i)[Len(E(i - 1)) + 1] = "cr" /\ E(i)[Len(E(i - 1)) + 2] = "lf"
      BY <1>2, <2>1, <3>1
    <3>3. p + 1 = Len(E(i - 1)) + 2
      BY <1>2
    <3> QED  BY <1>2, <2>1, <3>2, <3>3
  <2>3. /\ p \in Nat /\ p \in 1 .. Len(E(i)) /\ p + 1 \in 1 .. Len(E(i))
        /\ p \in 1 .. Len(e) /\ p + 1 \in 1 .. Len(e) /\ p < Len(e)
    BY <1>1, <1>2, <1>3, <2>2
  <2>4. e[p] = "cr" /\ e[p + 1] = "lf"
    BY <1>3, <2>2, <2>3
  <2> HIDE DEF p
  <2>5. F(p) = F(p + 1)
    BY <1>4, <2>3, <2>4
  <2>6. F(p + 1) = <<"lf">> \o F((p + 1) + 1)
    BY <1>4, <2>3, <2>4
  <2> QED  BY <1>5, <2>2, <2>5, <2>6 DEF p, E, F, e
<1>6. CASE c[i] # "lf"
  <2>1. Len(Encoded(c[i])) = 1 /\ Encoded(c[i])[1] = c[i]
    BY <1>6 DEF Encoded
  <2> HIDE DEF E, e, F
  <2>2. Len(E(i)) = p /\ E(i)[p] = c[i]
    <3>1. 1 \in 1 .. Len(Encoded(c[i]))
      BY <2>1
    <3> QED  BY <1>2, <2>1, <3>1
  <2>3. p \in Nat /\ p \in 1 .. Len(E(i)) /\ p \in 1 .. Len(e)
    BY <1>1, <1>2, <1>3, <2>2
  <2>4. e[p] = c[i]
    BY <1>3, <2>2, <2>3
  <2>5. ASSUME p < Len(e) PROVE e[p + 1] # "lf"
    <3> DEFINE b == Encoded(c[i + 1])
    <3>1. i + 1 \in 1 .. n /\ i + 1 \in 0 .. n /\ (i + 1) - 1 = i
      <4>1. e = E(n)
        BY EncodeIs DEF e, E
      <4>2. i # n
        BY <1>1, <2>2, <2>5, <4>1
      <4> QED  BY <1>1, <4>2
    <3>2. /\ Len(b) \in Nat /\ Len(E(i + 1)) = Len(E(i)) + Len(b)
          /\ \A j \in 1 .. Len(b) : E(i + 1)[Len(E(i)) + j] = b[j]
      <4>1. /\ Len(b) \in Nat /\ Len(E(i + 1)) = Len(E((i + 1) - 1)) + Len(b)
            /\ \A j \in 1 .. Len(b) : E(i + 1)[Len(E((i + 1) - 1)) + j] = b[j]
        BY <3>1, EncodeByte, Zenon DEF E
      <4> QED  BY <3>1, <4>1
    <3>3. Len(b) >= 1 /\ b[1] # "lf"
      BY DEF Encoded
    <3> HIDE DEF b
    <3>4. E(i + 1)[p + 1] = b[1] /\ p + 1 \in 1 .. Len(E(i + 1))
      BY <2>2, <2>3, <3>2, <3>3
    <3>5. e[p + 1] = E(i + 1)[p + 1]
      BY <3>1, <3>4, EncodedPrefix DEF E, e
    <3> QED  BY <3>3, <3>4, <3>5
  <2> HIDE DEF p
  <2>6. F(p) = <<c[i]>> \o F(p + 1)
    BY <1>4, <2>3, <2>4, <2>5
  <2> QED  BY <2>2, <2>6 DEF p, E, F, e
<1> QED  BY <1>5, <1>6

(* What text mode writes it reads again, but for Ctrl-Z: the one byte that *)
(* ends a read (async_fs.hpp, "r+").                                       *)
THEOREM TextModeUndone ==
    ASSUME NEW c \in Seq(Byte), \A i \in 1 .. Len(c) : c[i] # "sub"
    PROVE  Decode(Encode(c)) = c
<1> DEFINE n == Len(c)
           L(k) == Len(EncodedUpTo(c)[k])
           F(j) == DecodedFrom(Encode(c))[j]
           T == {k \in 0 .. n : F(L(k) + 1) = SubSeq(c, k + 1, n)}
<1>1. n \in Nat /\ n \in 0 .. n /\ Encode(c) \in Seq(Byte)
  BY ConversionTypes
<1>2. n \in T
  <2>1. SubSeq(c, n + 1, n) = <<>>
    BY <1>1, SubSeqEmpty
  <2>2. L(n) = Len(Encode(c)) /\ L(n) \in Nat
    BY <1>1, EncodeIs
  <2>3. F(L(n) + 1) = DecodeStep(Encode(c), DecodedFrom(Encode(c)), L(n) + 1)
    BY <1>1, <2>2, DecodeEquation
  <2>4. F(L(n) + 1) = <<>>
    <3> HIDE DEF F, L
    <3> QED  BY <1>1, <2>2, <2>3 DEF DecodeStep
  <2> HIDE DEF F, L
  <2> QED  BY <1>1, <2>1, <2>4
<1>3. ASSUME NEW k \in 1 .. n, k \in T PROVE k - 1 \in T
  <2>1. F(L(k - 1) + 1) = <<c[k]>> \o F(L(k) + 1)
    BY ByteReadBack
  <2>2. F(L(k) + 1) = SubSeq(c, k + 1, n)
    BY <1>3
  <2>3. SubSeq(c, k, n) = <<c[k]>> \o SubSeq(c, k + 1, n)
    <3>1. n \in k .. n
      BY <1>1
    <3> QED  BY <3>1, SubSeqRecursiveFirst
  <2>4. k - 1 \in 0 .. n /\ (k - 1) + 1 = k
    BY <1>1
  <2> HIDE DEF F, L
  <2> QED  BY <2>1, <2>2, <2>3, <2>4
<1>4. 0 \in T
  <2> HIDE DEF T
  <2> QED  BY <1>1, <1>2, <1>3, Downward
<1>5. L(0) = 0
  <2>1. EncodedUpTo(c)[0] = <<>>
    BY EncodeEquation
  <2> QED  BY <2>1
<1>6. F(1) = SubSeq(c, 1, n)
  <2> HIDE DEF F, L
  <2> QED  BY <1>4, <1>5
<1> QED  BY <1>6, DecodeIs, SubSeqFull

-----------------------------------------------------------------------------
(* Pieces of a sequence.                                                   *)

(* What lies behind m - 1, cut at k.                                       *)
LEMMA Cut ==
    ASSUME NEW s \in Seq(Byte), NEW m \in 1 .. Len(s) + 1, NEW k \in m - 1 .. Len(s)
    PROVE  /\ SubSeq(s, m, k) \in Seq(Byte) /\ SubSeq(s, k + 1, Len(s)) \in Seq(Byte)
           /\ Len(SubSeq(s, m, k)) = k - m + 1
           /\ SubSeq(s, m, k) \o SubSeq(s, k + 1, Len(s)) = SubSeq(s, m, Len(s))
<1>1. Len(s) \in Nat /\ m \in Int /\ k \in Int /\ Len(s) \in k .. Len(s)
  OBVIOUS
<1>2. \A i \in m .. k : s[i] \in Byte
  BY <1>1
<1>3. \A i \in k + 1 .. Len(s) : s[i] \in Byte
  BY <1>1
<1>4. SubSeq(s, m, k) \in Seq(Byte) /\ Len(SubSeq(s, m, k)) = k - m + 1
  BY <1>1, <1>2, SubSeqProperties
<1>5. SubSeq(s, k + 1, Len(s)) \in Seq(Byte)
  BY <1>1, <1>3, SubSeqProperties
<1>6. SubSeq(s, m, k) \o SubSeq(s, k + 1, Len(s)) = SubSeq(s, m, Len(s))
  BY <1>1, ConcatAdjacentSubSeq
<1> QED  BY <1>4, <1>5, <1>6

(* What comes first is a prefix.                                           *)
LEMMA ConcatHasPrefix ==
    ASSUME NEW s \in Seq(Byte), NEW t \in Seq(Byte)
    PROVE  IsPrefix(s, s \o t)
<1>1. /\ s \o t \in Seq(Byte) /\ Len(s) \in Nat /\ Len(s \o t) \in Nat
      /\ Len(s) <= Len(s \o t) /\ \A j \in 1 .. Len(s) : (s \o t)[j] = s[j]
  BY ConcatParts, ConcatProperties
<1> DEFINE u == s \o t
           p == SubSeq(u, 1, Len(s))
<1>2. \A i \in 1 .. Len(s) : u[i] \in Byte
  BY <1>1
<1> HIDE DEF u
<1>3. p \in Seq(Byte) /\ Len(p) = Len(s) /\ \A i \in 1 .. Len(s) : p[i] = u[i]
  BY <1>1, <1>2, SubSeqProperties
<1>4. p = s
  <2> HIDE DEF p
  <2> QED  BY <1>1, <1>3 DEF u
<1> QED  BY <1>1, <1>4 DEF IsPrefix, u

(* A piece p taken from the front of p \o r and put behind a.  The provers  *)
(* see through \o to its elements, which does not help here: hence Joined.  *)
Joined(s, t) == s \o t

LEMMA JoinedOnce ==
    ASSUME NEW s \in Seq(Byte), NEW t \in Seq(Byte), NEW u \in Seq(Byte)
    PROVE  Joined(Joined(s, t), u) = Joined(s, Joined(t, u)) /\ Joined(s, t) \in Seq(Byte)
  BY ConcatAssociative, ConcatProperties DEF Joined

LEMMA PieceMoves ==
    ASSUME NEW a \in Seq(Byte), NEW p \in Seq(Byte), NEW r \in Seq(Byte), NEW t \in Seq(Byte)
    PROVE  Joined(Joined(a, p), Joined(r, t)) = Joined(a, Joined(Joined(p, r), t))
<1>1. Joined(Joined(p, r), t) = Joined(p, Joined(r, t)) /\ Joined(r, t) \in Seq(Byte)
  BY JoinedOnce
<1> QED  BY <1>1, JoinedOnce

(* New bytes that reach the end of the old file replace it.                *)
LEMMA OverlayTypes ==
    ASSUME NEW new \in Seq(Byte), NEW was \in Seq(Byte)
    PROVE  /\ Overlay(new, was) \in Seq(Byte)
           /\ Len(was) <= Len(new) => Overlay(new, was) = new
<1> DEFINE rest == SubSeq(was, Len(new) + 1, Len(was))
<1>1. Len(new) \in Nat /\ Len(was) \in Nat
  OBVIOUS
<1>2. \A i \in Len(new) + 1 .. Len(was) : was[i] \in Byte
  BY <1>1
<1>3. rest \in Seq(Byte)
  BY <1>1, <1>2, SubSeqProperties
<1>4. Len(was) <= Len(new) => rest = <<>>
  BY <1>1, SubSeqEmpty
<1> HIDE DEF rest
<1>5. new \o rest \in Seq(Byte) /\ new \o <<>> = new
  BY <1>3, ConcatProperties, ConcatEmptySeq
<1> QED  BY <1>4, <1>5 DEF Overlay, rest

(* Before the first byte is written nothing is.                            *)
LEMMA NothingIsNothing == Encode(<<>>) = <<>>
<1>1. <<>> \in Seq(Byte) /\ Len(<<>>) = 0
  OBVIOUS
<1> QED  BY <1>1, EncodeEquation, EncodeIs

-----------------------------------------------------------------------------
(* The invariant.                                                          *)

(* What is still to be sent of the buffer.                                 *)
Unsent == SubSeq(chunk, bytesSent + 1, Len(chunk))

(* RETR: the file as text mode reads it is what arrived, what is still in  *)
(* the buffer and what is still unread, in this order; total_sent counts   *)
(* whole buffers (data_channel.cpp:130-170).                               *)
RetrInv ==
    op = "RETR" =>
        /\ file = old
        /\ Decode(old) = arrived \o (Unsent \o source)
        /\ Len(arrived) = total + (IF bytesSent < Len(chunk) THEN bytesSent ELSE 0)
        /\ reply = 226 => chunk = <<>> /\ source = <<>>

(* STOR: the file is what arrived, over the old one.                       *)
StorInv == op = "STOR" => file = Overlay(Encode(arrived), old)

(* The inductive invariant.                                                *)
TransferInv == TypeOK /\ RetrInv /\ StorInv

(* A transfer begins with all the file ahead and nothing sent.             *)
LEMMA InitialTransfer == Init => TransferInv
<1> SUFFICES ASSUME Init PROVE TransferInv
  OBVIOUS
<1>1. old \in Seq(Byte) /\ file = old /\ Decode(old) \in Seq(Byte) /\ source \in Seq(Byte)
  BY TransferAssumption, ConversionTypes DEF Init
<1>2. <<>> \in Seq(Byte) /\ Len(<<>>) = 0
  OBVIOUS
<1>3. TypeOK
  BY <1>1, <1>2 DEF Init, TypeOK
<1>4. RetrInv
  <2>1. Unsent = <<>>
    BY <1>2, SubSeqEmpty DEF Init, Unsent
  <2>2. Unsent \o source = source /\ <<>> \o source = source
    BY <1>1, <2>1, ConcatEmptySeq
  <2>3. op = "RETR" => source = Decode(old)
    BY DEF Init
  <2>4. arrived = <<>> /\ bytesSent = 0 /\ chunk = <<>> /\ total = 0 /\ reply = 0
    BY DEF Init
  <2> QED  BY <1>1, <1>2, <2>2, <2>3, <2>4 DEF RetrInv
<1>5. StorInv
  <2>1. Overlay(<<>>, old) = old
    <3>1. SubSeq(old, 0 + 1, Len(old)) = old /\ <<>> \o old = old
      BY <1>1, SubSeqFull, ConcatEmptySeq
    <3> QED  BY <1>2, <3>1 DEF Overlay
  <2> QED  BY <1>1, <2>1, NothingIsNothing DEF Init, StorInv
<1> QED  BY <1>3, <1>4, <1>5 DEF TransferInv

(* A chunk is read when the one before it is sent, and takes its place.    *)
LEMMA ReadChunkKeepsInv ==
    ASSUME TransferInv, ReadChunk PROVE TransferInv'
<1> DEFINE n == Smaller(BufferSize, Len(source))
<1>1. TypeOK /\ op = "RETR" /\ bytesSent = Len(chunk) /\ reply = 0
  BY DEF TransferInv, ReadChunk, Running
<1>2. /\ old \in Seq(Byte) /\ file \in Seq(Byte) /\ source \in Seq(Byte)
      /\ arrived \in Seq(Byte) /\ chunk \in Seq(Byte) /\ total \in Nat
      /\ Len(source) \in Nat /\ Len(chunk) \in Nat
  BY <1>1 DEF TypeOK
<1>3. n \in 0 .. Len(source) /\ (n = 0 => source = <<>>)
  BY <1>2, TransferAssumption DEF Smaller
<1>4. /\ chunk' = SubSeq(source, 1, n) /\ source' = SubSeq(source, n + 1, Len(source))
      /\ bytesSent' = 0 /\ reply' = IF n = 0 THEN 226 ELSE 0
      /\ UNCHANGED <<op, old, file, total, arrived, peer>>
  BY DEF ReadChunk
<1> HIDE DEF n
<1>5. /\ chunk' \in Seq(Byte) /\ source' \in Seq(Byte) /\ Len(chunk') = n
      /\ chunk' \o source' = source
  <2>1. 1 \in 1 .. Len(source) + 1 /\ n \in 1 - 1 .. Len(source) /\ n - 1 + 1 = n
    BY <1>2, <1>3
  <2>2. /\ chunk' \in Seq(Byte) /\ source' \in Seq(Byte) /\ Len(chunk') = n - 1 + 1
        /\ chunk' \o source' = SubSeq(source, 1, Len(source))
    BY <1>2, <1>4, <2>1, Cut
  <2> QED  BY <1>2, <2>1, <2>2, SubSeqFull
<1>6. TypeOK'
  <2>1. bytesSent' \in 0 .. Len(chunk') /\ reply' \in {0, 226}
    BY <1>3, <1>4, <1>5
  <2> QED  BY <1>1, <1>4, <1>5, <2>1 DEF TypeOK
<1>7. RetrInv'
  <2>1. Unsent = <<>> /\ Unsent \o source = source
    <3>1. Unsent = <<>>
      BY <1>1, <1>2, SubSeqEmpty DEF Unsent
    <3> QED  BY <1>2, <3>1, ConcatEmptySeq
  <2>2. Unsent' = chunk'
    BY <1>4, <1>5, SubSeqFull DEF Unsent
  <2>3. file = old /\ Decode(old) = arrived \o source /\ Len(arrived) = total
    BY <1>1, <1>2, <2>1 DEF TransferInv, RetrInv
  <2>4. n = 0 => chunk' = <<>> /\ source' = <<>>
    <3>1. n = 0 => chunk' = <<>>
      BY <1>5
    <3>2. n = 0 => source' = <<>>
      BY <1>3, <1>5, ConcatEqualIffEmpty
    <3> QED  BY <3>1, <3>2
  <2>5. Len(arrived') = total' + (IF bytesSent' < Len(chunk') THEN bytesSent' ELSE 0)
    BY <1>2, <1>4, <2>3
  <2>6. Decode(old') = arrived' \o (Unsent' \o source')
    BY <1>4, <1>5, <2>2, <2>3
  <2>7. file' = old' /\ (reply' = 226 => chunk' = <<>> /\ source' = <<>>)
    BY <1>4, <2>3, <2>4
  <2> QED  BY <2>5, <2>6, <2>7 DEF RetrInv
<1>8. StorInv'
  BY <1>1, <1>4 DEF StorInv
<1> QED  BY <1>6, <1>7, <1>8 DEF TransferInv

(* What a send takes lies between what arrived and what is unsent.         *)
LEMMA SendSomeKeepsInv ==
    ASSUME TransferInv, SendSome PROVE TransferInv'
<1>1. TypeOK /\ op = "RETR" /\ reply = 0
  BY DEF TransferInv, SendSome, Running
<1>2. /\ old \in Seq(Byte) /\ file \in Seq(Byte) /\ source \in Seq(Byte)
      /\ arrived \in Seq(Byte) /\ chunk \in Seq(Byte) /\ total \in Nat
      /\ Len(arrived) \in Nat /\ Len(chunk) \in Nat /\ bytesSent \in 0 .. Len(chunk)
  BY <1>1 DEF TypeOK
<1>3. PICK k \in 1 .. Len(chunk) - bytesSent :
         /\ arrived' = arrived \o NextPiece(k)
         /\ bytesSent' = bytesSent + k
         /\ total' = total + (IF bytesSent + k = Len(chunk) THEN Len(chunk) ELSE 0)
  BY DEF SendSome
<1>4. UNCHANGED <<op, old, file, source, chunk, peer, reply>>
  BY DEF SendSome
<1>5. /\ NextPiece(k) \in Seq(Byte) /\ Len(NextPiece(k)) = k
      /\ Unsent' \in Seq(Byte) /\ NextPiece(k) \o Unsent' = Unsent
  <2>1. /\ bytesSent + 1 \in 1 .. Len(chunk) + 1
        /\ bytesSent + k \in (bytesSent + 1) - 1 .. Len(chunk)
        /\ (bytesSent + k) - (bytesSent + 1) + 1 = k
    BY <1>2
  <2>2. Unsent' = SubSeq(chunk, bytesSent + k + 1, Len(chunk))
    BY <1>3, <1>4 DEF Unsent
  <2> DEFINE m == bytesSent + 1
             e == bytesSent + k
  <2>3. m \in 1 .. Len(chunk) + 1 /\ e \in m - 1 .. Len(chunk) /\ e - m + 1 = k
    BY <2>1
  <2> HIDE DEF m, e
  <2>4. /\ SubSeq(chunk, m, e) \in Seq(Byte) /\ SubSeq(chunk, e + 1, Len(chunk)) \in Seq(Byte)
        /\ Len(SubSeq(chunk, m, e)) = e - m + 1
        /\ SubSeq(chunk, m, e) \o SubSeq(chunk, e + 1, Len(chunk)) = SubSeq(chunk, m, Len(chunk))
    BY <1>2, <2>3, Cut
  <2>5. /\ NextPiece(k) = SubSeq(chunk, m, e) /\ Unsent = SubSeq(chunk, m, Len(chunk))
        /\ Unsent' = SubSeq(chunk, e + 1, Len(chunk))
    BY <2>2 DEF m, e, NextPiece, Unsent
  <2> QED  BY <2>3, <2>4, <2>5, Zenon
<1>6. arrived' \in Seq(Byte) /\ Len(arrived') = Len(arrived) + k
  BY <1>2, <1>3, <1>5, ConcatProperties
<1>7. bytesSent' \in 1 .. Len(chunk) /\ total' \in Nat
  BY <1>2, <1>3
<1>8. TypeOK'
  BY <1>1, <1>4, <1>6, <1>7 DEF TypeOK
<1>9. RetrInv'
  <2>1. /\ file = old /\ Decode(old) = arrived \o (Unsent \o source)
        /\ Len(arrived) = total + (IF bytesSent < Len(chunk) THEN bytesSent ELSE 0)
    BY <1>1 DEF TransferInv, RetrInv
  <2>2. arrived \o (Unsent \o source) = arrived' \o (Unsent' \o source)
    <3>1. /\ arrived \in Seq(Byte) /\ NextPiece(k) \in Seq(Byte)
          /\ Unsent' \in Seq(Byte) /\ source \in Seq(Byte)
      BY <1>2, <1>5
    <3>2. Unsent = Joined(NextPiece(k), Unsent') /\ arrived' = Joined(arrived, NextPiece(k))
      BY <1>3, <1>5 DEF Joined
    <3>3. Joined(arrived', Joined(Unsent', source)) = Joined(arrived, Joined(Unsent, source))
      BY <3>1, <3>2, PieceMoves
    <3> QED  BY <3>3 DEF Joined
  <2>3. Len(arrived') = total' + (IF bytesSent' < Len(chunk) THEN bytesSent' ELSE 0)
    <3> DEFINE l == Len(chunk)
               a == Len(arrived)
    <3>1. l \in Nat /\ a \in Nat /\ bytesSent \in 0 .. l /\ k \in 1 .. l - bytesSent /\ total \in Nat
      BY <1>2
    <3>2. a = total + bytesSent
      BY <1>2, <2>1
    <3> HIDE DEF l, a
    <3>3. CASE bytesSent + k = l
      <4>1. total' = total + l /\ bytesSent' = l
        BY <1>3, <3>3 DEF l
      <4>2. Len(arrived') = total' + 0 /\ ~(bytesSent' < l)
        BY <1>6, <3>1, <3>2, <3>3, <4>1 DEF a
      <4> QED  BY <4>2 DEF l
    <3>4. CASE bytesSent + k < l
      <4>1. total' = total /\ bytesSent' = bytesSent + k
        BY <1>3, <3>1, <3>4 DEF l
      <4>2. Len(arrived') = total' + bytesSent' /\ bytesSent' < l
        BY <1>6, <3>1, <3>2, <3>4, <4>1 DEF a
      <4> QED  BY <4>2 DEF l
    <3> QED  BY <3>1, <3>3, <3>4
  <2> QED  BY <1>1, <1>4, <2>1, <2>2, <2>3 DEF RetrInv
<1>10. StorInv'
  BY <1>1, <1>4 DEF StorInv
<1> QED  BY <1>8, <1>9, <1>10 DEF TransferInv

(* What is received goes behind what was, and the file is written anew.    *)
LEMMA ReceiveSomeKeepsInv ==
    ASSUME TransferInv, ReceiveSome PROVE TransferInv'
<1>1. TypeOK /\ op = "STOR"
  BY DEF TransferInv, ReceiveSome, Running
<1>2. /\ old \in Seq(Byte) /\ source \in Seq(Byte) /\ arrived \in Seq(Byte)
      /\ total \in Nat /\ Len(source) \in Nat
  BY <1>1 DEF TypeOK
<1>3. PICK k \in 1 .. Smaller(BufferSize, Len(source)) :
         /\ arrived' = arrived \o SubSeq(source, 1, k)
         /\ source' = SubSeq(source, k + 1, Len(source))
         /\ total' = total + k
  BY DEF ReceiveSome
<1>4. file' = Overlay(Encode(arrived'), old) /\ UNCHANGED <<op, old, chunk, bytesSent, peer, reply>>
  BY DEF ReceiveSome
<1>5. k \in 1 - 1 .. Len(source) /\ 1 \in 1 .. Len(source) + 1
  BY <1>2, TransferAssumption DEF Smaller
<1>6. SubSeq(source, 1, k) \in Seq(Byte) /\ source' \in Seq(Byte)
  BY <1>2, <1>3, <1>5, Cut
<1>7. arrived' \in Seq(Byte) /\ total' \in Nat
  BY <1>2, <1>3, <1>5, <1>6, ConcatProperties
<1>8. file' \in Seq(Byte)
  BY <1>2, <1>4, <1>7, ConversionTypes, OverlayTypes
<1>9. TypeOK'
  BY <1>1, <1>4, <1>6, <1>7, <1>8 DEF TypeOK
<1> QED  BY <1>1, <1>4, <1>9 DEF TransferInv, RetrInv, StorInv

(* The remaining actions end the transfer or touch only the client's side. *)
LEMMA OthersKeepInv ==
    ASSUME TransferInv,
           SendFails \/ ReceiveEnds \/ ClientFinishes \/ ClientAborts \/ UNCHANGED vars
    PROVE  TransferInv'
<1>1. UNCHANGED <<op, old, file, chunk, bytesSent, total, arrived>>
  BY DEF SendFails, ReceiveEnds, ClientFinishes, ClientAborts, vars
<1>2. /\ source' = source \/ (op = "STOR" /\ source' = <<>>)
      /\ reply' = reply \/ reply' = 550
      /\ peer' \in {peer, "done", "aborted"}
  BY DEF SendFails, ReceiveEnds, ClientFinishes, ClientAborts, vars
<1>3. TypeOK'
  <2>1. source' \in Seq(Byte)
    <3>1. source \in Seq(Byte) /\ <<>> \in Seq(Byte)
      BY DEF TransferInv, TypeOK
    <3> QED  BY <1>2, <3>1
  <2> QED  BY <1>1, <1>2, <2>1 DEF TransferInv, TypeOK
<1>4. RetrInv'
  <2>1. Unsent' = Unsent
    BY <1>1 DEF Unsent
  <2>2. op = "RETR" => source' = source
    BY <1>2
  <2> SUFFICES ASSUME op = "RETR" PROVE RetrInv'
    BY <1>1 DEF RetrInv
  <2>3. /\ file = old /\ Decode(old) = arrived \o (Unsent \o source)
        /\ Len(arrived) = total + (IF bytesSent < Len(chunk) THEN bytesSent ELSE 0)
        /\ reply = 226 => chunk = <<>> /\ source = <<>>
    BY DEF TransferInv, RetrInv
  <2>4. file' = old' /\ Decode(old') = arrived' \o (Unsent' \o source')
    BY <1>1, <2>1, <2>2, <2>3
  <2>5. Len(arrived') = total' + (IF bytesSent' < Len(chunk') THEN bytesSent' ELSE 0)
    BY <1>1, <2>3
  <2>6. reply' = 226 => chunk' = <<>> /\ source' = <<>>
    BY <1>1, <1>2, <2>2, <2>3
  <2> QED  BY <2>4, <2>5, <2>6 DEF RetrInv
<1>5. StorInv'
  BY <1>1 DEF TransferInv, StorInv
<1> QED  BY <1>3, <1>4, <1>5 DEF TransferInv

(* Every transfer, of any content through any buffer, keeps TransferInv.   *)
THEOREM TransferInvariant == Spec => []TransferInv
<1>1. ASSUME TransferInv, [Next]_vars PROVE TransferInv'
  BY <1>1, ReadChunkKeepsInv, SendSomeKeepsInv, ReceiveSomeKeepsInv, OthersKeepInv
     DEF Next, ServerMoves
<1> QED  BY <1>1, InitialTransfer, PTL DEF Spec

(* The state of send_file and receive_file has its type: what is sent of   *)
(* the buffer never exceeds it, and the conversions yield bytes.           *)
THEOREM Typing == Spec => []TypeOK
<1>1. TransferInv => TypeOK
  BY DEF TransferInv
<1> QED  BY <1>1, TransferInvariant, PTL

(* RETR delivers a prefix of the file as text mode reads it, however its   *)
(* reads and sends are split, and all of it when it replies 226            *)
(* (data_channel.cpp:130-170).                                             *)
THEOREM RetrDeliversTheFile == Spec => []RetrDelivers
<1>1. ASSUME TransferInv PROVE RetrDelivers
  <2> SUFFICES ASSUME op = "RETR" PROVE RetrDelivers
    BY DEF RetrDelivers
  <2> DEFINE rest == Unsent \o source
  <2>1. /\ source \in Seq(Byte) /\ arrived \in Seq(Byte) /\ chunk \in Seq(Byte)
        /\ Len(chunk) \in Nat /\ bytesSent \in 0 .. Len(chunk)
    BY <1>1 DEF TransferInv, TypeOK
  <2>2. Unsent \in Seq(Byte)
    <3>1. \A i \in bytesSent + 1 .. Len(chunk) : chunk[i] \in Byte
      BY <2>1
    <3> QED  BY <2>1, <3>1, SubSeqProperties DEF Unsent
  <2>3. rest \in Seq(Byte)
    BY <2>1, <2>2, ConcatProperties
  <2>4. /\ file = old /\ Decode(old) = arrived \o rest
        /\ Len(arrived) = total + (IF bytesSent < Len(chunk) THEN bytesSent ELSE 0)
        /\ reply = 226 => chunk = <<>> /\ source = <<>>
    BY <1>1 DEF TransferInv, RetrInv
  <2>5. IsPrefix(arrived, Decode(file))
    <3> HIDE DEF rest
    <3> QED  BY <2>1, <2>3, <2>4, ConcatHasPrefix
  <2>6. ASSUME reply = 226 PROVE arrived = Decode(file) /\ total = Len(arrived)
    <3>1. chunk = <<>> /\ source = <<>> /\ Len(chunk) = 0 /\ bytesSent = 0
      BY <2>1, <2>4, <2>6
    <3>2. Unsent = <<>>
      BY <3>1, SubSeqEmpty DEF Unsent
    <3>3. rest = <<>>
      BY <2>2, <3>1, <3>2, ConcatEmptySeq
    <3>4. arrived \o <<>> = arrived
      BY <2>1, ConcatEmptySeq
    <3>5. total \in Nat
      BY <1>1 DEF TransferInv, TypeOK
    <3> HIDE DEF rest
    <3> QED  BY <2>4, <3>1, <3>3, <3>4, <3>5
  <2> QED  BY <2>5, <2>6 DEF RetrDelivers
<1> QED  BY <1>1, TransferInvariant, PTL

(* What STOR wrote over no longer a file, RETR reads back byte for byte,   *)
(* unless it holds a Ctrl-Z (data_channel.cpp:172-213, async_fs.hpp).      *)
THEOREM StoredIsRetrieved == Spec => []StorThenRetr
<1>1. ASSUME TransferInv PROVE StorThenRetr
  <2> SUFFICES ASSUME op = "STOR", Len(old) <= Len(Encode(arrived)),
                      \A i \in 1 .. Len(arrived) : arrived[i] # "sub"
               PROVE  Decode(file) = arrived
    BY DEF StorThenRetr
  <2>1. old \in Seq(Byte) /\ arrived \in Seq(Byte) /\ file = Overlay(Encode(arrived), old)
    BY <1>1 DEF TransferInv, TypeOK, StorInv
  <2>2. file = Encode(arrived)
    BY <2>1, ConversionTypes, OverlayTypes
  <2> QED  BY <2>1, <2>2, TextModeUndone
<1> QED  BY <1>1, TransferInvariant, PTL
=============================================================================
