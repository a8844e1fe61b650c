------------------------ MODULE HttpConnectionProofs ------------------------
(***************************************************************************)
(* Proofs about HttpConnection, for any number of requests, any lengths of *)
(* heads and bodies and any size of the reads: requests are taken in the   *)
(* order sent, a PUT writes the bytes of its own body, and a client that   *)
(* waits for its answers is cut off only for the causes named.  And about  *)
(* Encodings, for any code page: a file is found by the href listed for it.*)
(*                                                                         *)
(* Where a request begins is a recursive function of the script.  Its      *)
(* equation is shown by induction (BeginEquation); the proofs about the    *)
(* connection use the positions only through Positions and InSequence.     *)
(***************************************************************************)
EXTENDS HttpConnection, SequenceTheorems, FiniteSetTheorems, WellFoundedInduction, TLAPS

(* Every set of natural numbers has a least element.                       *)
LEMMA LeastNatural ==
    ASSUME NEW S, S \subseteq Nat, S # {}
    PROVE  \E n \in S : \A m \in S : n <= m
<1> DEFINE R == OpToRel(<, Nat)
<1>1. IsWellFoundedOn(R, Nat)
  BY NatLessThanWellFounded
<1>2. \A x, y \in Nat : x < y => <<x, y>> \in R
  BY DEF OpToRel
<1>3. PICK n \in S : \A m \in S : ~(<<m, n>> \in R)
  <2> HIDE DEF R
  <2> QED  BY <1>1, WFMin
<1>4. \A m \in S : ~(m < n)
  <2> HIDE DEF R
  <2> QED  BY <1>2, <1>3
<1>5. \A m \in S : n \in Nat /\ m \in Nat
  OBVIOUS
<1> QED  BY <1>4, <1>5

(* Induction, with a set in the place of a predicate.                      *)
LEMMA Induction ==
    ASSUME NEW T, 0 \in T, \A n \in Nat : n \in T => n + 1 \in T
    PROVE  \A n \in Nat : n \in T
<1> DEFINE S == Nat \ T
<1> SUFFICES ASSUME S # {} PROVE FALSE
  OBVIOUS
<1>1. PICK n \in S : \A m \in S : n <= m
  BY LeastNatural
<1>2. n \in Nat /\ n # 0
  OBVIOUS
<1>3. n - 1 \in Nat /\ n - 1 \notin S
  BY <1>1, <1>2
<1> QED  BY <1>2, <1>3

-----------------------------------------------------------------------------
(* Where the requests lie in the stream.                                   *)

(* Begin's recursion is well-defined, for every script.                    *)
LEMMA BeginEquation ==
    ASSUME script \in [Request -> Kind]
    PROVE  /\ Begin \in [Request -> Nat]
           /\ \A i \in Request : Length(i) \in Nat
           /\ Begin[1] = 0
           /\ \A i \in Request : i # 1 => Begin[i] = Begin[i - 1] + HeadLen + Length(i - 1)
<1> DEFINE Step(g, i) == IF i = 1 THEN 0 ELSE g[i - 1] + HeadLen + Length(i - 1)
           Solves(g, k) == \A i \in Request : i <= k => g[i] = Step(g, i)
           T == {k \in Nat : k <= Requests => \E g \in [Request -> Nat] : Solves(g, k)}
           f == Begin
           U == {k \in Nat : k + 1 \in Request => f[k + 1] \in Nat}
<1>1. Requests \in Nat /\ 1 \in Request /\ HeadLen \in Nat
  BY ConnectionAssumption DEF Request
<1>2. \A i \in Request : Length(i) \in Nat
  BY ConnectionAssumption DEF Length
<1>3. \A i \in Request : i \in Nat /\ i >= 1 /\ i <= Requests /\ (i # 1 => i - 1 \in Request)
  BY <1>1 DEF Request
<1>4. 0 \in T
  <2> DEFINE g == [i \in Request |-> 0]
  <2>1. g \in [Request -> Nat] /\ Solves(g, 0)
    BY <1>3
  <2> HIDE DEF g, Solves
  <2> QED  BY <2>1
<1>5. ASSUME NEW k \in Nat, k \in T PROVE k + 1 \in T
  <2> SUFFICES ASSUME k + 1 <= Requests
               PROVE  \E h \in [Request -> Nat] : Solves(h, k + 1)
    BY <1>1
  <2>1. PICK g \in [Request -> Nat] : Solves(g, k)
    BY <1>1, <1>5
  <2>2. k + 1 \in Request
    BY <1>1 DEF Request
  <2>3. Step(g, k + 1) \in Nat
    <3>1. k + 1 # 1 => k \in Request /\ g[k] \in Nat /\ Length(k) \in Nat
      BY <1>2, <1>3, <2>2
    <3> QED  BY <1>1, <3>1
  <2> DEFINE h == [g EXCEPT ![k + 1] = Step(g, k + 1)]
  <2>4. h \in [Request -> Nat]
    <3> HIDE DEF Step
    <3> QED  BY <2>3
  <2>5. ASSUME NEW i \in Request, i <= k + 1 PROVE h[i] = Step(h, i)
    <3>1. i # 1 => h[i - 1] = g[i - 1] /\ i - 1 \in Request
      <4> HIDE DEF Step
      <4> QED  BY <1>3, <2>5
    <3>2. Step(h, i) = Step(g, i)
      <4> HIDE DEF h
      <4> QED  BY <3>1
    <3> HIDE DEF Step
    <3>3. CASE i = k + 1
      BY <2>2, <3>2, <3>3
    <3>4. CASE i <= k
      <4>1. h[i] = g[i] /\ g[i] = Step(g, i)
        BY <2>1, <3>4
      <4> QED  BY <3>2, <4>1
    <3> QED  BY <1>3, <2>5, <3>3, <3>4
  <2> HIDE DEF h, Step
  <2> QED  BY <2>4, <2>5
<1>6. Requests \in T
  <2> HIDE DEF T
  <2> QED  BY <1>1, <1>4, <1>5, Induction
<1>7. f = [i \in Request |-> Step(f, i)]
  <2>1. PICK g \in [Request -> Nat] : Solves(g, Requests)
    BY <1>1, <1>6
  <2>2. g = [i \in Request |-> Step(g, i)]
    <3>1. \A i \in Request : g[i] = Step(g, i)
      <4> HIDE DEF Step
      <4> QED  BY <1>3, <2>1
    <3> HIDE DEF Step
    <3> QED  BY <3>1
  <2> QED  BY <2>2 DEF Begin
<1>8. \A i \in Request : f[i] = Step(f, i)
  <2> HIDE DEF f
  <2> QED  BY <1>7
<1>9. f[1] = 0 /\ \A i \in Request : i # 1 => f[i] = f[i - 1] + HeadLen + Length(i - 1)
  <2> HIDE DEF f
  <2> QED  BY <1>1, <1>8
<1>10. 0 \in U
  <2> HIDE DEF f
  <2> QED  BY <1>9
<1>11. ASSUME NEW k \in Nat, k \in U PROVE k + 1 \in U
  <2> HIDE DEF f
  <2> SUFFICES ASSUME k + 1 + 1 \in Request PROVE f[k + 1 + 1] \in Nat
    OBVIOUS
  <2>1. (k + 1 + 1) # 1 /\ (k + 1 + 1) - 1 = k + 1 /\ k + 1 \in Request
    BY <1>1 DEF Request
  <2>2. f[k + 1] \in Nat /\ Length(k + 1) \in Nat
    BY <1>2, <1>11, <2>1
  <2>3. f[k + 1 + 1] = f[k + 1] + HeadLen + Length(k + 1)
    BY <1>9, <2>1
  <2> QED  BY <1>1, <2>2, <2>3
<1>12. \A i \in Request : f[i] \in Nat
  <2>1. \A k \in Nat : k \in U
    <3> HIDE DEF U
    <3> QED  BY <1>10, <1>11, Induction
  <2> HIDE DEF f
  <2> TAKE i \in Request
  <2>2. i - 1 \in Nat /\ (i - 1) + 1 = i
    BY <1>3
  <2> QED  BY <2>1, <2>2
<1>13. f \in [Request -> Nat]
  <2> HIDE DEF f, Step
  <2> QED  BY <1>7, <1>12
<1> QED  BY <1>2, <1>9, <1>13

(* One request follows the other, without a gap.                           *)
LEMMA Positions ==
    ASSUME script \in [Request -> Kind]
    PROVE  /\ Requests \in Nat \ {0} /\ 1 \in Request
           /\ \A i \in Request : i \in Nat \ {0} /\ i <= Requests
           /\ \A i \in Request :
                /\ Begin[i] \in Nat /\ HeadEnd(i) \in Nat
                /\ BodyEnd(i) \in Nat /\ Length(i) \in Nat
                /\ Begin[i] < HeadEnd(i) /\ HeadEnd(i) <= BodyEnd(i)
                /\ BodyEnd(i) = HeadEnd(i) + Length(i)
           /\ Begin[1] = 0
           /\ \A i \in Request : i # 1 => i - 1 \in Request /\ Begin[i] = BodyEnd(i - 1)
<1>1. Requests \in Nat \ {0} /\ HeadLen \in Nat \ {0}
  BY ConnectionAssumption
<1>2. \A i \in Request : i \in Nat \ {0} /\ i <= Requests /\ (i # 1 => i - 1 \in Request)
  BY <1>1 DEF Request
<1>3. 1 \in Request
  BY <1>1 DEF Request
<1>4. \A i \in Request : Begin[i] \in Nat /\ Length(i) \in Nat
  BY BeginEquation
<1>5. \A i \in Request : HeadEnd(i) = Begin[i] + HeadLen /\ BodyEnd(i) = HeadEnd(i) + Length(i)
  BY DEF HeadEnd, BodyEnd
<1>6. \A i \in Request :
         /\ HeadEnd(i) \in Nat /\ BodyEnd(i) \in Nat
         /\ Begin[i] < HeadEnd(i) /\ HeadEnd(i) <= BodyEnd(i)
  BY <1>1, <1>4, <1>5
<1>7. ASSUME NEW i \in Request, i # 1 PROVE Begin[i] = BodyEnd(i - 1)
  <2>1. Begin[i] = Begin[i - 1] + HeadLen + Length(i - 1)
    BY <1>7, BeginEquation
  <2> QED  BY <1>2, <1>5, <1>7, <2>1
<1> QED  BY <1>1, <1>2, <1>3, <1>4, <1>5, <1>6, <1>7, BeginEquation

LEMMA InSequence ==
    ASSUME script \in [Request -> Kind]
    PROVE  \A i, j \in Request :
              i < j => BodyEnd(i) <= Begin[j] /\ HeadEnd(i) < HeadEnd(j) /\ BodyEnd(i) < HeadEnd(j)
<1> DEFINE T == {n \in Nat : n \in Request =>
                    \A i \in Request : i < n => BodyEnd(i) <= Begin[n]}
<1>1. 0 \in T
  BY Positions
<1>2. ASSUME NEW n \in Nat, n \in T PROVE n + 1 \in T
  <2> SUFFICES ASSUME n + 1 \in Request, NEW i \in Request, i < n + 1
               PROVE  BodyEnd(i) <= Begin[n + 1]
    OBVIOUS
  <2>1. i \in Nat \ {0} /\ i <= n /\ n \in Request
    BY Positions DEF Request
  <2>2. Begin[n + 1] = BodyEnd(n) /\ BodyEnd(n) \in Nat /\ BodyEnd(i) \in Nat
    BY <2>1, Positions
  <2>3. CASE i = n
    BY <2>2, <2>3
  <2>4. CASE i < n
    <3>1. BodyEnd(i) <= Begin[n]
      BY <1>2, <2>1, <2>4
    <3>2. Begin[n] < HeadEnd(n) /\ HeadEnd(n) <= BodyEnd(n) /\ Begin[n] \in Nat /\ HeadEnd(n) \in Nat
      BY <2>1, Positions
    <3> QED  BY <2>2, <3>1, <3>2
  <2> QED  BY <2>1, <2>3, <2>4
<1>3. \A n \in Nat : n \in T
  <2> HIDE DEF T
  <2> QED  BY <1>1, <1>2, Induction
<1> TAKE i, j \in Request
<1> HAVE i < j
<1>4. BodyEnd(i) <= Begin[j]
  BY <1>3, Positions
<1>5. /\ Begin[j] \in Nat /\ HeadEnd(j) \in Nat /\ HeadEnd(i) \in Nat /\ BodyEnd(i) \in Nat
      /\ Begin[j] < HeadEnd(j) /\ HeadEnd(i) <= BodyEnd(i)
  BY Positions
<1> QED  BY <1>4, <1>5

(* No step moves the requests.                                             *)
LEMMA Fixed ==
    ASSUME UNCHANGED script
    PROVE  /\ Begin' = Begin
           /\ \A i : Length(i)' = Length(i) /\ Method(i)' = Method(i)
           /\ \A i : HeadEnd(i)' = HeadEnd(i) /\ BodyEnd(i)' = BodyEnd(i)
<1>1. \A i : Length(i)' = Length(i) /\ Method(i)' = Method(i)
  BY DEF Length, Method
<1>2. Begin' = Begin
  BY <1>1 DEF Begin
<1>3. \A i : HeadEnd(i)' = HeadEnd(i)
  BY <1>2 DEF HeadEnd
<1>4. \A i : BodyEnd(i)' = BodyEnd(i)
  BY <1>1, <1>3 DEF BodyEnd
<1> QED  BY <1>1, <1>2, <1>3, <1>4

-----------------------------------------------------------------------------
(* The invariant.                                                          *)

(* Where handle_request has a request in hand.                             *)
InHand == {"body", "handling", "content", "responding"}

(* Where the heads, and the requests, of the first k end.                  *)
HeadsThrough(k) == IF k = 0 THEN 0 ELSE HeadEnd(k)

BodiesThrough(k) == IF k = 0 THEN 0 ELSE BodyEnd(k)

(* Requests are taken one by one.  consumed is where the head of the last  *)
(* one taken ends: what follows it was read, but nothing consumes it.      *)
OrderInv ==
    /\ \E k \in 0 .. Requests : answered = 1 .. k
    /\ request # 0 => 1 .. request - 1 \subseteq answered
    /\ pc = "reading" =>
         /\ request = 0
         /\ \A k \in 0 .. Requests : answered = 1 .. k => consumed = HeadsThrough(k)
    /\ pc \in InHand =>
         /\ request # 0 /\ consumed = HeadEnd(request)
         /\ answered # 1 .. request - 1 => pc = "responding" /\ answered = 1 .. request

(* How often the head of a response was written.                           *)
HeadsInv ==
    /\ \A i \in Request : heads[i] > 0 => i \in answered \cup {request}
    /\ \A i \in Request : heads[i] = 2 => Method(i) = "GET"
    /\ pc \in {"body", "handling"} => heads[request] = 0
    /\ pc = "content" => heads[request] = 1 /\ Method(request) = "GET"
    /\ pc = "responding" /\ heads[request] # 0 =>
         heads[request] = 1 /\ Method(request) = "GET"

(* A client that waits has sent no more than the one request after those   *)
(* answered, and nothing of it is in the buffer before or after its turn.  *)
WaitsInv ==
    client = "waits" =>
        /\ sent # 0 => \E i \in Request : sent = BodyEnd(i) /\ 1 .. i - 1 \subseteq answered
        /\ pc = "reading" =>
             \A k \in 0 .. Requests : answered = 1 .. k => received = BodiesThrough(k)
        /\ pc \in {"handling", "content", "responding"} => received = BodyEnd(request)

(* Before the first request nothing was read.                              *)
FirstInv == pc = "reading" /\ answered = {} => received = 0

(* The bytes collected for a body are those behind its head, without a gap.*)
BodyInv ==
    client = "waits" \/ request = 1 =>
        /\ pc = "body" =>
             /\ body = HeadEnd(request) + 1 .. received
             /\ HeadEnd(request) <= received /\ received < BodyEnd(request)
        /\ pc = "handling" =>
             \E e \in Nat : e >= BodyEnd(request) /\ body = HeadEnd(request) + 1 .. e

StoredInv ==
    \A i \in Request :
        /\ client = "waits" \/ i = 1
        /\ Method(i) = "PUT"
        /\ i \in answered \/ (i = request /\ pc = "responding")
        => stored[i] = HeadEnd(i) + 1 .. BodyEnd(i)

(* The inductive invariant.                                                *)
ConnInv ==
    TypeOK /\ OrderInv /\ HeadsInv /\ WaitsInv /\ FirstInv /\ BodyInv /\ StoredInv
           /\ CutOffForCause

-----------------------------------------------------------------------------
(* What the invariant says when a request is taken.                        *)

(* A recognized request is the one after those answered, and for a client  *)
(* that waits, as for the first request, it lies at the front of buffer_.  *)
LEMMA NextInLine ==
    ASSUME ConnInv, pc = "reading", NEW i \in Request, Begin[i] = consumed
    PROVE  /\ answered = 1 .. i - 1
           /\ client = "waits" \/ i = 1 => received = consumed
<1>1. TypeOK /\ OrderInv /\ WaitsInv /\ FirstInv /\ script \in [Request -> Kind]
  BY DEF ConnInv, TypeOK
<1>2. PICK k \in 0 .. Requests : answered = 1 .. k
  BY <1>1 DEF OrderInv
<1>3. /\ consumed = HeadsThrough(k)
      /\ client = "waits" => received = BodiesThrough(k)
  BY <1>1, <1>2 DEF OrderInv, WaitsInv
<1>4. /\ i \in Nat \ {0} /\ Begin[i] \in Nat /\ HeadEnd(i) \in Nat /\ Begin[i] < HeadEnd(i)
      /\ Requests \in Nat
  BY <1>1, Positions
<1>5. CASE k = 0
  <2>1. Begin[i] = 0
    BY <1>3, <1>5 DEF HeadsThrough
  <2>2. i = 1
    <3>1. i # 1 => /\ i - 1 \in Request /\ Begin[i] = BodyEnd(i - 1)
                   /\ Begin[i - 1] < HeadEnd(i - 1) /\ HeadEnd(i - 1) <= BodyEnd(i - 1)
                   /\ Begin[i - 1] \in Nat /\ HeadEnd(i - 1) \in Nat /\ BodyEnd(i - 1) \in Nat
      BY <1>1, Positions
    <3> QED  BY <2>1, <3>1
  <2>3. answered = {} /\ received = 0
    BY <1>1, <1>2, <1>3, <1>5 DEF FirstInv
  <2> QED  BY <1>2, <1>5, <2>1, <2>2, <2>3
<1>6. CASE k # 0
  <2>1. k \in Request /\ consumed = HeadEnd(k) /\ BodiesThrough(k) = BodyEnd(k)
    BY <1>3, <1>4, <1>6 DEF HeadsThrough, BodiesThrough, Request
  <2>2. /\ k \in Nat \ {0} /\ HeadEnd(k) \in Nat /\ BodyEnd(k) \in Nat /\ Begin[k] \in Nat
        /\ Begin[k] < HeadEnd(k) /\ HeadEnd(k) <= BodyEnd(k)
    BY <1>1, <2>1, Positions
  <2>3. ~(i < k)
    <3>1. i < k => HeadEnd(i) < HeadEnd(k)
      BY <1>1, <2>1, InSequence
    <3> QED  BY <1>1, <1>4, <2>1, <2>2, <3>1, InSequence, Positions
  <2>4. i # k
    BY <2>1, <2>2
  <2>5. i = k + 1
    <3> SUFFICES ASSUME k + 1 < i PROVE FALSE
      BY <1>4, <2>2, <2>3, <2>4
    <3>1. k + 1 \in Request
      BY <1>4, <2>2 DEF Request
    <3>2. BodyEnd(k + 1) <= Begin[i] /\ BodyEnd(k) < HeadEnd(k + 1)
      BY <1>1, <2>1, <2>2, <3>1, InSequence
    <3>3. HeadEnd(k + 1) <= BodyEnd(k + 1) /\ HeadEnd(k + 1) \in Nat /\ BodyEnd(k + 1) \in Nat
      BY <1>1, <3>1, Positions
    <3> QED  BY <1>4, <2>1, <2>2, <3>2, <3>3
  <2>6. Begin[i] = BodyEnd(k)
    <3>1. i # 1 /\ i - 1 = k
      BY <2>2, <2>5
    <3> QED  BY <1>1, <3>1, Positions
  <2> QED  BY <1>2, <1>3, <2>1, <2>2, <2>5, <2>6
<1> QED  BY <1>5, <1>6

(* A client that waits has sent no request beyond the one not answered.    *)
LEMMA SentForOne ==
    ASSUME ConnInv, client = "waits", NEW r \in Request, answered = 1 .. r - 1,
           sent > Begin[r]
    PROVE  sent = BodyEnd(r)
<1>1. WaitsInv /\ script \in [Request -> Kind]
  BY DEF ConnInv, TypeOK
<1>2. r \in Nat \ {0} /\ Begin[r] \in Nat
  BY <1>1, Positions
<1>3. PICK i \in Request : sent = BodyEnd(i) /\ 1 .. i - 1 \subseteq answered
  BY <1>1, <1>2 DEF WaitsInv
<1>4. i \in Nat \ {0} /\ BodyEnd(i) \in Nat
  BY <1>1, Positions
<1>5. i <= r
  <2> SUFFICES ASSUME r < i PROVE FALSE
    BY <1>2, <1>4
  <2>1. r \in 1 .. i - 1
    BY <1>2, <1>4
  <2> QED  BY <1>2, <1>3, <2>1
<1>6. ~(i < r)
  <2>1. i < r => BodyEnd(i) <= Begin[r]
    BY <1>1, InSequence
  <2> QED  BY <1>2, <1>3, <1>4, <2>1
<1> QED  BY <1>2, <1>3, <1>4, <1>5, <1>6

LEMMA IntervalSize ==
    ASSUME NEW a \in Nat, NEW b \in Nat, a <= b
    PROVE  Cardinality(a + 1 .. b) = b - a
<1>1. a + 1 \in Int /\ b \in Int
  OBVIOUS
<1>2. Cardinality(a + 1 .. b) = IF a + 1 > b THEN 0 ELSE b - (a + 1) + 1
  BY <1>1, FS_Interval
<1> QED  BY <1>2

(* put stores the first bytes of what was collected.                       *)
LEMMA FirstOfInterval ==
    ASSUME NEW a \in Nat, NEW n \in Nat, NEW e \in Nat, a + n <= e
    PROVE  FirstBytes(a + 1 .. e, n) = a + 1 .. a + n
<1>1. ASSUME NEW p \in a + 1 .. e
      PROVE  Cardinality({q \in a + 1 .. e : q <= p}) = p - a
  <2>1. {q \in a + 1 .. e : q <= p} = a + 1 .. p
    OBVIOUS
  <2>2. p \in Nat /\ a <= p
    OBVIOUS
  <2> QED  BY <2>1, <2>2, IntervalSize
<1>2. \A p \in a + 1 .. e : p - a <= n <=> p <= a + n
  OBVIOUS
<1>3. FirstBytes(a + 1 .. e, n) = {p \in a + 1 .. e : p <= a + n}
  BY <1>1, <1>2 DEF FirstBytes
<1>4. {p \in a + 1 .. e : p <= a + n} = a + 1 .. a + n
  OBVIOUS
<1> QED  BY <1>3, <1>4

-----------------------------------------------------------------------------
(* Every step keeps the invariant.                                         *)

(* Nothing was sent, read or answered.                                     *)
LEMMA InitialConnection == Init => ConnInv
<1> SUFFICES ASSUME Init PROVE ConnInv
  OBVIOUS
<1>1. script \in [Request -> Kind] /\ Requests \in Nat \ {0}
  BY Positions DEF Init
<1>2. /\ pc = "reading" /\ request = 0 /\ sent = 0 /\ received = 0 /\ consumed = 0
      /\ answered = {} /\ heads = [i \in Request |-> 0] /\ stored = [i \in Request |-> {}]
      /\ body = {}
  BY DEF Init
<1>3. TypeOK
  <2>1. /\ sent \in {0} \cup {BodyEnd(i) : i \in Request}
        /\ received \in 0 .. sent /\ consumed \in 0 .. received
        /\ body \subseteq 1 .. received /\ answered \subseteq Request
    BY <1>2
  <2>2. /\ heads \in [Request -> 0 .. 2]
        /\ stored \in [Request -> SUBSET (1 .. received)]
    BY <1>2
  <2>3. /\ client \in {"waits", "pipelines"} /\ torn \in BOOLEAN /\ online \in BOOLEAN
        /\ pc \in PC /\ request \in Request \cup {0}
    BY DEF Init, PC
  <2> QED  BY <1>1, <2>1, <2>2, <2>3 DEF TypeOK
<1>4. OrderInv
  <2>1. answered = 1 .. 0 /\ 0 \in 0 .. Requests
    BY <1>1, <1>2
  <2>2. \A k \in 0 .. Requests : answered = 1 .. k => k = 0
    BY <1>1, <1>2
  <2> QED  BY <1>2, <2>1, <2>2 DEF OrderInv, HeadsThrough, InHand
<1>5. HeadsInv
  BY <1>2 DEF HeadsInv
<1>6. WaitsInv
  <2>1. \A k \in 0 .. Requests : answered = 1 .. k => k = 0
    BY <1>1, <1>2
  <2> QED  BY <1>2, <2>1 DEF WaitsInv, BodiesThrough
<1>7. FirstInv /\ BodyInv /\ CutOffForCause
  BY <1>2 DEF FirstInv, BodyInv, CutOffForCause
<1>8. StoredInv
  BY <1>2 DEF StoredInv
<1> QED  BY <1>3, <1>4, <1>5, <1>6, <1>7, <1>8 DEF ConnInv

(* Steps that leave the buffer and the requests alone and end the          *)
(* connection, or change nothing but who is there.                         *)
LEMMA EndsKeepInv ==
    ASSUME ConnInv, ClientLeaves \/ ConnectionLost \/ HandlerThrows \/ UNCHANGED vars
    PROVE  ConnInv'
<1>1. /\ UNCHANGED <<client, script, request, sent, received, consumed, body,
                     heads, answered, stored, torn>>
      /\ pc' = pc \/ pc' \in {"lost", "thrown"}
      /\ online' = online \/ online' = FALSE
  BY DEF ClientLeaves, ConnectionLost, HandlerThrows, vars
<1>2. /\ \A i : Length(i)' = Length(i) /\ Method(i)' = Method(i)
      /\ \A i : HeadEnd(i)' = HeadEnd(i) /\ BodyEnd(i)' = BodyEnd(i)
  BY <1>1, Fixed
<1>3. TypeOK'
  BY <1>1, <1>2 DEF ConnInv, TypeOK, PC, Ended
<1>4. OrderInv'
  BY <1>1, <1>2 DEF ConnInv, OrderInv, InHand, HeadsThrough
<1>5. HeadsInv'
  BY <1>1, <1>2 DEF ConnInv, HeadsInv
<1>6. WaitsInv'
  BY <1>1, <1>2 DEF ConnInv, WaitsInv, BodiesThrough
<1>7. FirstInv'
  BY <1>1 DEF ConnInv, FirstInv
<1>8. BodyInv'
  BY <1>1, <1>2 DEF ConnInv, BodyInv
<1>9. StoredInv'
  BY <1>1, <1>2 DEF ConnInv, StoredInv
<1>10. CutOffForCause'
  BY <1>1, <1>2 DEF ConnInv, CutOffForCause
<1> QED  BY <1>3, <1>4, <1>5, <1>6, <1>7, <1>8, <1>9, <1>10 DEF ConnInv

(* The client sends what comes next in the stream.                         *)
LEMMA ClientSendsKeepsInv ==
    ASSUME ConnInv, ClientSends PROVE ConnInv'
<1>1. UNCHANGED <<client, script, pc, request, received, consumed, body,
                  heads, answered, stored, torn, online>>
  BY DEF ClientSends
<1>2. PICK j \in Request :
         /\ sent = Begin[j]
         /\ client = "waits" => \A n \in 1 .. j - 1 : n \in answered
         /\ sent' = BodyEnd(j)
  BY DEF ClientSends
<1>3. /\ \A i : Length(i)' = Length(i) /\ Method(i)' = Method(i)
      /\ \A i : HeadEnd(i)' = HeadEnd(i) /\ BodyEnd(i)' = BodyEnd(i)
  BY <1>1, Fixed
<1>4. script \in [Request -> Kind]
  BY DEF ConnInv, TypeOK
<1>5. /\ j \in Nat \ {0} /\ Begin[j] \in Nat /\ HeadEnd(j) \in Nat /\ BodyEnd(j) \in Nat
      /\ Begin[j] < HeadEnd(j) /\ HeadEnd(j) <= BodyEnd(j)
  BY <1>4, Positions
<1>6. TypeOK'
  <2>1. received \in 0 .. sent /\ received' \in 0 .. sent'
    BY <1>1, <1>2, <1>5 DEF ConnInv, TypeOK
  <2>2. sent' \in {0} \cup {BodyEnd(i)' : i \in Request}
    BY <1>2, <1>3
  <2> QED  BY <1>1, <2>1, <2>2 DEF ConnInv, TypeOK
<1>7. OrderInv'
  BY <1>1, <1>3 DEF ConnInv, OrderInv, InHand, HeadsThrough
<1>8. HeadsInv'
  BY <1>1, <1>3 DEF ConnInv, HeadsInv
<1>9. WaitsInv'
  <2> SUFFICES ASSUME client = "waits" PROVE WaitsInv'
    BY <1>1 DEF WaitsInv
  <2>1. sent' = BodyEnd(j)' /\ 1 .. j - 1 \subseteq answered'
    BY <1>1, <1>2, <1>3
  <2>2. /\ pc = "reading" =>
             \A k \in 0 .. Requests : answered = 1 .. k => received = BodiesThrough(k)
        /\ pc \in {"handling", "content", "responding"} => received = BodyEnd(request)
    BY DEF ConnInv, WaitsInv
  <2>3. \A k : BodiesThrough(k)' = BodiesThrough(k)
    BY <1>3 DEF BodiesThrough
  <2> QED  BY <1>1, <1>3, <2>1, <2>2, <2>3 DEF WaitsInv
<1>10. FirstInv'
  BY <1>1 DEF ConnInv, FirstInv
<1>11. BodyInv'
  BY <1>1, <1>3 DEF ConnInv, BodyInv
<1>12. StoredInv'
  BY <1>1, <1>3 DEF ConnInv, StoredInv
<1>13. CutOffForCause'
  <2> SUFFICES ASSUME client = "waits", NEW i \in Request, i \notin answered, sent = BodyEnd(i)
               PROVE  FALSE
    BY <1>1, <1>3 DEF ConnInv, CutOffForCause
  <2>1. /\ i \in Nat \ {0} /\ BodyEnd(i) \in Nat /\ HeadEnd(i) \in Nat /\ Begin[i] \in Nat
        /\ Begin[i] < HeadEnd(i) /\ HeadEnd(i) <= BodyEnd(i)
    BY <1>4, Positions
  <2>2. i < j
    <3>1. i # j
      BY <1>2, <1>5, <2>1
    <3>2. j < i => BodyEnd(j) <= Begin[i]
      BY <1>4, InSequence
    <3> QED  BY <1>2, <1>5, <2>1, <3>1, <3>2
  <2>3. i \in 1 .. j - 1
    BY <1>5, <2>1, <2>2
  <2> QED  BY <1>2, <2>3
<1> QED  BY <1>6, <1>7, <1>8, <1>9, <1>10, <1>11, <1>12, <1>13 DEF ConnInv

(* PUT writes the bytes of its body; any other method writes nothing here. *)
LEMMA HandleKeepsInv ==
    ASSUME ConnInv, Handle PROVE ConnInv'
<1>1. /\ pc = "handling" /\ Method(request) # "GET" /\ pc' = "responding"
      /\ stored' = IF Method(request) = "PUT"
                     THEN [stored EXCEPT ![request] = FirstBytes(body, Length(request))]
                     ELSE stored
      /\ UNCHANGED <<client, script, request, sent, received, consumed, body,
                     heads, answered, torn, online>>
  BY DEF Handle
<1>2. /\ \A i : Length(i)' = Length(i) /\ Method(i)' = Method(i)
      /\ \A i : HeadEnd(i)' = HeadEnd(i) /\ BodyEnd(i)' = BodyEnd(i)
  BY <1>1, Fixed
<1>3. /\ TypeOK /\ request \in Request /\ script \in [Request -> Kind]
      /\ consumed = HeadEnd(request) /\ heads[request] = 0
      /\ answered = 1 .. request - 1
      /\ 1 .. request - 1 \subseteq answered
  BY <1>1 DEF ConnInv, TypeOK, OrderInv, InHand, HeadsInv
<1>4. TypeOK'
  <2>1. stored' \in [Request -> SUBSET (1 .. received)]
    <3>1. FirstBytes(body, Length(request)) \subseteq body /\ body \subseteq 1 .. received
      BY <1>3 DEF FirstBytes, TypeOK
    <3>2. stored \in [Request -> SUBSET (1 .. received)]
      BY <1>3 DEF TypeOK
    <3> QED  BY <1>1, <3>1, <3>2
  <2> QED  BY <1>1, <1>2, <1>3, <2>1 DEF TypeOK, PC
<1>5. OrderInv'
  <2>1. \E k \in 0 .. Requests : answered = 1 .. k
    BY DEF ConnInv, OrderInv
  <2>2. request # 0
    BY <1>1 DEF ConnInv, OrderInv, InHand
  <2> QED  BY <1>1, <1>2, <1>3, <2>1, <2>2 DEF OrderInv, InHand
<1>6. HeadsInv'
  BY <1>1, <1>2, <1>3 DEF ConnInv, HeadsInv
<1>7. WaitsInv'
  BY <1>1, <1>2 DEF ConnInv, WaitsInv
<1>8. FirstInv' /\ BodyInv' /\ CutOffForCause'
  BY <1>1 DEF FirstInv, BodyInv, CutOffForCause
<1>9. StoredInv'
  <2> SUFFICES ASSUME NEW i \in Request, client = "waits" \/ i = 1, Method(i) = "PUT",
                      i \in answered \/ i = request
               PROVE  stored'[i] = HeadEnd(i) + 1 .. BodyEnd(i)
    BY <1>1, <1>2 DEF StoredInv
  <2>1. /\ request \in Nat \ {0} /\ HeadEnd(request) \in Nat /\ BodyEnd(request) \in Nat
        /\ Length(request) \in Nat /\ BodyEnd(request) = HeadEnd(request) + Length(request)
    BY <1>3, Positions
  <2>2. CASE i = request
    <3>1. stored'[i] = FirstBytes(body, Length(request))
      BY <1>1, <1>3, <2>2 DEF TypeOK
    <3>2. PICK e \in Nat : e >= BodyEnd(request) /\ body = HeadEnd(request) + 1 .. e
      BY <1>1, <2>2 DEF ConnInv, BodyInv
    <3>3. FirstBytes(body, Length(request)) = HeadEnd(request) + 1 .. BodyEnd(request)
      BY <2>1, <3>2, FirstOfInterval
    <3> QED  BY <2>2, <3>1, <3>3
  <2>3. CASE i # request
    <3>1. stored'[i] = stored[i] /\ i \in answered
      BY <1>1, <1>3, <2>3 DEF TypeOK
    <3> QED  BY <3>1 DEF ConnInv, StoredInv
  <2> QED  BY <2>2, <2>3
<1> QED  BY <1>4, <1>5, <1>6, <1>7, <1>8, <1>9 DEF ConnInv

(* GET writes the head of what it found itself.                            *)
LEMMA HandleGetKeepsInv ==
    ASSUME ConnInv, HandleGet PROVE ConnInv'
<1>1. /\ pc = "handling" /\ Method(request) = "GET"
      /\ \/ pc' = "responding" /\ heads' = heads
         \/ pc' = "content" /\ heads' = [heads EXCEPT ![request] = @ + 1]
      /\ UNCHANGED <<client, script, request, sent, received, consumed, body,
                     answered, stored, torn, online>>
  BY DEF HandleGet, HeadWritten
<1>2. /\ \A i : Length(i)' = Length(i) /\ Method(i)' = Method(i)
      /\ \A i : HeadEnd(i)' = HeadEnd(i) /\ BodyEnd(i)' = BodyEnd(i)
  BY <1>1, Fixed
<1>3. /\ TypeOK /\ request \in Request /\ request # 0
      /\ consumed = HeadEnd(request) /\ heads[request] = 0
      /\ answered = 1 .. request - 1
      /\ heads \in [Request -> 0 .. 2]
  BY <1>1 DEF ConnInv, TypeOK, OrderInv, InHand, HeadsInv
<1>4. /\ heads' \in [Request -> 0 .. 2]
      /\ \A i \in Request : i # request => heads'[i] = heads[i]
      /\ pc' = "responding" => heads'[request] = 0
      /\ pc' = "content" => heads'[request] = 1
  BY <1>1, <1>3
<1>5. TypeOK'
  BY <1>1, <1>2, <1>3, <1>4 DEF TypeOK, PC
<1>6. OrderInv'
  <2>1. \E k \in 0 .. Requests : answered = 1 .. k
    BY DEF ConnInv, OrderInv
  <2> QED  BY <1>1, <1>2, <1>3, <2>1 DEF OrderInv, InHand
<1>7. HeadsInv'
  BY <1>1, <1>2, <1>3, <1>4 DEF ConnInv, HeadsInv
<1>8. WaitsInv'
  BY <1>1, <1>2 DEF ConnInv, WaitsInv
<1>9. FirstInv' /\ BodyInv' /\ CutOffForCause'
  BY <1>1 DEF FirstInv, BodyInv, CutOffForCause
<1>10. StoredInv'
  BY <1>1, <1>2 DEF ConnInv, StoredInv
<1> QED  BY <1>5, <1>6, <1>7, <1>8, <1>9, <1>10 DEF ConnInv

(* The content of a GET is complete before its response is written again.  *)
LEMMA ContentWrittenKeepsInv ==
    ASSUME ConnInv, ContentWritten PROVE ConnInv'
<1>1. /\ pc = "content" /\ pc' = "responding" /\ answered' = answered \cup {request}
      /\ UNCHANGED <<client, script, request, sent, received, consumed, body,
                     heads, stored, torn, online>>
  BY DEF ContentWritten
<1>2. /\ \A i : Length(i)' = Length(i) /\ Method(i)' = Method(i)
      /\ \A i : HeadEnd(i)' = HeadEnd(i) /\ BodyEnd(i)' = BodyEnd(i)
  BY <1>1, Fixed
<1>3. /\ TypeOK /\ request \in Request /\ request # 0 /\ script \in [Request -> Kind]
      /\ consumed = HeadEnd(request) /\ heads[request] = 1
      /\ Method(request) = "GET"
      /\ answered = 1 .. request - 1
  BY <1>1 DEF ConnInv, TypeOK, OrderInv, InHand, HeadsInv
<1>4. answered' = 1 .. request /\ request \in 0 .. Requests /\ request \in Nat
  BY <1>1, <1>3, Positions
<1>5. TypeOK'
  BY <1>1, <1>2, <1>3 DEF TypeOK, PC
<1>6. OrderInv'
  <2>1. 1 .. request - 1 \subseteq answered'
    BY <1>1, <1>3
  <2> QED  BY <1>1, <1>2, <1>3, <1>4, <2>1 DEF OrderInv, InHand
<1>7. HeadsInv'
  BY <1>1, <1>2, <1>3 DEF ConnInv, HeadsInv
<1>8. WaitsInv'
  BY <1>1, <1>2 DEF ConnInv, WaitsInv
<1>9. FirstInv' /\ BodyInv' /\ CutOffForCause'
  BY <1>1 DEF FirstInv, BodyInv, CutOffForCause
<1>10. StoredInv'
  BY <1>1, <1>2, <1>3 DEF ConnInv, StoredInv
<1> QED  BY <1>5, <1>6, <1>7, <1>8, <1>9, <1>10 DEF ConnInv

(* The response is written: the next request, if any, is awaited.          *)
LEMMA RespondKeepsInv ==
    ASSUME ConnInv, Respond PROVE ConnInv'
<1>1. /\ pc = "responding" /\ pc' \in {"version", "reading"}
      /\ heads' = [heads EXCEPT ![request] = @ + 1]
      /\ answered' = answered \cup {request} /\ body' = {} /\ request' = 0
      /\ UNCHANGED <<client, script, sent, received, consumed, stored, torn, online>>
  BY DEF Respond, HeadWritten
<1>2. /\ \A i : Length(i)' = Length(i) /\ Method(i)' = Method(i)
      /\ \A i : HeadEnd(i)' = HeadEnd(i) /\ BodyEnd(i)' = BodyEnd(i)
  BY <1>1, Fixed
<1>3. /\ TypeOK /\ request \in Request /\ request # 0 /\ script \in [Request -> Kind]
      /\ consumed = HeadEnd(request)
      /\ heads[request] # 0 => heads[request] = 1 /\ Method(request) = "GET"
      /\ answered # 1 .. request - 1 => answered = 1 .. request
      /\ heads \in [Request -> 0 .. 2]
  BY <1>1 DEF ConnInv, TypeOK, OrderInv, InHand, HeadsInv
<1>4. /\ request \in 0 .. Requests /\ request \in Nat \ {0} /\ Requests \in Nat
      /\ answered' = 1 .. request
  <2>1. request \in Nat \ {0} /\ request <= Requests /\ Requests \in Nat
    BY <1>3, Positions
  <2> QED  BY <1>1, <1>3, <2>1
<1>5. \A k \in 0 .. Requests : answered' = 1 .. k => k = request
  <2> SUFFICES ASSUME NEW k \in 0 .. Requests, 1 .. k = 1 .. request PROVE k = request
    BY <1>4
  <2>1. request \in 1 .. k
    BY <1>4
  <2>2. k \in 1 .. request
    BY <1>4, <2>1
  <2> QED  BY <1>4, <2>1, <2>2
<1>6. TypeOK'
  <2>1. heads' \in [Request -> 0 .. 2]
    BY <1>1, <1>3
  <2> QED  BY <1>1, <1>2, <1>3, <2>1 DEF TypeOK, PC, Ended
<1>7. OrderInv'
  BY <1>1, <1>2, <1>3, <1>4, <1>5 DEF OrderInv, InHand, HeadsThrough
<1>8. HeadsInv'
  <2> SUFFICES /\ \A i \in Request : heads'[i] > 0 => i \in answered'
               /\ \A i \in Request : heads'[i] = 2 => Method(i) = "GET"
    BY <1>1, <1>2 DEF HeadsInv
  <2>1. \A i \in Request : /\ heads[i] > 0 => i \in answered \cup {request}
                           /\ heads[i] = 2 => Method(i) = "GET"
    BY DEF ConnInv, HeadsInv
  <2>2. heads'[request] = 1 \/ (heads'[request] = 2 /\ Method(request) = "GET")
    BY <1>1, <1>3
  <2>3. \A i \in Request : i # request => heads'[i] = heads[i]
    BY <1>1, <1>3
  <2> QED  BY <1>1, <2>1, <2>2, <2>3
<1>9. WaitsInv'
  <2> SUFFICES ASSUME client = "waits" PROVE WaitsInv'
    BY <1>1 DEF WaitsInv
  <2>1. /\ sent # 0 => \E i \in Request : sent = BodyEnd(i) /\ 1 .. i - 1 \subseteq answered
        /\ received = BodyEnd(request)
    BY <1>1 DEF ConnInv, WaitsInv
  <2>2. \A k \in 0 .. Requests : answered' = 1 .. k => received' = BodiesThrough(k)'
    BY <1>1, <1>2, <1>3, <1>5, <2>1 DEF BodiesThrough
  <2> QED  BY <1>1, <1>2, <2>1, <2>2 DEF WaitsInv
<1>10. FirstInv' /\ BodyInv' /\ CutOffForCause'
  BY <1>1 DEF FirstInv, BodyInv, CutOffForCause
<1>11. StoredInv'
  BY <1>1, <1>2, <1>3 DEF ConnInv, StoredInv
<1> QED  BY <1>6, <1>7, <1>8, <1>9, <1>10, <1>11 DEF ConnInv

(* The rest of a body is read behind what there is of it, and no further.  *)
LEMMA ReadBodyKeepsInv ==
    ASSUME ConnInv, ReadBody PROVE ConnInv'
<1>1. PICK got \in 1 .. ReadMax :
         /\ received + got <= sent
         /\ got <= Length(request) - Cardinality(body)
         /\ received' = received + got
         /\ body' = body \cup (received + 1 .. received + got)
         /\ pc' = IF BodyComplete(request, body') THEN "handling" ELSE "body"
  BY DEF ReadBody
<1>2. /\ pc = "body"
      /\ UNCHANGED <<client, script, request, sent, consumed,
                     heads, answered, stored, torn, online>>
  BY DEF ReadBody
<1>3. /\ \A i : Length(i)' = Length(i) /\ Method(i)' = Method(i)
      /\ \A i : HeadEnd(i)' = HeadEnd(i) /\ BodyEnd(i)' = BodyEnd(i)
  BY <1>2, Fixed
<1>4. /\ TypeOK /\ request \in Request /\ request # 0 /\ script \in [Request -> Kind]
      /\ consumed = HeadEnd(request) /\ heads[request] = 0
      /\ answered = 1 .. request - 1
  BY <1>2 DEF ConnInv, TypeOK, OrderInv, InHand, HeadsInv
<1>5. /\ HeadEnd(request) \in Nat /\ BodyEnd(request) \in Nat /\ Length(request) \in Nat
      /\ BodyEnd(request) = HeadEnd(request) + Length(request)
  BY <1>4, Positions
<1>6. /\ sent \in Nat /\ received \in 0 .. sent /\ consumed \in 0 .. received
      /\ received' \in 0 .. sent /\ received < received' /\ got \in Nat
  <2>1. sent \in Nat
    BY <1>4, Positions DEF TypeOK
  <2>2. received \in 0 .. sent /\ consumed \in 0 .. received /\ got \in Nat /\ got >= 1
    BY <1>4, ConnectionAssumption DEF TypeOK
  <2> QED  BY <1>1, <2>1, <2>2
<1>7. TypeOK'
  <2>1. body' \subseteq 1 .. received'
    BY <1>1, <1>4, <1>6 DEF TypeOK
  <2>2. stored' \in [Request -> SUBSET (1 .. received')]
    <3>1. 1 .. received \subseteq 1 .. received'
      BY <1>6
    <3> QED  BY <1>2, <1>4, <3>1 DEF TypeOK
  <2>3. consumed' \in 0 .. received' /\ received' \in 0 .. sent'
    BY <1>2, <1>6
  <2>4. pc' \in PC
    BY <1>1 DEF PC
  <2> QED  BY <1>2, <1>3, <1>4, <2>1, <2>2, <2>3, <2>4 DEF TypeOK
<1>8. OrderInv'
  <2>1. pc' \in {"body", "handling"} /\ \E k \in 0 .. Requests : answered = 1 .. k
    BY <1>1 DEF ConnInv, OrderInv
  <2> QED  BY <1>2, <1>3, <1>4, <2>1 DEF OrderInv, InHand
<1>9. HeadsInv'
  BY <1>1, <1>2, <1>3, <1>4 DEF ConnInv, HeadsInv
<1>10. ASSUME client = "waits" \/ request = 1
       PROVE  /\ body' = HeadEnd(request) + 1 .. received'
              /\ HeadEnd(request) <= received' /\ received' <= BodyEnd(request)
              /\ pc' = "handling" => received' = BodyEnd(request)
              /\ pc' = "body" => received' < BodyEnd(request)
  <2>1. body = HeadEnd(request) + 1 .. received /\ HeadEnd(request) <= received
    BY <1>2, <1>10 DEF ConnInv, BodyInv
  <2>2. Cardinality(body) = received - HeadEnd(request)
    BY <1>5, <1>6, <2>1, IntervalSize
  <2>3. body' = HeadEnd(request) + 1 .. received'
    <3> DEFINE h == HeadEnd(request)
    <3>1. h \in Nat /\ received \in Nat /\ h <= received
      BY <1>5, <1>6, <2>1
    <3> HIDE DEF h
    <3>2. (h + 1 .. received) \cup (received + 1 .. received + got) = h + 1 .. received + got
      BY <1>6, <3>1
    <3> QED  BY <1>1, <2>1, <3>2 DEF h
  <2>4. Cardinality(body') = received' - HeadEnd(request)
    BY <1>5, <1>6, <2>1, <2>3, IntervalSize
  <2>5. received' <= BodyEnd(request)
    BY <1>1, <1>5, <1>6, <2>2
  <2>6. BodyComplete(request, body') <=> received' >= BodyEnd(request)
    BY <1>5, <1>6, <2>4 DEF BodyComplete
  <2> QED  BY <1>1, <1>5, <1>6, <2>1, <2>3, <2>5, <2>6
<1>11. WaitsInv'
  <2>1. pc' \in {"body", "handling"}
    BY <1>1
  <2> QED  BY <1>2, <1>3, <1>10, <2>1 DEF ConnInv, WaitsInv
<1>12. BodyInv'
  <2> SUFFICES ASSUME client = "waits" \/ request = 1 PROVE BodyInv'
    BY <1>2 DEF BodyInv
  <2>1. pc' = "body" => /\ body' = HeadEnd(request)' + 1 .. received'
                        /\ HeadEnd(request)' <= received' /\ received' < BodyEnd(request)'
    BY <1>2, <1>3, <1>10
  <2>2. pc' = "handling" =>
           \E e \in Nat : e >= BodyEnd(request)' /\ body' = HeadEnd(request)' + 1 .. e
    BY <1>2, <1>3, <1>5, <1>10
  <2> QED  BY <2>1, <2>2 DEF BodyInv
<1>13. FirstInv' /\ CutOffForCause'
  BY <1>1 DEF FirstInv, CutOffForCause
<1>14. StoredInv'
  BY <1>1, <1>2, <1>3 DEF ConnInv, StoredInv
<1> QED  BY <1>7, <1>8, <1>9, <1>11, <1>12, <1>13, <1>14 DEF ConnInv

(* What every outcome of the first read has in common.                     *)
LEMMA ReadHeadMoves ==
    ASSUME ConnInv, ReadHead, NEW got \in 1 .. ReadMax, received + got <= sent
    PROVE  /\ TypeOK /\ script \in [Request -> Kind] /\ request = 0
           /\ sent \in Nat /\ got \in Nat \ {0}
           /\ received \in 0 .. sent /\ consumed \in 0 .. received
           /\ received + got \in 0 .. sent
           /\ UNCHANGED <<client, script, sent, heads, answered, stored, online>>
           /\ \A i : Length(i)' = Length(i) /\ Method(i)' = Method(i)
           /\ \A i : HeadEnd(i)' = HeadEnd(i) /\ BodyEnd(i)' = BodyEnd(i)
           /\ \A i \in Request : heads[i] > 0 => i \in answered
<1>1. pc = "reading" /\ UNCHANGED <<client, script, sent, heads, answered, stored, online>>
  BY DEF ReadHead
<1>2. TypeOK /\ request = 0 /\ \A i \in Request : heads[i] > 0 => i \in answered \cup {request}
  BY <1>1 DEF ConnInv, OrderInv, HeadsInv
<1>3. script \in [Request -> Kind] /\ received \in 0 .. sent /\ consumed \in 0 .. received
  BY <1>2 DEF TypeOK
<1>4. sent \in Nat
  BY <1>2, <1>3, Positions DEF TypeOK
<1>5. got \in Nat \ {0}
  BY ConnectionAssumption
<1>6. received + got \in 0 .. sent
  BY <1>3, <1>4, <1>5
<1>7. \A i \in Request : heads[i] > 0 => i \in answered
  BY <1>2, Positions, <1>3
<1> QED  BY <1>1, <1>2, <1>3, <1>4, <1>5, <1>6, <1>7, Fixed

(* Why a client that waits is cut off: with nothing left over, the head of *)
(* its next request lies at the front, all of it unless the read tore it.  *)
LEMMA CutOffIsForCause ==
    ASSUME ConnInv, ReadHead, client = "waits", NEW got \in 1 .. ReadMax,
           received + got <= sent,
           ~ \E i \in Request : Begin[i] < received + got /\ received + got < HeadEnd(i),
           \A i \in answered : Length(i) = 0,
           \A i \in BlankLines(consumed, InView(got)) :
              (\A j \in BlankLines(consumed, InView(got)) : i <= j) => ~Recognized(i)
    PROVE  \E i \in Request : i \notin answered /\ sent = BodyEnd(i) /\ Method(i) = "unknown"
<1>1. /\ script \in [Request -> Kind] /\ sent \in Nat /\ got \in Nat \ {0}
      /\ received \in 0 .. sent /\ received + got \in 0 .. sent /\ pc = "reading"
      /\ answered \subseteq Request
  BY ReadHeadMoves DEF ReadHead, TypeOK
<1>2. PICK k \in 0 .. Requests : answered = 1 .. k
  BY DEF ConnInv, OrderInv
<1>3. consumed = HeadsThrough(k) /\ received = BodiesThrough(k) /\ Requests \in Nat
  BY <1>1, <1>2, Positions DEF ConnInv, OrderInv, WaitsInv
<1>4. k # 0 => k \in Request /\ k \in answered
  BY <1>2, <1>3 DEF Request
<1>5. /\ consumed = received
      /\ k # 0 => /\ received = BodyEnd(k) /\ consumed = HeadEnd(k)
                  /\ HeadEnd(k) \in Nat /\ BodyEnd(k) \in Nat
  <2>1. CASE k = 0
    BY <1>3, <2>1 DEF HeadsThrough, BodiesThrough
  <2>2. CASE k # 0
    <3>1. /\ BodyEnd(k) = HeadEnd(k) + Length(k) /\ Length(k) = 0
          /\ HeadEnd(k) \in Nat /\ BodyEnd(k) \in Nat
      BY <1>1, <1>4, <2>2, Positions
    <3> QED  BY <1>3, <2>2, <3>1 DEF HeadsThrough, BodiesThrough
  <2> QED  BY <2>1, <2>2
<1>6. PICK i \in Request : sent = BodyEnd(i) /\ 1 .. i - 1 \subseteq answered
  BY <1>1 DEF ConnInv, WaitsInv
<1>7. /\ i \in Nat \ {0} /\ Begin[i] \in Nat /\ HeadEnd(i) \in Nat /\ BodyEnd(i) \in Nat
      /\ Begin[i] < HeadEnd(i) /\ HeadEnd(i) <= BodyEnd(i)
      /\ Begin[1] = 0 /\ 1 \in Request
      /\ i # 1 => Begin[i] = BodyEnd(i - 1)
  BY <1>1, Positions
<1>8. i = k + 1
  <2>1. ~(i <= k)
    <3> SUFFICES ASSUME i <= k PROVE FALSE
      OBVIOUS
    <3>1. k \in Request /\ received = BodyEnd(k) /\ BodyEnd(k) \in Nat
      BY <1>4, <1>5, <1>7
    <3>2. BodyEnd(i) <= BodyEnd(k)
      <4>1. i < k => BodyEnd(i) < HeadEnd(k)
        BY <1>1, <3>1, InSequence
      <4>2. HeadEnd(k) <= BodyEnd(k) /\ HeadEnd(k) \in Nat
        BY <1>1, <3>1, Positions
      <4> QED  BY <1>7, <3>1, <4>1, <4>2
    <3> QED  BY <1>1, <1>6, <3>1, <3>2
  <2>2. ~(k + 1 < i)
    <3> SUFFICES ASSUME k + 1 < i PROVE FALSE
      OBVIOUS
    <3>1. k + 1 \in 1 .. i - 1
      BY <1>2, <1>7
    <3> QED  BY <1>2, <1>6, <3>1
  <2> QED  BY <1>2, <1>7, <2>1, <2>2
<1>9. Begin[i] = consumed
  <2>1. CASE k = 0
    BY <1>3, <1>7, <1>8, <2>1 DEF HeadsThrough
  <2>2. CASE k # 0
    <3>1. i # 1 /\ i - 1 = k
      BY <1>2, <1>8, <2>2
    <3> QED  BY <1>5, <1>7, <2>2, <3>1
  <2> QED  BY <2>1, <2>2
<1>10. HeadEnd(i) <= received + got /\ consumed < HeadEnd(i)
  BY <1>1, <1>5, <1>7, <1>9
<1>11. i \in BlankLines(consumed, InView(got))
  BY <1>5, <1>10 DEF BlankLines, InView
<1>12. ASSUME NEW j \in BlankLines(consumed, InView(got)) PROVE i <= j
  <2>1. j \in Request /\ consumed < HeadEnd(j)
    BY DEF BlankLines
  <2>2. j \in Nat \ {0} /\ HeadEnd(j) \in Nat
    BY <1>1, <2>1, Positions
  <2> SUFFICES ASSUME j <= k PROVE FALSE
    BY <1>2, <1>8, <2>2
  <2>3. k \in Request /\ consumed = HeadEnd(k) /\ HeadEnd(k) \in Nat
    BY <1>4, <1>5, <2>2
  <2>4. j < k => HeadEnd(j) < HeadEnd(k)
    BY <1>1, <2>1, <2>3, InSequence
  <2> QED  BY <1>2, <2>1, <2>2, <2>3, <2>4
<1>13. Method(i) = "unknown"
  BY <1>9, <1>11, <1>12 DEF Recognized
<1>14. i \notin answered
  BY <1>2, <1>8
<1> QED  BY <1>6, <1>13, <1>14

(* No request is recognized: handle_request returns.                       *)
LEMMA MalformedKeepsInv ==
    ASSUME ConnInv, ReadHead, NEW got \in 1 .. ReadMax, received + got <= sent,
           received' = received + got,
           torn' = (torn \/ \E i \in Request :
                               Begin[i] < received + got /\ received + got < HeadEnd(i)),
           pc' = "malformed", UNCHANGED <<request, body>>,
           \/ consumed' = consumed
           \/ \E i \in BlankLines(consumed, InView(got)) : consumed' = HeadEnd(i),
           \A i \in BlankLines(consumed, InView(got)) :
              (\A j \in BlankLines(consumed, InView(got)) : i <= j) => ~Recognized(i)
    PROVE  ConnInv'
<1>1. /\ TypeOK /\ script \in [Request -> Kind] /\ request = 0
      /\ sent \in Nat /\ got \in Nat \ {0}
      /\ received \in 0 .. sent /\ consumed \in 0 .. received
      /\ received + got \in 0 .. sent
      /\ UNCHANGED <<client, script, sent, heads, answered, stored, online>>
  BY ReadHeadMoves
<1>2. /\ \A i : Length(i)' = Length(i) /\ Method(i)' = Method(i)
      /\ \A i : HeadEnd(i)' = HeadEnd(i) /\ BodyEnd(i)' = BodyEnd(i)
  BY ReadHeadMoves
<1>3. consumed' \in 0 .. received' /\ 1 .. received \subseteq 1 .. received'
  <2>1. \A i \in BlankLines(consumed, InView(got)) :
           HeadEnd(i) \in Nat /\ HeadEnd(i) <= consumed + got
    BY <1>1, Positions DEF BlankLines, InView
  <2> QED  BY <1>1, <2>1
<1>4. TypeOK'
  <2>1. stored' \in [Request -> SUBSET (1 .. received')] /\ body' \subseteq 1 .. received'
    BY <1>1, <1>3 DEF TypeOK
  <2>2. torn' \in BOOLEAN /\ pc' \in PC /\ received' \in 0 .. sent'
    BY <1>1 DEF PC, Ended, TypeOK
  <2> QED  BY <1>1, <1>2, <1>3, <2>1, <2>2 DEF TypeOK
<1>5. OrderInv' /\ HeadsInv' /\ StoredInv'
  <2>1. OrderInv'
    BY <1>1, <1>2 DEF ConnInv, OrderInv, InHand
  <2>2. HeadsInv'
    BY <1>1, <1>2 DEF ConnInv, HeadsInv
  <2>3. StoredInv'
    BY <1>1, <1>2 DEF ConnInv, StoredInv
  <2> QED  BY <2>1, <2>2, <2>3
<1>6. WaitsInv' /\ FirstInv' /\ BodyInv'
  BY <1>1, <1>2 DEF ConnInv, WaitsInv, FirstInv, BodyInv
<1>7. CutOffForCause'
  <2> SUFFICES ASSUME client = "waits", ~torn', ~ \E i \in answered : Length(i) > 0
               PROVE  \E i \in Request :
                         i \notin answered /\ sent = BodyEnd(i) /\ Method(i) = "unknown"
    BY <1>1, <1>2 DEF CutOffForCause
  <2>1. \A i \in answered : Length(i) = 0
    <3>1. \A i \in answered : Length(i) \in Nat
      BY <1>1, Positions DEF TypeOK
    <3> QED  BY <3>1
  <2>2. ~ \E i \in Request : Begin[i] < received + got /\ received + got < HeadEnd(i)
    OBVIOUS
  <2> QED  BY <2>1, <2>2, CutOffIsForCause
<1> QED  BY <1>4, <1>5, <1>6, <1>7 DEF ConnInv

(* A request is recognized: its head is consumed, its body is begun.       *)
LEMMA HeadParsedKeepsInv ==
    ASSUME ConnInv, ReadHead, NEW got \in 1 .. ReadMax, received + got <= sent,
           received' = received + got, torn' \in BOOLEAN,
           NEW i \in BlankLines(consumed, InView(got)), Recognized(i),
           HeadParsed(i, InView(got))
    PROVE  ConnInv'
<1> DEFINE view == consumed + got
<1>1. /\ TypeOK /\ script \in [Request -> Kind] /\ request = 0
      /\ sent \in Nat /\ got \in Nat \ {0}
      /\ received \in 0 .. sent /\ consumed \in 0 .. received
      /\ received + got \in 0 .. sent
      /\ UNCHANGED <<client, script, sent, heads, answered, stored, online>>
  BY ReadHeadMoves
<1>2. /\ \A j : Length(j)' = Length(j) /\ Method(j)' = Method(j)
      /\ \A j : HeadEnd(j)' = HeadEnd(j) /\ BodyEnd(j)' = BodyEnd(j)
      /\ \A j \in Request : heads[j] > 0 => j \in answered
  BY ReadHeadMoves
<1>3. i \in Request /\ HeadEnd(i) <= view /\ Begin[i] = consumed /\ pc = "reading"
  BY DEF BlankLines, InView, Recognized, ReadHead
<1>4. /\ i \in Nat \ {0} /\ i <= Requests /\ Requests \in Nat
      /\ Begin[i] \in Nat /\ HeadEnd(i) \in Nat /\ BodyEnd(i) \in Nat /\ Length(i) \in Nat
      /\ Begin[i] < HeadEnd(i) /\ HeadEnd(i) <= BodyEnd(i)
      /\ BodyEnd(i) = HeadEnd(i) + Length(i)
  BY <1>1, <1>3, Positions
<1>5. answered = 1 .. i - 1 /\ (client = "waits" \/ i = 1 => received = consumed)
  BY <1>3, NextInLine
<1>6. /\ request' = i /\ consumed' = HeadEnd(i)
      /\ \/ pc' = "thrown" /\ body' = body
         \/ /\ body' = IF Length(i) > 0 THEN HeadEnd(i) + 1 .. view ELSE {}
            /\ pc' = IF BodyComplete(i, body') THEN "handling" ELSE "body"
  BY DEF HeadParsed, Consume, InView
<1>7. view \in Nat /\ view <= received'
  BY <1>1
<1>8. TypeOK'
  <2>1. 1 .. received \subseteq 1 .. received' /\ 1 .. view \subseteq 1 .. received'
    BY <1>1, <1>7
  <2>2. body' \subseteq 1 .. received'
    <3>1. HeadEnd(i) + 1 .. view \subseteq 1 .. view
      BY <1>4, <1>7
    <3> QED  BY <1>1, <1>6, <2>1, <3>1 DEF TypeOK
  <2>3. stored' \in [Request -> SUBSET (1 .. received')]
    BY <1>1, <2>1 DEF TypeOK
  <2>4. consumed' \in 0 .. received' /\ received' \in 0 .. sent'
    BY <1>1, <1>3, <1>4, <1>6, <1>7
  <2>5. pc' \in PC
    BY <1>6 DEF PC, Ended
  <2> QED  BY <1>1, <1>2, <1>3, <1>6, <2>2, <2>3, <2>4, <2>5 DEF TypeOK
<1>9. OrderInv'
  <2>1. \E k \in 0 .. Requests : answered = 1 .. k
    BY DEF ConnInv, OrderInv
  <2>2. pc' \in {"thrown", "body", "handling"} /\ i # 0
    BY <1>4, <1>6
  <2> QED  BY <1>1, <1>2, <1>5, <1>6, <2>1, <2>2 DEF OrderInv, InHand
<1>10. HeadsInv'
  <2>1. heads[i] = 0
    <3>1. heads[i] \in 0 .. 2 /\ i \notin answered
      BY <1>1, <1>3, <1>4, <1>5 DEF TypeOK
    <3> QED  BY <1>2, <1>3, <3>1
  <2>2. pc' \in {"thrown", "body", "handling"}
    BY <1>6
  <2> QED  BY <1>1, <1>2, <1>6, <2>1, <2>2 DEF ConnInv, HeadsInv
<1>11. ASSUME client = "waits" \/ i = 1, pc' # "thrown"
       PROVE  /\ body' = HeadEnd(i) + 1 .. received' \/ (Length(i) = 0 /\ body' = {})
              /\ pc' = "handling" <=> received' >= BodyEnd(i)
              /\ pc' \in {"handling", "body"}
              /\ HeadEnd(i) <= received' /\ received' \in Nat
  <2>1. received' = view
    BY <1>1, <1>5, <1>11
  <2>2. pc' = IF BodyComplete(i, body') THEN "handling" ELSE "body"
    BY <1>6, <1>11
  <2>3. CASE Length(i) > 0
    <3>1. body' = HeadEnd(i) + 1 .. view
      BY <1>6, <1>11, <2>3
    <3>2. Cardinality(body') = view - HeadEnd(i)
      BY <1>3, <1>4, <1>7, <3>1, IntervalSize
    <3>3. BodyComplete(i, body') <=> view >= BodyEnd(i)
      BY <1>4, <1>7, <3>2 DEF BodyComplete
    <3> QED  BY <1>3, <1>7, <2>1, <2>2, <3>1, <3>3
  <2>4. CASE Length(i) = 0
    <3>1. body' = {}
      BY <1>6, <1>11, <2>4
    <3>2. BodyComplete(i, body')
      BY <2>4, <3>1, FS_EmptySet DEF BodyComplete
    <3> QED  BY <1>3, <1>4, <1>7, <2>1, <2>2, <2>4, <3>1, <3>2
  <2> QED  BY <1>4, <2>3, <2>4
<1>12. WaitsInv'
  <2> SUFFICES ASSUME client = "waits" PROVE WaitsInv'
    BY <1>1 DEF WaitsInv
  <2>1. sent = BodyEnd(i)
    <3>1. sent > Begin[i]
      BY <1>1, <1>3, <1>5
    <3> QED  BY <1>3, <1>5, <3>1, SentForOne
  <2>2. pc' = "handling" => received' = BodyEnd(i)
    BY <1>1, <1>4, <1>11, <2>1
  <2>3. pc' \in {"thrown", "body", "handling"}
    BY <1>6
  <2>4. sent' = BodyEnd(i)' /\ 1 .. i - 1 \subseteq answered'
    BY <1>1, <1>2, <1>5, <2>1
  <2> QED  BY <1>2, <1>3, <1>6, <2>2, <2>3, <2>4 DEF WaitsInv
<1>13. BodyInv'
  <2> SUFFICES ASSUME client = "waits" \/ i = 1, pc' # "thrown" PROVE BodyInv'
    BY <1>1, <1>6 DEF BodyInv
  <2>1. ASSUME pc' = "body"
        PROVE  /\ body' = HeadEnd(i) + 1 .. received'
               /\ HeadEnd(i) <= received' /\ received' < BodyEnd(i)
    BY <1>4, <1>11, <2>1
  <2>2. ASSUME pc' = "handling"
        PROVE  \E e \in Nat : e >= BodyEnd(i) /\ body' = HeadEnd(i) + 1 .. e
    <3>1. CASE body' = HeadEnd(i) + 1 .. received'
      BY <1>11, <2>2, <3>1
    <3>2. CASE Length(i) = 0 /\ body' = {}
      <4>1. BodyEnd(i) >= BodyEnd(i) /\ HeadEnd(i) + 1 .. BodyEnd(i) = {}
        BY <1>4, <3>2
      <4> QED  BY <1>4, <3>2, <4>1
    <3> QED  BY <1>11, <3>1, <3>2
  <2> QED  BY <1>2, <1>6, <2>1, <2>2 DEF BodyInv
<1>14. FirstInv' /\ CutOffForCause'
  BY <1>6 DEF FirstInv, CutOffForCause
<1>15. StoredInv'
  BY <1>1, <1>2, <1>6 DEF ConnInv, StoredInv
<1> QED  BY <1>8, <1>9, <1>10, <1>12, <1>13, <1>14, <1>15 DEF ConnInv

LEMMA ReadHeadKeepsInv ==
    ASSUME ConnInv, ReadHead PROVE ConnInv'
<1>1. PICK got \in 1 .. ReadMax :
         /\ received + got <= sent
         /\ received' = received + got
         /\ torn' = (torn \/ \E i \in Request :
                                Begin[i] < received + got /\ received + got < HeadEnd(i))
         /\ LET found == BlankLines(consumed, InView(got)) IN
            \/ /\ found = {}
               /\ Unrecognized /\ UNCHANGED <<request, consumed, body>>
            \/ \E i \in found :
                  /\ \A j \in found : i <= j
                  /\ IF Recognized(i)
                       THEN HeadParsed(i, InView(got))
                       ELSE /\ Unrecognized /\ consumed' = Consume(i)
                            /\ UNCHANGED <<request, body>>
  BY DEF ReadHead
<1> DEFINE found == BlankLines(consumed, InView(got))
<1>2. torn' \in BOOLEAN
  BY <1>1 DEF ConnInv, TypeOK
<1>3. CASE /\ found = {}
           /\ Unrecognized /\ UNCHANGED <<request, consumed, body>>
  BY <1>1, <1>3, MalformedKeepsInv DEF Unrecognized
<1>4. ASSUME NEW i \in found, \A j \in found : i <= j, Recognized(i), HeadParsed(i, InView(got))
      PROVE  ConnInv'
  BY <1>1, <1>2, <1>4, HeadParsedKeepsInv
<1>5. ASSUME NEW i \in found, \A j \in found : i <= j, ~Recognized(i),
             Unrecognized, consumed' = Consume(i), UNCHANGED <<request, body>>
      PROVE  ConnInv'
  <2>1. \A j \in found : (\A n \in found : j <= n) => ~Recognized(j)
    <3>1. \A j \in found : j \in Nat
      BY Positions DEF BlankLines, ConnInv, TypeOK
    <3> QED  BY <1>5, <3>1
  <2>2. pc' = "malformed" /\ \E j \in found : consumed' = HeadEnd(j)
    BY <1>5 DEF Unrecognized, Consume
  <2> QED  BY <1>1, <1>5, <2>1, <2>2, MalformedKeepsInv
<1> QED  BY <1>1, <1>3, <1>4, <1>5

-----------------------------------------------------------------------------
(* Theorems.                                                               *)

(* Every connection, whatever is sent over it and however it is split into *)
(* reads, keeps ConnInv.                                                   *)
THEOREM ConnectionInvariant == Spec => []ConnInv
<1>1. ASSUME ConnInv, [Next]_vars PROVE ConnInv'
  BY <1>1, ReadHeadKeepsInv, ReadBodyKeepsInv, HandleKeepsInv, HandleGetKeepsInv,
     ContentWrittenKeepsInv, RespondKeepsInv, ClientSendsKeepsInv, EndsKeepInv
     DEF Next, ServerStep
<1> QED  BY <1>1, InitialConnection, PTL DEF Spec

(* The buffer never holds more than was sent, nothing is consumed that was *)
(* not read, and no head is written more than twice.                       *)
THEOREM Typing == Spec => []TypeOK
<1>1. ConnInv => TypeOK
  BY DEF ConnInv
<1> QED  BY <1>1, ConnectionInvariant, PTL

(* Requests are taken in the order sent, each once (dav_handler.cpp:29-91).*)
THEOREM RequestsInOrder == Spec => []TakenInOrder
<1>1. ASSUME ConnInv PROVE TakenInOrder
  <2>1. PICK k \in 0 .. Requests : answered = 1 .. k
    BY <1>1 DEF ConnInv, OrderInv
  <2>2. Requests \in Nat
    BY ConnectionAssumption
  <2>3. \A i \in answered : 1 .. i \subseteq answered
    BY <2>1, <2>2
  <2> QED  BY <1>1, <2>3 DEF ConnInv, OrderInv, HeadsInv, TakenInOrder
<1> QED  BY <1>1, ConnectionInvariant, PTL

(* A PUT stores its own body, however it is split (http_parser.cpp:56-78). *)
THEOREM StoredAsSent == Spec => []StoredIsSent
<1>1. ASSUME ConnInv PROVE StoredIsSent
  BY <1>1 DEF ConnInv, StoredInv, StoredIsSent
<1> QED  BY <1>1, ConnectionInvariant, PTL

(* A client that waits is cut off only for the causes that CutOffForCause  *)
(* names (http_parser.cpp:26-43, dav_handler.cpp:92-97).                   *)
THEOREM NoCutOffWithoutCause == Spec => []CutOffForCause
<1>1. ConnInv => CutOffForCause
  BY DEF ConnInv
<1> QED  BY <1>1, ConnectionInvariant, PTL

(* What stays in buffer_ between the requests of a client that waits is    *)
(* the body of the last one (http_parser.cpp:32-78).                       *)
THEOREM OnlyBodiesLeftOver == Spec => []LeftoverIsBody
<1>1. ASSUME ConnInv PROVE LeftoverIsBody
  <2> SUFFICES ASSUME client = "waits", pc = "reading"
               PROVE  /\ received \in {0} \cup {BodyEnd(i) : i \in answered}
                      /\ consumed # received =>
                            \E i \in answered : consumed = HeadEnd(i) /\ Length(i) > 0
    BY DEF LeftoverIsBody
  <2>1. script \in [Request -> Kind]
    BY <1>1 DEF ConnInv, TypeOK
  <2>2. PICK k \in 0 .. Requests : answered = 1 .. k
    BY <1>1 DEF ConnInv, OrderInv
  <2>3. consumed = HeadsThrough(k) /\ received = BodiesThrough(k) /\ Requests \in Nat
    BY <1>1, <2>1, <2>2, Positions DEF ConnInv, OrderInv, WaitsInv
  <2>4. CASE k = 0
    BY <2>3, <2>4 DEF HeadsThrough, BodiesThrough
  <2>5. CASE k # 0
    <3>1. k \in Request /\ k \in answered
      BY <2>2, <2>3, <2>5 DEF Request
    <3>2. received = BodyEnd(k) /\ consumed = HeadEnd(k)
      BY <2>3, <2>5 DEF HeadsThrough, BodiesThrough
    <3>3. Length(k) \in Nat /\ HeadEnd(k) \in Nat /\ BodyEnd(k) = HeadEnd(k) + Length(k)
      BY <2>1, <3>1, Positions
    <3>4. consumed # received => Length(k) > 0
      BY <3>2, <3>3
    <3> QED  BY <3>1, <3>2, <3>4
  <2> QED  BY <2>4, <2>5
<1> QED  BY <1>1, ConnectionInvariant, PTL

-----------------------------------------------------------------------------
(* Conversions of names.  Scan is a recursive function of text: its        *)
(* equation is shown first, by induction on the position (ScanEquation),   *)
(* and what is said of decode_url, of a C string and of the code pages     *)
(* follows from it, by induction on the text.                              *)

(* From n down to 0.                                                       *)
LEMMA Downward ==
    ASSUME NEW n \in Nat, NEW T, n \in T, \A i \in 1 .. n : i \in T => i - 1 \in T
    PROVE  \A i \in 0 .. n : i \in T
<1> DEFINE U == {k \in Nat : k <= n => n - k \in T}
<1>1. 0 \in U
  OBVIOUS
<1>2. ASSUME NEW k \in Nat, k \in U PROVE k + 1 \in U
  <2> SUFFICES ASSUME k + 1 <= n PROVE n - (k + 1) \in T
    OBVIOUS
  <2>1. n - k \in T /\ n - k \in 1 .. n
    BY <1>2
  <2> QED  BY <2>1
<1>3. \A k \in Nat : k \in U
  <2> HIDE DEF U
  <2> QED  BY <1>1, <1>2, Induction
<1> TAKE i \in 0 .. n
<1>4. n - i \in U /\ n - (n - i) = i /\ n - i <= n
  BY <1>3
<1> QED  BY <1>4

-----------------------------------------------------------------------------
(* From n down to 1, from all that is above.                               *)
LEMMA DownwardStrong ==
    ASSUME NEW n \in Nat, NEW T, \A i \in 1 .. n : (\A j \in i + 1 .. n : j \in T) => i \in T
    PROVE  \A i \in 1 .. n : i \in T
<1> DEFINE U == {k \in 0 .. n : \A j \in k + 1 .. n : j \in T}
<1>1. n \in U
  OBVIOUS
<1>2. ASSUME NEW k \in 1 .. n, k \in U PROVE k - 1 \in U
  <2>1. \A j \in k + 1 .. n : j \in T
    BY <1>2
  <2>2. k \in T
    BY <2>1
  <2>3. ASSUME NEW j \in (k - 1) + 1 .. n PROVE j \in T
    BY <2>1, <2>2, <2>3
  <2>4. k - 1 \in 0 .. n
    OBVIOUS
  <2> QED  BY <2>3, <2>4
<1>3. \A k \in 0 .. n : k \in U
  <2> HIDE DEF U
  <2> QED  BY <1>1, <1>2, Downward
<1>4. 0 \in U
  <2> HIDE DEF U
  <2> QED  BY <1>3
<1> QED  BY <1>4

-----------------------------------------------------------------------------
(* Scan.                                                                   *)

(* What the rest of a text yields when reading goes on at i, if f is what  *)
(* it yields from the later positions on.                                  *)
ScanStep(piece, next, f, i) == IF i > Len(piece) THEN <<>> ELSE piece[i] \o f[next[i]]

(* The function that Scan defines locally.                                 *)
ScannedFrom(piece, next) ==
    CHOOSE f : f = [i \in 1 .. Len(piece) + 1 |-> ScanStep(piece, next, f, i)]

(* Reading never goes back or stands still.                                *)
Advances(piece, next) ==
    \A i \in 1 .. Len(piece) : next[i] \in i + 1 .. Len(piece) + 1

(* Scan is the value at 1 of the function it defines.                      *)
LEMMA ScanIs == \A piece, next : Scan(piece, next) = ScannedFrom(piece, next)[1]
  BY DEF Scan, ScannedFrom, ScanStep

(* What a step of the scan yields is text, if what follows is.             *)
LEMMA ScanStepTypes ==
    ASSUME NEW S, NEW piece \in Seq(Seq(S)), NEW next, Advances(piece, next),
           NEW i \in 1 .. Len(piece) + 1, NEW g,
           \A j \in i + 1 .. Len(piece) + 1 : g[j] \in Seq(S)
    PROVE  ScanStep(piece, next, g, i) \in Seq(S)
<1>1. Len(piece) \in Nat
  OBVIOUS
<1>2. CASE i > Len(piece)
  BY <1>2 DEF ScanStep
<1>3. CASE i <= Len(piece)
  <2>1. piece[i] \in Seq(S) /\ g[next[i]] \in Seq(S)
    BY <1>1, <1>3 DEF Advances
  <2>2. piece[i] \o g[next[i]] \in Seq(S)
    BY <2>1, ConcatProperties
  <2> QED  BY <1>3, <2>2 DEF ScanStep
<1> QED  BY <1>1, <1>2, <1>3

(* A step of the scan depends only on what is read later.                  *)
LEMMA ScanStepLocal ==
    ASSUME NEW S, NEW piece \in Seq(Seq(S)), NEW next, Advances(piece, next),
           NEW i \in 1 .. Len(piece) + 1, NEW g, NEW h,
           \A j \in i + 1 .. Len(piece) + 1 : g[j] = h[j]
    PROVE  ScanStep(piece, next, g, i) = ScanStep(piece, next, h, i)
<1>1. Len(piece) \in Nat
  OBVIOUS
<1>2. CASE i > Len(piece)
  BY <1>2 DEF ScanStep
<1>3. CASE i <= Len(piece)
  <2>1. g[next[i]] = h[next[i]]
    BY <1>1, <1>3 DEF Advances
  <2> QED  BY <1>3, <2>1 DEF ScanStep
<1> QED  BY <1>1, <1>2, <1>3

(* Scan's recursion is well-defined wherever reading advances.             *)
LEMMA ScanEquation ==
    ASSUME NEW S, NEW piece \in Seq(Seq(S)), NEW next, Advances(piece, next)
    PROVE  /\ ScannedFrom(piece, next) \in [1 .. Len(piece) + 1 -> Seq(S)]
           /\ \A i \in 1 .. Len(piece) + 1 :
                 ScannedFrom(piece, next)[i]
                   = ScanStep(piece, next, ScannedFrom(piece, next), i)
<1> DEFINE n == Len(piece)
           Solves(g, k) == \A i \in 1 .. n + 1 : k < i => g[i] = ScanStep(piece, next, g, i)
           T == {k \in 0 .. n + 1 : \E g \in [1 .. n + 1 -> Seq(S)] : Solves(g, k)}
           f == ScannedFrom(piece, next)
           U == {k \in 1 .. n + 1 : f[k] \in Seq(S)}
<1>1. n \in Nat
  OBVIOUS
<1>2. n + 1 \in T
  <2> DEFINE g == [i \in 1 .. n + 1 |-> <<>>]
  <2>1. g \in [1 .. n + 1 -> Seq(S)]
    OBVIOUS
  <2>2. Solves(g, n + 1)
    BY <1>1
  <2> HIDE DEF Solves, g
  <2> QED  BY <1>1, <2>1, <2>2
<1>3. ASSUME NEW k \in 1 .. n + 1, k \in T PROVE k - 1 \in T
  <2>1. PICK g \in [1 .. n + 1 -> Seq(S)] : Solves(g, k)
    BY <1>3
  <2> DEFINE h == [g EXCEPT ![k] = ScanStep(piece, next, g, k)]
  <2>2. ScanStep(piece, next, g, k) \in Seq(S)
    <3>1. \A j \in k + 1 .. n + 1 : g[j] \in Seq(S)
      BY <1>1
    <3> QED  BY <3>1, ScanStepTypes
  <2>3. h \in [1 .. n + 1 -> Seq(S)]
    BY <2>2
  <2>4. ASSUME NEW i \in 1 .. n + 1, k - 1 < i PROVE h[i] = ScanStep(piece, next, h, i)
    <3>1. ScanStep(piece, next, g, i) = ScanStep(piece, next, h, i)
      <4>1. \A j \in i + 1 .. n + 1 : g[j] = h[j]
        BY <1>1, <2>4
      <4> HIDE DEF h
      <4> QED  BY <4>1, ScanStepLocal
    <3>2. CASE i = k
      <4>1. h[k] = ScanStep(piece, next, g, k)
        OBVIOUS
      <4> QED  BY <3>1, <3>2, <4>1
    <3>3. CASE k < i
      <4>1. h[i] = g[i] /\ g[i] = ScanStep(piece, next, g, i)
        BY <2>1, <3>3
      <4> QED  BY <3>1, <4>1
    <3> QED  BY <1>1, <2>4, <3>2, <3>3
  <2>5. k - 1 \in 0 .. n + 1
    BY <1>1
  <2> HIDE DEF h
  <2> QED  BY <2>3, <2>4, <2>5
<1>4. 0 \in T
  <2> HIDE DEF T
  <2>1. n + 1 \in Nat
    BY <1>1
  <2>2. \A i \in 0 .. n + 1 : i \in T
    BY <1>2, <1>3, <2>1, Downward
  <2> QED  BY <1>1, <2>2
<1>5. f = [i \in 1 .. n + 1 |-> ScanStep(piece, next, f, i)]
  <2>1. PICK g \in [1 .. n + 1 -> Seq(S)] : Solves(g, 0)
    BY <1>4
  <2>2. \A i \in 1 .. n + 1 : g[i] = ScanStep(piece, next, g, i)
    BY <1>1, <2>1
  <2>3. g = [i \in 1 .. n + 1 |-> ScanStep(piece, next, g, i)]
    BY <2>2
  <2> QED  BY <2>3 DEF ScannedFrom
<1>6. \A i \in 1 .. n + 1 : f[i] = ScanStep(piece, next, f, i)
  <2> HIDE DEF f
  <2> QED  BY <1>5
<1>7. ASSUME NEW i \in 1 .. n + 1, \A j \in i + 1 .. n + 1 : j \in U PROVE i \in U
  <2> HIDE DEF f
  <2>1. ScanStep(piece, next, f, i) \in Seq(S)
    BY <1>7, ScanStepTypes
  <2> QED  BY <1>6, <2>1
<1>8. \A i \in 1 .. n + 1 : i \in U
  <2> HIDE DEF U
  <2>1. n + 1 \in Nat
    BY <1>1
  <2> QED  BY <1>7, <2>1, DownwardStrong
<1>9. \A i \in 1 .. n + 1 : f[i] \in Seq(S)
  BY <1>8
<1> HIDE DEF f
<1> QED  BY <1>5, <1>6, <1>9 DEF f

(* A text without its first m members.                                     *)
Drop(s, m) == SubSeq(s, m + 1, Len(s))

(* Drop on sequences: its type, length and members.                        *)
LEMMA DropProperties ==
    ASSUME NEW S, NEW s \in Seq(S), NEW m \in 0 .. Len(s)
    PROVE  /\ Drop(s, m) \in Seq(S)
           /\ Len(Drop(s, m)) = Len(s) - m
           /\ \A i \in 1 .. Len(s) - m : Drop(s, m)[i] = s[i + m]
  BY DEF Drop

(* piece2 and next2 say the same of a text without its first m members.    *)
Continues(piece, next, m, piece2, next2) ==
    /\ Len(piece2) = Len(piece) - m
    /\ \A i \in 1 .. Len(piece2) : piece2[i] = piece[i + m] /\ next2[i] = next[i + m] - m

(* A position in a text and in what is left of it.                         *)
LEMMA ShiftBack ==
    ASSUME NEW L \in Nat, NEW m \in Nat, NEW i \in Nat, NEW x \in i + m + 1 .. L + 1
    PROVE  x - m \in i + 1 .. (L - m) + 1 /\ (x - m) + m = x
  OBVIOUS

(* Scanning puts out its first piece, and goes on with what is left.       *)
LEMMA ScanUnfolds ==
    ASSUME NEW S, NEW piece \in Seq(Seq(S)), NEW next, Advances(piece, next),
           NEW piece2 \in Seq(Seq(S)), NEW next2, NEW m \in Nat,
           piece # <<>>, next[1] = m + 1,
           Continues(piece, next, m, piece2, next2)
    PROVE  /\ Scan(piece, next) = piece[1] \o Scan(piece2, next2)
           /\ Scan(piece2, next2) \in Seq(S)
<1> DEFINE n == Len(piece2)
           f == ScannedFrom(piece, next)
           g == ScannedFrom(piece2, next2)
           T == {i \in 1 .. n + 1 : g[i] = f[i + m]}
<1>1. /\ Len(piece) \in Nat /\ 1 <= Len(piece) /\ m \in 1 .. Len(piece) /\ n \in Nat
      /\ n = Len(piece) - m
  BY DEF Advances, Continues
<1>n. /\ Len(piece2) = n
      /\ \A i \in 1 .. n : piece2[i] = piece[i + m] /\ next2[i] = next[i + m] - m
  BY DEF Continues
<1>2. Advances(piece2, next2)
  <2> HIDE DEF n
  <2> SUFFICES ASSUME NEW i \in 1 .. n PROVE next2[i] \in i + 1 .. n + 1
    BY <1>n DEF Advances
  <2>1. i + m \in 1 .. Len(piece)
    BY <1>1
  <2>2. next[i + m] \in i + m + 1 .. Len(piece) + 1
    BY <2>1 DEF Advances
  <2>3. next2[i] = next[i + m] - m
    BY <1>n
  <2>4. next[i + m] - m \in i + 1 .. (Len(piece) - m) + 1
    <3>1. Len(piece) \in Nat
      BY <1>1
    <3>2. i \in Nat
      BY <1>1
    <3> QED  BY <2>2, <3>1, <3>2, ShiftBack
  <2> QED  BY <1>1, <2>3, <2>4
<1>3. /\ f \in [1 .. Len(piece) + 1 -> Seq(S)]
      /\ \A i \in 1 .. Len(piece) + 1 : f[i] = ScanStep(piece, next, f, i)
  BY ScanEquation
<1>4. /\ g \in [1 .. n + 1 -> Seq(S)]
      /\ \A i \in 1 .. n + 1 : g[i] = ScanStep(piece2, next2, g, i)
  BY <1>2, ScanEquation
<1> HIDE DEF f, g, n
<1>5. ASSUME NEW i \in 1 .. n + 1, \A j \in i + 1 .. n + 1 : j \in T PROVE i \in T
  <2>1. i + m \in 1 .. Len(piece) + 1
    BY <1>1
  <2>2. f[i + m] = ScanStep(piece, next, f, i + m) /\ g[i] = ScanStep(piece2, next2, g, i)
    BY <1>3, <1>4, <2>1
  <2>3. CASE i = n + 1
    <3>1. i > Len(piece2) /\ i + m > Len(piece)
      BY <1>1, <1>n, <2>3
    <3> QED  BY <2>2, <3>1 DEF ScanStep
  <2>4. CASE i \in 1 .. n
    <3>1. next2[i] \in i + 1 .. n + 1 /\ next2[i] = next[i + m] - m
      <4> HIDE DEF n
      <4> QED  BY <1>2, <1>n, <2>4 DEF Advances
    <3>2. g[next2[i]] = f[next2[i] + m]
      BY <1>5, <3>1
    <3>3. i + m \in 1 .. Len(piece)
      BY <1>1, <2>4
    <3>4. next[i + m] \in i + m + 1 .. Len(piece) + 1
      BY <3>3 DEF Advances
    <3>5. next2[i] + m = next[i + m]
      BY <1>1, <3>1, <3>4, ShiftBack
    <3>6. piece2[i] = piece[i + m] /\ ~(i > Len(piece2)) /\ ~(i + m > Len(piece))
      <4>1. ~(i + m > Len(piece))
        BY <1>1, <3>3
      <4>2. ~(i > Len(piece2))
        BY <1>1, <1>n, <2>4
      <4> QED  BY <1>n, <2>4, <4>1, <4>2
    <3>7. g[i] = piece2[i] \o g[next2[i]] /\ f[i + m] = piece[i + m] \o f[next[i + m]]
      BY <2>2, <3>6 DEF ScanStep
    <3> QED  BY <3>2, <3>5, <3>6, <3>7
  <2>5. i = n + 1 \/ i \in 1 .. n
    BY <1>1
  <2> HIDE DEF T
  <2> QED  BY <2>3, <2>4, <2>5
<1>6. 1 \in T
  <2> HIDE DEF T
  <2>1. n + 1 \in Nat /\ 1 \in 1 .. n + 1
    BY <1>1
  <2> QED  BY <1>5, <2>1, DownwardStrong
<1>7. g[1] = f[1 + m] /\ g[1] \in Seq(S)
  BY <1>1, <1>4, <1>6
<1>8. f[1] = piece[1] \o f[next[1]] /\ next[1] = 1 + m
  <2>1. f[1] = ScanStep(piece, next, f, 1) /\ ~(1 > Len(piece))
    BY <1>1, <1>3
  <2>2. next[1] = 1 + m
    BY <1>1 DEF Advances
  <2> QED  BY <2>1, <2>2 DEF ScanStep
<1> QED  BY <1>7, <1>8, ScanIs DEF f, g

(* Nothing is put out for an empty text.                                   *)
LEMMA ScanOfNothing ==
    ASSUME NEW S, NEW piece \in Seq(Seq(S)), NEW next, Len(piece) = 0
    PROVE  Scan(piece, next) = <<>>
<1> DEFINE f == ScannedFrom(piece, next)
<1>1. Advances(piece, next) /\ 1 \in 1 .. Len(piece) + 1
  BY DEF Advances
<1>2. /\ f \in [1 .. Len(piece) + 1 -> Seq(S)]
      /\ \A i \in 1 .. Len(piece) + 1 : f[i] = ScanStep(piece, next, f, i)
  BY <1>1, ScanEquation
<1>3. f[1] = ScanStep(piece, next, f, 1)
  <2> HIDE DEF f
  <2> QED  BY <1>1, <1>2
<1> QED  BY <1>3, ScanIs DEF ScanStep

(* What a scan puts out is a sequence of what its pieces are made of.      *)
LEMMA ScanTypes ==
    ASSUME NEW S, NEW piece \in Seq(Seq(S)), NEW next, Advances(piece, next)
    PROVE  Scan(piece, next) \in Seq(S)
<1>1. 1 \in 1 .. Len(piece) + 1
  OBVIOUS
<1>2. ScannedFrom(piece, next) \in [1 .. Len(piece) + 1 -> Seq(S)]
  BY ScanEquation
<1> QED  BY <1>1, <1>2, ScanIs

(* A function from 1 .. n is a sequence of that length.                    *)
LEMMA FunctionIsSequence ==
    ASSUME NEW R, NEW n \in Nat, NEW p \in [1 .. n -> R]
    PROVE  p \in Seq(R) /\ Len(p) = n
  OBVIOUS

Byte == 0 .. 255

-----------------------------------------------------------------------------
(* decode_url, from its first byte on.                                     *)

(* What the extraction from the stream gives is a byte                     *)
(* (http_parser.cpp:253).                                                  *)
LEMMA HexValueTypes ==
    ASSUME NEW a \in Byte, NEW b \in Byte, NEW v \in HexValue(a, b)
    PROVE  v \in Byte
<1>1. \A d \in HexDigit : d \in Byte /\ Digit(d) \in 0 .. 15
  BY DEF HexDigit, Digit, Byte
<1>2. \A d \in 0 .. 15 : (256 - d) % 256 \in Byte
  BY DEF Byte
<1>3. \A d, e \in 0 .. 15 : 16 * d + e \in Byte /\ d \in Byte
  BY DEF Byte
<1> QED  BY <1>1, <1>2, <1>3 DEF HexValue

(* What decode_url puts out for what it reads at i.                        *)
ByteOf(escape, c) == IF escape = {} THEN c ELSE CHOOSE v \in escape : TRUE
DecodedByte(s, i) == ByteOf(EscapeAt(s, i), s[i])

(* How much it reads there.                                                *)
DecodedLen(s, i) == IF EscapeAt(s, i) = {} THEN 1 ELSE 3

DecodePiece(s) == [i \in DOMAIN s |-> <<DecodedByte(s, i)>>]
DecodeNext(s) == [i \in DOMAIN s |-> IF EscapeAt(s, i) = {} THEN i + 1 ELSE i + 3]

(* decode_url is a scan (http_parser.cpp:246).                             *)
LEMMA DecodeIs == \A s : DecodeUrl(s) = Scan(DecodePiece(s), DecodeNext(s))
  BY DEF DecodeUrl, DecodePiece, DecodeNext, DecodedByte, ByteOf

(* decode_url advances by one byte or three, and stays within the text:    *)
(* HasTwoMore keeps it from reading past the end (http_parser.cpp:250).    *)
LEMMA DecodeScans ==
    ASSUME NEW s \in Seq(Byte)
    PROVE  /\ DecodePiece(s) \in Seq(Seq(Byte)) /\ Len(DecodePiece(s)) = Len(s)
           /\ \A i \in 1 .. Len(s) :
                 /\ DecodedByte(s, i) \in Byte
                 /\ DecodePiece(s)[i] = <<DecodedByte(s, i)>>
                 /\ DecodeNext(s)[i] = i + DecodedLen(s, i)
                 /\ i + DecodedLen(s, i) \in i + 1 .. Len(s) + 1
           /\ Advances(DecodePiece(s), DecodeNext(s))
<1>1. Len(s) \in Nat /\ DOMAIN s = 1 .. Len(s)
  OBVIOUS
<1>2. ASSUME NEW i \in 1 .. Len(s)
      PROVE  /\ DecodedByte(s, i) \in Byte
             /\ i + DecodedLen(s, i) \in i + 1 .. Len(s) + 1
  <2>1. CASE EscapeAt(s, i) = {}
    BY <1>1, <2>1 DEF DecodedByte, ByteOf, DecodedLen
  <2>2. CASE EscapeAt(s, i) # {}
    <3>1. s[i] = Percent /\ HasTwoMore(s, i) /\ EscapeAt(s, i) = HexValue(s[i + 1], s[i + 2])
      BY <2>2 DEF EscapeAt
    <3>2. i + 1 \in 1 .. Len(s) /\ i + 2 \in 1 .. Len(s)
      BY <1>1, <3>1 DEF HasTwoMore
    <3>3. s[i + 1] \in Byte /\ s[i + 2] \in Byte
      BY <3>2
    <3>4. DecodedByte(s, i) \in HexValue(s[i + 1], s[i + 2])
      BY <2>2, <3>1 DEF DecodedByte, ByteOf
    <3>5. DecodedByte(s, i) \in Byte
      BY <3>3, <3>4, HexValueTypes
    <3>6. DecodedLen(s, i) = 3
      BY <2>2 DEF DecodedLen
    <3> QED  BY <1>1, <3>2, <3>5, <3>6
  <2> QED  BY <2>1, <2>2
<1>3. DecodePiece(s) \in Seq(Seq(Byte)) /\ Len(DecodePiece(s)) = Len(s)
  <2>1. \A i \in 1 .. Len(s) : DecodePiece(s)[i] \in Seq(Byte)
    BY <1>1, <1>2 DEF DecodePiece
  <2>2. DecodePiece(s) \in [1 .. Len(s) -> Seq(Byte)]
    BY <1>1, <2>1 DEF DecodePiece
  <2> QED  BY <1>1, <2>2, FunctionIsSequence
<1>4. \A i \in 1 .. Len(s) : /\ DecodePiece(s)[i] = <<DecodedByte(s, i)>>
                             /\ DecodeNext(s)[i] = i + DecodedLen(s, i)
  BY <1>1 DEF DecodePiece, DecodeNext, DecodedLen
<1>5. Advances(DecodePiece(s), DecodeNext(s))
  BY <1>2, <1>3, <1>4 DEF Advances
<1> QED  BY <1>2, <1>3, <1>4, <1>5

(* decode_url gives text.                                                  *)
LEMMA DecodeTypes ==
    ASSUME NEW s \in Seq(Byte) PROVE DecodeUrl(s) \in Seq(Byte)
  BY DecodeIs, DecodeScans, ScanTypes

(* decode_url of the empty text.                                           *)
LEMMA DecodeOfNothing == DecodeUrl(<<>>) = <<>>
<1> DEFINE s == <<>>
<1>1. s \in Seq(Byte) /\ Len(s) = 0
  OBVIOUS
<1> HIDE DEF s
<1>2. DecodePiece(s) \in Seq(Seq(Byte)) /\ Len(DecodePiece(s)) = 0
  BY <1>1, DecodeScans
<1>3. DecodeUrl(s) = <<>>
  BY <1>2, DecodeIs, ScanOfNothing
<1> QED  BY <1>3 DEF s

(* decode_url puts out its first byte, and then what it makes of the rest. *)
LEMMA DecodeUnfolds ==
    ASSUME NEW s \in Seq(Byte), Len(s) # 0
    PROVE  /\ DecodedLen(s, 1) \in 1 .. Len(s) /\ DecodedByte(s, 1) \in Byte
           /\ Drop(s, DecodedLen(s, 1)) \in Seq(Byte)
           /\ DecodeUrl(s) = <<DecodedByte(s, 1)>> \o DecodeUrl(Drop(s, DecodedLen(s, 1)))
<1> DEFINE m == DecodedLen(s, 1)
           r == Drop(s, m)
<1>1. Len(s) \in Nat /\ 1 \in 1 .. Len(s) /\ m \in 1 .. Len(s) /\ m \in Nat
      /\ DecodedByte(s, 1) \in Byte
  <2>1. Len(s) \in Nat /\ 1 \in 1 .. Len(s)
    OBVIOUS
  <2>2. 1 + m \in 1 + 1 .. Len(s) + 1 /\ DecodedByte(s, 1) \in Byte
    BY <2>1, DecodeScans
  <2>3. m \in Nat
    BY DEF DecodedLen
  <2> HIDE DEF m
  <2> QED  BY <2>1, <2>2, <2>3
<1> HIDE DEF m
<1>2. r \in Seq(Byte) /\ Len(r) = Len(s) - m /\ \A i \in 1 .. Len(s) - m : r[i] = s[i + m]
  <2>1. m \in 0 .. Len(s)
    BY <1>1
  <2>2. /\ Drop(s, m) \in Seq(Byte)
        /\ Len(Drop(s, m)) = Len(s) - m
        /\ \A i \in 1 .. Len(s) - m : Drop(s, m)[i] = s[i + m]
    BY <2>1, DropProperties
  <2> QED  BY <2>2
<1> HIDE DEF r
<1>3. ASSUME NEW i \in 1 .. Len(r)
      PROVE  EscapeAt(r, i) = EscapeAt(s, i + m)
  <2>1. r[i] = s[i + m] /\ (HasTwoMore(r, i) <=> HasTwoMore(s, i + m))
    BY <1>1, <1>2 DEF HasTwoMore
  <2>2. HasTwoMore(r, i) => r[i + 1] = s[(i + m) + 1] /\ r[i + 2] = s[(i + m) + 2]
    BY <1>1, <1>2 DEF HasTwoMore
  <2> QED  BY <2>1, <2>2 DEF EscapeAt
<1>4. Continues(DecodePiece(s), DecodeNext(s), m, DecodePiece(r), DecodeNext(r))
  <2> SUFFICES ASSUME NEW i \in 1 .. Len(r)
               PROVE  /\ DecodePiece(r)[i] = DecodePiece(s)[i + m]
                      /\ DecodeNext(r)[i] = DecodeNext(s)[i + m] - m
    BY <1>1, <1>2, DecodeScans DEF Continues
  <2>1. i + m \in 1 .. Len(s)
    BY <1>1, <1>2
  <2>2. DecodedByte(r, i) = DecodedByte(s, i + m) /\ DecodedLen(r, i) = DecodedLen(s, i + m)
        /\ DecodedLen(r, i) \in Nat
    BY <1>2, <1>3, <2>1 DEF DecodedByte, DecodedLen
  <2>3. /\ DecodePiece(s)[i + m] = <<DecodedByte(s, i + m)>>
        /\ DecodeNext(s)[i + m] = (i + m) + DecodedLen(s, i + m)
    BY <2>1, DecodeScans
  <2>4. DecodePiece(r)[i] = <<DecodedByte(r, i)>> /\ DecodeNext(r)[i] = i + DecodedLen(r, i)
    BY <1>2, DecodeScans
  <2>5. i + DecodedLen(r, i) = ((i + m) + DecodedLen(s, i + m)) - m
    BY <1>1, <2>2
  <2> QED  BY <2>2, <2>3, <2>4, <2>5
<1>5. DecodePiece(s)[1] = <<DecodedByte(s, 1)>> /\ DecodeNext(s)[1] = m + 1
  <2>1. DecodePiece(s)[1] = <<DecodedByte(s, 1)>> /\ DecodeNext(s)[1] = 1 + m
    BY <1>1, DecodeScans DEF m
  <2> QED  BY <1>1, <2>1
<1>6. Scan(DecodePiece(s), DecodeNext(s))
        = DecodePiece(s)[1] \o Scan(DecodePiece(r), DecodeNext(r))
  <2>1. /\ DecodePiece(s) \in Seq(Seq(Byte)) /\ DecodePiece(s) # <<>>
        /\ Advances(DecodePiece(s), DecodeNext(s))
    BY <1>1, DecodeScans
  <2>2. DecodePiece(r) \in Seq(Seq(Byte))
    BY <1>2, DecodeScans
  <2> DEFINE p == DecodePiece(s)
             q == DecodeNext(s)
             p2 == DecodePiece(r)
             q2 == DecodeNext(r)
  <2>3. /\ p \in Seq(Seq(Byte)) /\ p # <<>> /\ Advances(p, q)
        /\ p2 \in Seq(Seq(Byte)) /\ Continues(p, q, m, p2, q2) /\ q[1] = m + 1
    BY <1>4, <1>5, <2>1, <2>2
  <2> HIDE DEF p, q, p2, q2
  <2>4. Scan(p, q) = p[1] \o Scan(p2, q2)
    BY <1>1, <2>3, ScanUnfolds
  <2> QED  BY <2>4 DEF p, q, p2, q2
<1>7. DecodeUrl(s) = <<DecodedByte(s, 1)>> \o DecodeUrl(r)
  BY <1>5, <1>6, DecodeIs
<1> QED  BY <1>1, <1>2, <1>7 DEF m, r

(* Two characters are read as one byte, if as any.                         *)
LEMMA HexValueOne ==
    ASSUME NEW a, NEW b, HexValue(a, b) # {}
    PROVE  \E v : HexValue(a, b) = {v}
<1>1. HexValue(a, b) \in {{}, {16 * Digit(a) + Digit(b)}, {Digit(a)}, {Digit(b)},
                          {(256 - Digit(b)) % 256}}
  BY DEF HexValue
<1> QED  BY <1>1

(* A text and what is in front of it.                                      *)
LEMMA Front ==
    ASSUME NEW S, NEW u \in Seq(S), NEW t \in Seq(S)
    PROVE  /\ u \o t \in Seq(S) /\ Len(u \o t) = Len(u) + Len(t)
           /\ Drop(u \o t, Len(u)) = t
           /\ \A i \in 1 .. Len(u) : (u \o t)[i] = u[i]
           /\ \A i \in 1 .. Len(t) : (u \o t)[Len(u) + i] = t[i]
<1> DEFINE s == u \o t
           d == Drop(s, Len(u))
<1>1. /\ s \in Seq(S) /\ Len(s) = Len(u) + Len(t) /\ Len(u) \in Nat /\ Len(t) \in Nat
      /\ \A i \in 1 .. Len(u) : s[i] = u[i]
      /\ \A i \in 1 .. Len(t) : s[Len(u) + i] = t[i]
  BY ConcatProperties
<1> HIDE DEF s
<1>2. d \in Seq(S) /\ Len(d) = Len(t)
      /\ \A i \in 1 .. Len(t) : d[i] = s[i + Len(u)]
  <2>1. Len(u) \in 0 .. Len(s) /\ Len(s) - Len(u) = Len(t)
    BY <1>1
  <2>2. d \in Seq(S) /\ Len(d) = Len(s) - Len(u)
        /\ \A i \in 1 .. Len(s) - Len(u) : d[i] = s[i + Len(u)]
    BY <1>1, <2>1, DropProperties
  <2> HIDE DEF d
  <2> QED  BY <2>1, <2>2
<1> HIDE DEF d
<1>3. \A i \in 1 .. Len(t) : d[i] = t[i]
  <2> TAKE i \in 1 .. Len(t)
  <2>1. i + Len(u) = Len(u) + i
    BY <1>1
  <2> QED  BY <1>1, <1>2, <2>1
<1>4. d = t
  BY <1>2, <1>3, SeqEqual
<1> QED  BY <1>1, <1>4 DEF s, d

(* A text and the member in front of it.                                   *)
LEMMA FirstAndRest ==
    ASSUME NEW S, NEW c \in S, NEW t \in Seq(S)
    PROVE  /\ <<c>> \o t \in Seq(S) /\ Len(<<c>> \o t) = Len(t) + 1 /\ Len(t) \in Nat
           /\ (<<c>> \o t)[1] = c /\ Drop(<<c>> \o t, 1) = t
           /\ \A i \in 1 .. Len(t) : (<<c>> \o t)[i + 1] = t[i]
<1> DEFINE u == <<c>>
<1>1. u \in Seq(S) /\ Len(u) = 1 /\ u[1] = c
  OBVIOUS
<1> HIDE DEF u
<1>2. /\ u \o t \in Seq(S) /\ Len(u \o t) = Len(u) + Len(t)
      /\ Drop(u \o t, Len(u)) = t
      /\ \A i \in 1 .. Len(u) : (u \o t)[i] = u[i]
      /\ \A i \in 1 .. Len(t) : (u \o t)[Len(u) + i] = t[i]
  <2>1. u \in Seq(S)
    BY <1>1
  <2> QED  BY <2>1, Front, Zenon
<1>3. Len(t) \in Nat /\ \A i \in 1 .. Len(t) : 1 + i = i + 1
  OBVIOUS
<1>4. (u \o t)[1] = c /\ Len(u \o t) = Len(t) + 1
  BY <1>1, <1>2, <1>3
<1>5. \A i \in 1 .. Len(t) : (u \o t)[i + 1] = t[i]
  BY <1>1, <1>2, <1>3
<1> QED  BY <1>1, <1>2, <1>3, <1>4, <1>5 DEF u

(* A text that is not empty is its first member and the rest.              *)
LEMMA Split ==
    ASSUME NEW S, NEW s \in Seq(S), Len(s) # 0
    PROVE  /\ s[1] \in S /\ Drop(s, 1) \in Seq(S) /\ s = <<s[1]>> \o Drop(s, 1)
           /\ Len(s) = Len(Drop(s, 1)) + 1
<1> DEFINE d == Drop(s, 1)
<1>1. Len(s) \in Nat /\ 1 \in 0 .. Len(s) /\ s[1] \in S
  OBVIOUS
<1>2. d \in Seq(S) /\ Len(d) = Len(s) - 1 /\ \A i \in 1 .. Len(s) - 1 : d[i] = s[i + 1]
  BY <1>1, DropProperties
<1> HIDE DEF d
<1> DEFINE r == <<s[1]>> \o d
<1>3. /\ r \in Seq(S) /\ Len(r) = Len(d) + 1 /\ r[1] = s[1]
      /\ \A i \in 1 .. Len(d) : r[i + 1] = d[i]
  BY <1>1, <1>2, FirstAndRest
<1> HIDE DEF r
<1>4. ASSUME NEW i \in 1 .. Len(s) PROVE s[i] = r[i]
  <2>1. CASE i = 1
    BY <1>3, <2>1
  <2>2. CASE i # 1
    <3>1. i - 1 \in 1 .. Len(s) - 1 /\ (i - 1) + 1 = i
      BY <1>1, <2>2
    <3> QED  BY <1>2, <1>3, <3>1
  <2> QED  BY <2>1, <2>2
<1>5. s = r
  BY <1>1, <1>2, <1>3, <1>4, SeqEqual
<1> QED  BY <1>1, <1>2, <1>5 DEF r, d

(* decode_url on a byte that begins no escape, and on an escape.           *)
LEMMA DecodePlain ==
    ASSUME NEW c \in Byte, NEW t \in Seq(Byte), EscapeAt(<<c>> \o t, 1) = {}
    PROVE  DecodeUrl(<<c>> \o t) = <<c>> \o DecodeUrl(t)
<1> DEFINE s == <<c>> \o t
<1>1. s \in Seq(Byte) /\ Len(s) = Len(t) + 1 /\ Len(t) \in Nat /\ s[1] = c /\ Drop(s, 1) = t
  BY FirstAndRest
<1>2. EscapeAt(s, 1) = {} /\ Len(s) # 0
  BY <1>1
<1> HIDE DEF s
<1>3. DecodedByte(s, 1) = c /\ DecodedLen(s, 1) = 1
  BY <1>1, <1>2 DEF DecodedByte, ByteOf, DecodedLen
<1>4. DecodeUrl(s) = <<DecodedByte(s, 1)>> \o DecodeUrl(Drop(s, DecodedLen(s, 1)))
  BY <1>1, <1>2, DecodeUnfolds
<1> QED  BY <1>1, <1>3, <1>4 DEF s

(* The first three bytes give one, if they are an escape.                  *)
LEMMA DecodeEscape ==
    ASSUME NEW s \in Seq(Byte), NEW v, EscapeAt(s, 1) = {v}, Len(s) # 0
    PROVE  /\ Len(s) >= 3 /\ v \in Byte
           /\ DecodeUrl(s) = <<v>> \o DecodeUrl(Drop(s, 3))
<1>1. DecodedByte(s, 1) = v /\ DecodedLen(s, 1) = 3
  BY DEF DecodedByte, ByteOf, DecodedLen
<1>2. /\ DecodedLen(s, 1) \in 1 .. Len(s) /\ DecodedByte(s, 1) \in Byte
      /\ DecodeUrl(s) = <<DecodedByte(s, 1)>> \o DecodeUrl(Drop(s, DecodedLen(s, 1)))
  BY DecodeUnfolds
<1> QED  BY <1>1, <1>2

-----------------------------------------------------------------------------
(* Code pages, from the first character on.                                *)

(* What Wide says of either of the two encodings.                          *)
IsEncoding(From) ==
    /\ From \in [Wide -> Seq(Byte)]
    /\ \A w \in Wide : Len(From[w]) # 0 /\ From[w][1] > 127
    /\ \A w \in Wide : \A i \in 1 .. Len(From[w]) : From[w][i] >= 64
    /\ \A v, w \in Wide : StartsWith(From[v], From[w]) => v = w

(* A sequence over a set is one over any larger set.                       *)
LEMMA WiderSequence ==
    ASSUME NEW R, NEW S, R \subseteq S, NEW s \in Seq(R)
    PROVE  s \in Seq(S) /\ \A i \in 1 .. Len(s) : s[i] \in R
<1>1. Len(s) \in Nat /\ s \in [1 .. Len(s) -> R]
  BY LenProperties
<1>2. s \in [1 .. Len(s) -> S]
  BY <1>1
<1> QED  BY <1>1, <1>2, FunctionIsSequence

(* The code page and UTF-8 are such encodings.                             *)
LEMMA BothEncodings == IsEncoding(Acp) /\ IsEncoding(Utf8)
<1>1. ASSUME NEW w \in Wide
      PROVE  /\ w.acp \in Seq(Byte) /\ Len(w.acp) # 0 /\ w.acp[1] > 127
             /\ \A i \in 1 .. Len(w.acp) : w.acp[i] >= 64
             /\ w.utf8 \in Seq(Byte) /\ Len(w.utf8) # 0 /\ w.utf8[1] > 127
             /\ \A i \in 1 .. Len(w.utf8) : w.utf8[i] > 127
  <2>1. /\ w.acp \in Seq(64 .. 255) /\ w.acp # <<>> /\ w.acp[1] > 127
        /\ w.utf8 \in Seq(128 .. 255) /\ w.utf8 # <<>>
    BY EncodingsAssumption
  <2>2. ASSUME NEW s \in Seq(64 .. 255)
       PROVE  s \in Seq(Byte) /\ \A i \in 1 .. Len(s) : s[i] >= 64
    <3>1. 64 .. 255 \subseteq Byte
      BY DEF Byte
    <3>2. s \in Seq(Byte) /\ \A i \in 1 .. Len(s) : s[i] \in 64 .. 255
      BY <3>1, WiderSequence
    <3>3. \A x \in 64 .. 255 : x >= 64
      OBVIOUS
    <3> QED  BY <3>2, <3>3
  <2>3. ASSUME NEW s \in Seq(128 .. 255)
       PROVE  s \in Seq(Byte) /\ \A i \in 1 .. Len(s) : s[i] > 127
    <3>1. 128 .. 255 \subseteq Byte
      BY DEF Byte
    <3>2. s \in Seq(Byte) /\ \A i \in 1 .. Len(s) : s[i] \in 128 .. 255
      BY <3>1, WiderSequence
    <3>3. \A x \in 128 .. 255 : x > 127
      OBVIOUS
    <3> QED  BY <3>2, <3>3
  <2>4. \A s \in Seq(Byte) : s # <<>> => Len(s) # 0 /\ 1 \in 1 .. Len(s)
    OBVIOUS
  <2> QED  BY <2>1, <2>2, <2>3, <2>4
<1>2. IsEncoding(Acp)
  <2>1. Acp \in [Wide -> Seq(Byte)] /\ \A w \in Wide : Acp[w] = w.acp
    BY <1>1 DEF Acp
  <2> QED  BY <1>1, <2>1, EncodingsAssumption DEF IsEncoding
<1>3. IsEncoding(Utf8)
  <2>1. Utf8 \in [Wide -> Seq(Byte)] /\ \A w \in Wide : Utf8[w] = w.utf8
    BY <1>1 DEF Utf8
  <2>2. \A w \in Wide : \A i \in 1 .. Len(w.utf8) : w.utf8[i] >= 64
    <3>1. \A w \in Wide : w.utf8 \in Seq(Byte)
      BY <1>1
    <3>2. \A s \in Seq(Byte) : \A i \in 1 .. Len(s) : s[i] \in Byte
      OBVIOUS
    <3>3. \A x \in Byte : x > 127 => x >= 64
      BY DEF Byte
    <3> QED  BY <1>1, <3>1, <3>2, <3>3
  <2> QED  BY <1>1, <2>1, <2>2, EncodingsAssumption DEF IsEncoding
<1> QED  BY <1>2, <1>3

(* StartsWith, member by member.                                           *)
LEMMA StartsWithIs ==
    ASSUME NEW S, NEW s \in Seq(S), NEW t \in Seq(S)
    PROVE  StartsWith(s, t) <=> Len(t) <= Len(s) /\ \A i \in 1 .. Len(t) : s[i] = t[i]
<1>1. Len(s) \in Nat /\ Len(t) \in Nat
  OBVIOUS
<1> SUFFICES ASSUME Len(t) <= Len(s)
             PROVE  SubSeq(s, 1, Len(t)) = t <=> \A i \in 1 .. Len(t) : s[i] = t[i]
  BY DEF StartsWith
<1> DEFINE u == SubSeq(s, 1, Len(t))
<1>2. u \in Seq(S) /\ Len(u) = Len(t) /\ \A i \in 1 .. Len(t) : u[i] = s[i]
  BY <1>1
<1> HIDE DEF u
<1>3. (\A i \in 1 .. Len(t) : s[i] = t[i]) => u = t
  BY <1>2, SeqEqual
<1> QED  BY <1>2, <1>3 DEF u

(* No character begins with another: what begins with one has no other.    *)
LEMMA OneCharacter ==
    ASSUME NEW From, IsEncoding(From), NEW c \in Wide, NEW t \in Seq(Byte)
    PROVE  WideAt(From[c] \o t, 1, From) = {c}
<1> DEFINE u == From[c]
           s == u \o t
<1>1. From[c] \in Seq(Byte) /\ Len(From[c]) \in Nat /\ Len(t) \in Nat
  BY DEF IsEncoding
<1>2. /\ s \in Seq(Byte) /\ Len(s) = Len(From[c]) + Len(t)
      /\ \A i \in 1 .. Len(From[c]) : s[i] = From[c][i]
  <2> HIDE DEF u
  <2>1. u \in Seq(Byte)
    BY <1>1 DEF u
  <2>2. /\ s \in Seq(Byte) /\ Len(s) = Len(u) + Len(t)
        /\ \A i \in 1 .. Len(u) : s[i] = u[i]
    BY <2>1, Front
  <2> QED  BY <2>2 DEF u
<1> HIDE DEF s
<1>3. SubSeq(s, 1, Len(s)) = s
  BY <1>2
<1>4. StartsWith(s, From[c])
  <2>1. Len(From[c]) <= Len(s)
    BY <1>1, <1>2
  <2> QED  BY <1>1, <1>2, <2>1, StartsWithIs
<1>5. ASSUME NEW w \in Wide, StartsWith(s, From[w]) PROVE w = c
  <2>1. From[w] \in Seq(Byte) /\ Len(From[w]) \in Nat
    BY DEF IsEncoding
  <2>2. Len(From[w]) <= Len(s) /\ \A i \in 1 .. Len(From[w]) : s[i] = From[w][i]
    BY <1>2, <1>5, <2>1, StartsWithIs
  <2>3. CASE Len(From[w]) <= Len(From[c])
    <3>1. \A i \in 1 .. Len(From[w]) : From[c][i] = From[w][i]
      BY <1>1, <1>2, <2>1, <2>2, <2>3
    <3>2. StartsWith(From[c], From[w])
      BY <1>1, <2>1, <2>3, <3>1, StartsWithIs
    <3> QED  BY <3>2 DEF IsEncoding
  <2>4. CASE Len(From[c]) <= Len(From[w])
    <3>1. \A i \in 1 .. Len(From[c]) : From[w][i] = From[c][i]
      BY <1>1, <1>2, <2>1, <2>2, <2>4
    <3>2. StartsWith(From[w], From[c])
      BY <1>1, <2>1, <2>4, <3>1, StartsWithIs
    <3> QED  BY <3>2 DEF IsEncoding
  <2> QED  BY <1>1, <2>1, <2>3, <2>4
<1>6. WideAt(s, 1, From) = {w \in Wide : StartsWith(s, From[w])}
  BY <1>3 DEF WideAt
<1>7. WideAt(s, 1, From) = {c}
  BY <1>4, <1>5, <1>6
<1> QED  BY <1>7 DEF s

OneOf(chars) == CHOOSE w \in chars : TRUE

(* What Recoded puts out for what it reads at i, and how much it reads.    *)
RecodedPart(s, i, From, To) ==
    IF WideAt(s, i, From) # {} THEN To[OneOf(WideAt(s, i, From))]
    ELSE <<IF s[i] < 128 THEN s[i] ELSE 63>>
RecodedLen(s, i, From) ==
    IF WideAt(s, i, From) # {} THEN Len(From[OneOf(WideAt(s, i, From))]) ELSE 1

RecodedPiece(s, From, To) == [i \in DOMAIN s |-> RecodedPart(s, i, From, To)]
RecodedNext(s, From) ==
    [i \in DOMAIN s |-> IF WideAt(s, i, From) # {}
                          THEN i + Len(From[OneOf(WideAt(s, i, From))]) ELSE i + 1]

(* A conversion is a scan (stringUtil.h:256).                              *)
LEMMA RecodedIs ==
    \A s, From, To : Recoded(s, From, To) = Scan(RecodedPiece(s, From, To), RecodedNext(s, From))
  BY DEF Recoded, RecodedPiece, RecodedNext, RecodedPart, OneOf

(* A conversion advances by a character, or by a byte that begins none,    *)
(* and stays within the text.                                              *)
LEMMA RecodedScans ==
    ASSUME NEW s \in Seq(Byte), NEW From, NEW To, IsEncoding(From), IsEncoding(To)
    PROVE  /\ RecodedPiece(s, From, To) \in Seq(Seq(Byte))
           /\ Len(RecodedPiece(s, From, To)) = Len(s)
           /\ \A i \in 1 .. Len(s) :
                 /\ RecodedPiece(s, From, To)[i] = RecodedPart(s, i, From, To)
                 /\ RecodedNext(s, From)[i] = i + RecodedLen(s, i, From)
                 /\ RecodedLen(s, i, From) \in 1 .. Len(s)
                 /\ i + RecodedLen(s, i, From) \in i + 1 .. Len(s) + 1
           /\ Advances(RecodedPiece(s, From, To), RecodedNext(s, From))
<1>1. Len(s) \in Nat /\ DOMAIN s = 1 .. Len(s)
  OBVIOUS
<1>2. ASSUME NEW i \in 1 .. Len(s)
      PROVE  /\ RecodedPart(s, i, From, To) \in Seq(Byte)
             /\ RecodedLen(s, i, From) \in 1 .. Len(s)
             /\ i + RecodedLen(s, i, From) \in i + 1 .. Len(s) + 1
  <2> DEFINE W == WideAt(s, i, From)
             w == OneOf(W)
  <2>1. CASE W = {}
    <3>1. RecodedLen(s, i, From) = 1
      BY <2>1 DEF RecodedLen
    <3>2. RecodedPart(s, i, From, To) = <<IF s[i] < 128 THEN s[i] ELSE 63>>
      BY <2>1 DEF RecodedPart
    <3>3. s[i] \in Byte /\ 63 \in Byte
      <4>1. s[i] \in Byte
        OBVIOUS
      <4>2. 63 \in Byte
        BY DEF Byte
      <4> QED  BY <4>1, <4>2
    <3>4. (IF s[i] < 128 THEN s[i] ELSE 63) \in Byte
      BY <3>3
    <3> QED  BY <1>1, <3>1, <3>2, <3>4
  <2>2. CASE W # {}
    <3>1. w \in W
      BY <2>2 DEF OneOf
    <3>2. w \in Wide /\ StartsWith(SubSeq(s, i, Len(s)), From[w])
      BY <3>1 DEF WideAt
    <3> HIDE DEF w
    <3>3. From[w] \in Seq(Byte) /\ Len(From[w]) # 0 /\ Len(From[w]) \in Nat /\ To[w] \in Seq(Byte)
      BY <3>2 DEF IsEncoding
    <3>4. Len(From[w]) <= Len(SubSeq(s, i, Len(s)))
      BY <3>2 DEF StartsWith
    <3>5. Len(SubSeq(s, i, Len(s))) = Len(s) - i + 1
      BY <1>1
    <3>6. RecodedLen(s, i, From) = Len(From[w]) /\ RecodedPart(s, i, From, To) = To[w]
      BY <2>2 DEF RecodedLen, RecodedPart, w
    <3> QED  BY <1>1, <3>3, <3>4, <3>5, <3>6
  <2> QED  BY <2>1, <2>2
<1>3. \A i \in 1 .. Len(s) : /\ RecodedPiece(s, From, To)[i] = RecodedPart(s, i, From, To)
                             /\ RecodedNext(s, From)[i] = i + RecodedLen(s, i, From)
  BY <1>1 DEF RecodedPiece, RecodedNext, RecodedLen
<1>4. RecodedPiece(s, From, To) \in Seq(Seq(Byte)) /\ Len(RecodedPiece(s, From, To)) = Len(s)
  <2>1. RecodedPiece(s, From, To) \in [1 .. Len(s) -> Seq(Byte)]
    BY <1>1, <1>2 DEF RecodedPiece
  <2> QED  BY <1>1, <2>1, FunctionIsSequence
<1>5. Advances(RecodedPiece(s, From, To), RecodedNext(s, From))
  BY <1>2, <1>3, <1>4 DEF Advances
<1> QED  BY <1>2, <1>3, <1>4, <1>5

(* A conversion gives text.                                                *)
LEMMA RecodedTypes ==
    ASSUME NEW s \in Seq(Byte), NEW From, NEW To, IsEncoding(From), IsEncoding(To)
    PROVE  Recoded(s, From, To) \in Seq(Byte)
  BY RecodedIs, RecodedScans, ScanTypes

(* The conversion of the empty text.                                       *)
LEMMA RecodedOfNothing ==
    ASSUME NEW From, NEW To, IsEncoding(From), IsEncoding(To)
    PROVE  Recoded(<<>>, From, To) = <<>>
<1> DEFINE s == <<>>
<1>1. s \in Seq(Byte) /\ Len(s) = 0
  OBVIOUS
<1> HIDE DEF s
<1>2. RecodedPiece(s, From, To) \in Seq(Seq(Byte)) /\ Len(RecodedPiece(s, From, To)) = 0
  BY <1>1, RecodedScans
<1>3. Recoded(s, From, To) = <<>>
  BY <1>2, RecodedIs, ScanOfNothing
<1> QED  BY <1>3 DEF s

(* A conversion puts out the first character, and then what it makes of    *)
(* the rest.                                                               *)
LEMMA RecodedUnfolds ==
    ASSUME NEW s \in Seq(Byte), NEW From, NEW To, IsEncoding(From), IsEncoding(To), Len(s) # 0
    PROVE  /\ RecodedLen(s, 1, From) \in 1 .. Len(s)
           /\ Recoded(s, From, To)
                = RecodedPart(s, 1, From, To) \o Recoded(Drop(s, RecodedLen(s, 1, From)), From, To)
<1> DEFINE m == RecodedLen(s, 1, From)
           r == Drop(s, m)
<1>1. Len(s) \in Nat /\ 1 \in 1 .. Len(s) /\ m \in 1 .. Len(s) /\ m \in Nat
  <2>1. Len(s) \in Nat /\ 1 \in 1 .. Len(s)
    OBVIOUS
  <2>2. m \in 1 .. Len(s)
    BY <2>1, RecodedScans
  <2> HIDE DEF m
  <2> QED  BY <2>1, <2>2
<1> HIDE DEF m
<1>2. r \in Seq(Byte) /\ Len(r) = Len(s) - m /\ \A i \in 1 .. Len(s) - m : r[i] = s[i + m]
  <2>1. m \in 0 .. Len(s)
    BY <1>1
  <2>2. /\ Drop(s, m) \in Seq(Byte)
        /\ Len(Drop(s, m)) = Len(s) - m
        /\ \A i \in 1 .. Len(s) - m : Drop(s, m)[i] = s[i + m]
    BY <2>1, DropProperties
  <2> QED  BY <2>2
<1>3. ASSUME NEW i \in 1 .. Len(r)
      PROVE  /\ i + m \in 1 .. Len(s) /\ r[i] = s[i + m]
             /\ WideAt(r, i, From) = WideAt(s, i + m, From)
  <2> HIDE DEF r
  <2>1. i + m \in 1 .. Len(s) /\ r[i] = s[i + m]
    BY <1>1, <1>2
  <2> DEFINE u == SubSeq(r, i, Len(r))
             v == SubSeq(s, i + m, Len(s))
  <2>2. /\ u \in Seq(Byte) /\ Len(u) = Len(r) - i + 1
        /\ \A j \in 1 .. Len(r) - i + 1 : u[j] = r[i + j - 1]
    BY <1>2
  <2>3. /\ v \in Seq(Byte) /\ Len(v) = Len(s) - (i + m) + 1
        /\ \A j \in 1 .. Len(s) - (i + m) + 1 : v[j] = s[(i + m) + j - 1]
    BY <1>1, <2>1
  <2> HIDE DEF u, v
  <2>4. Len(u) = Len(v)
    BY <1>1, <1>2, <2>2, <2>3
  <2>5. ASSUME NEW j \in 1 .. Len(u) PROVE u[j] = v[j]
    <3>1. i + j - 1 \in 1 .. Len(s) - m /\ (i + m) + j - 1 = (i + j - 1) + m
      BY <1>1, <1>2, <2>2, <2>5
    <3>2. u[j] = r[i + j - 1] /\ v[j] = s[(i + m) + j - 1]
      BY <2>2, <2>3, <2>4, <2>5
    <3> QED  BY <1>2, <3>1, <3>2
  <2>6. u = v
    BY <2>2, <2>3, <2>4, <2>5, SeqEqual
  <2> QED  BY <2>1, <2>6 DEF WideAt, u, v
<1> HIDE DEF r
<1>4. Continues(RecodedPiece(s, From, To), RecodedNext(s, From), m,
                RecodedPiece(r, From, To), RecodedNext(r, From))
  <2>l. Len(RecodedPiece(s, From, To)) = Len(s) /\ Len(RecodedPiece(r, From, To)) = Len(r)
    BY <1>2, RecodedScans
  <2> SUFFICES ASSUME NEW i \in 1 .. Len(r)
               PROVE  /\ RecodedPiece(r, From, To)[i] = RecodedPiece(s, From, To)[i + m]
                      /\ RecodedNext(r, From)[i] = RecodedNext(s, From)[i + m] - m
    BY <1>1, <1>2, <2>l DEF Continues
  <2>1. i + m \in 1 .. Len(s) /\ r[i] = s[i + m] /\ WideAt(r, i, From) = WideAt(s, i + m, From)
    BY <1>3
  <2>2. /\ RecodedPart(r, i, From, To) = RecodedPart(s, i + m, From, To)
        /\ RecodedLen(r, i, From) = RecodedLen(s, i + m, From)
    BY <2>1 DEF RecodedPart, RecodedLen
  <2>3. /\ RecodedPiece(s, From, To)[i + m] = RecodedPart(s, i + m, From, To)
        /\ RecodedNext(s, From)[i + m] = (i + m) + RecodedLen(s, i + m, From)
        /\ RecodedLen(s, i + m, From) \in 1 .. Len(s)
    <3>1. \A j \in 1 .. Len(s) :
             /\ RecodedPiece(s, From, To)[j] = RecodedPart(s, j, From, To)
             /\ RecodedNext(s, From)[j] = j + RecodedLen(s, j, From)
             /\ RecodedLen(s, j, From) \in 1 .. Len(s)
      BY RecodedScans
    <3> QED  BY <2>1, <3>1
  <2>4. /\ RecodedPiece(r, From, To)[i] = RecodedPart(r, i, From, To)
        /\ RecodedNext(r, From)[i] = i + RecodedLen(r, i, From)
    <3>1. \A j \in 1 .. Len(r) :
             /\ RecodedPiece(r, From, To)[j] = RecodedPart(r, j, From, To)
             /\ RecodedNext(r, From)[j] = j + RecodedLen(r, j, From)
      BY <1>2, RecodedScans
    <3> QED  BY <3>1
  <2>5. i + RecodedLen(r, i, From) = ((i + m) + RecodedLen(s, i + m, From)) - m
    BY <1>1, <2>2, <2>3
  <2> QED  BY <2>2, <2>3, <2>4, <2>5
<1>5. RecodedPiece(s, From, To)[1] = RecodedPart(s, 1, From, To) /\ RecodedNext(s, From)[1] = m + 1
  <2>1. RecodedPiece(s, From, To)[1] = RecodedPart(s, 1, From, To) /\ RecodedNext(s, From)[1] = 1 + m
    BY <1>1, RecodedScans DEF m
  <2> QED  BY <1>1, <2>1
<1>6. Recoded(s, From, To) = RecodedPart(s, 1, From, To) \o Recoded(r, From, To)
  <2> DEFINE p == RecodedPiece(s, From, To)
             q == RecodedNext(s, From)
             p2 == RecodedPiece(r, From, To)
             q2 == RecodedNext(r, From)
  <2>1. /\ p \in Seq(Seq(Byte)) /\ p # <<>> /\ Advances(p, q)
        /\ Continues(p, q, m, p2, q2) /\ q[1] = m + 1
    BY <1>1, <1>4, <1>5, RecodedScans
  <2>2. p2 \in Seq(Seq(Byte))
    BY <1>2, RecodedScans
  <2> HIDE DEF p, q, p2, q2
  <2>3. Scan(p, q) = p[1] \o Scan(p2, q2)
    BY <1>1, <2>1, <2>2, ScanUnfolds
  <2> QED  BY <1>5, <2>3, RecodedIs DEF p, q, p2, q2
<1> QED  BY <1>1, <1>6 DEF m, r

(* Recoded on a wide character, on an ASCII byte, and on any byte.         *)
LEMMA RecodedWide ==
    ASSUME NEW From, NEW To, IsEncoding(From), IsEncoding(To), NEW c \in Wide, NEW t \in Seq(Byte)
    PROVE  Recoded(From[c] \o t, From, To) = To[c] \o Recoded(t, From, To)
<1> DEFINE u == From[c]
           s == u \o t
<1>1. u \in Seq(Byte) /\ Len(u) # 0 /\ Len(u) \in Nat /\ Len(t) \in Nat
  BY DEF IsEncoding
<1>2. WideAt(s, 1, From) = {c}
  BY OneCharacter
<1>3. RecodedLen(s, 1, From) = Len(u) /\ RecodedPart(s, 1, From, To) = To[c]
  <2> HIDE DEF s
  <2> QED  BY <1>2 DEF RecodedLen, RecodedPart, OneOf
<1> HIDE DEF u
<1>4. s \in Seq(Byte) /\ Len(s) = Len(u) + Len(t) /\ Drop(s, Len(u)) = t
  BY <1>1, Front
<1> HIDE DEF s
<1>5. Len(s) # 0
  BY <1>1, <1>4
<1>6. Recoded(s, From, To)
        = RecodedPart(s, 1, From, To) \o Recoded(Drop(s, RecodedLen(s, 1, From)), From, To)
  BY <1>4, <1>5, RecodedUnfolds
<1> QED  BY <1>3, <1>4, <1>6 DEF u, s

(* Induction over sequences, by their length and by what follows the first *)
(* member.                                                                 *)
LEMMA LengthInduction ==
    ASSUME NEW S, NEW T,
           \A s \in Seq(S) : (\A t \in Seq(S) : Len(t) < Len(s) => t \in T) => s \in T
    PROVE  \A s \in Seq(S) : s \in T
<1> DEFINE N == {n \in Nat : \A s \in Seq(S) : Len(s) < n => s \in T}
<1>1. 0 \in N
  <2>1. \A s \in Seq(S) : ~(Len(s) < 0)
    OBVIOUS
  <2> QED  BY <2>1
<1>2. ASSUME NEW n \in Nat, n \in N PROVE n + 1 \in N
  <2>1. ASSUME NEW s \in Seq(S), Len(s) < n + 1 PROVE s \in T
    <3>1. \A t \in Seq(S) : t \in Seq(S) /\ Len(t) \in Nat /\ Len(s) \in Nat
      OBVIOUS
    <3>2. \A t \in Seq(S) : Len(t) < Len(s) => t \in T
      BY <1>2, <2>1, <3>1
    <3> QED  BY <3>2
  <2> QED  BY <2>1
<1>3. \A n \in Nat : n \in N
  <2> HIDE DEF N
  <2> QED  BY <1>1, <1>2, Induction
<1> TAKE s \in Seq(S)
<1>4. Len(s) + 1 \in Nat /\ Len(s) < Len(s) + 1
  OBVIOUS
<1>5. Len(s) + 1 \in N
  BY <1>3, <1>4
<1> QED  BY <1>4, <1>5

(* Induction from what follows the first member.                           *)
LEMMA ListInduction ==
    ASSUME NEW S, NEW T, <<>> \in T,
           \A c \in S : \A t \in Seq(S) : t \in T => <<c>> \o t \in T
    PROVE  \A s \in Seq(S) : s \in T
<1>1. ASSUME NEW s \in Seq(S), \A t \in Seq(S) : Len(t) < Len(s) => t \in T
      PROVE  s \in T
  <2>1. CASE Len(s) = 0
    <3>1. s = <<>>
      BY <2>1
    <3> QED  BY <3>1
  <2>2. CASE Len(s) # 0
    <3> DEFINE d == Drop(s, 1)
    <3>1. s[1] \in S /\ d \in Seq(S) /\ s = <<s[1]>> \o d /\ Len(s) = Len(d) + 1
      BY <2>2, Split
    <3> HIDE DEF d
    <3>2. Len(d) < Len(s)
      BY <3>1
    <3>3. d \in T
      BY <1>1, <3>1, <3>2
    <3>4. <<s[1]>> \o d \in T
      BY <3>1, <3>3, Zenon
    <3> QED  BY <3>1, <3>4
  <2> QED  BY <2>1, <2>2
<1> QED  BY <1>1, LengthInduction

-----------------------------------------------------------------------------
(* Joined, piece by piece.                                                 *)
Mapped(s, F) == Joined([i \in DOMAIN s |-> F[s[i]]])

MappedPiece(s, F) == [i \in DOMAIN s |-> F[s[i]]]
MappedNext(s, F) == [i \in DOMAIN MappedPiece(s, F) |-> i + 1]

(* Mapped is a scan.                                                       *)
LEMMA MappedIs == \A s, F : Mapped(s, F) = Scan(MappedPiece(s, F), MappedNext(s, F))
  BY DEF Mapped, Joined, MappedPiece, MappedNext

(* Mapped advances by one member at a time.                                *)
LEMMA MappedScans ==
    ASSUME NEW S, NEW R, NEW F \in [S -> Seq(R)], NEW s \in Seq(S)
    PROVE  /\ MappedPiece(s, F) \in Seq(Seq(R)) /\ Len(MappedPiece(s, F)) = Len(s)
           /\ \A i \in 1 .. Len(s) : MappedPiece(s, F)[i] = F[s[i]] /\ MappedNext(s, F)[i] = i + 1
           /\ Advances(MappedPiece(s, F), MappedNext(s, F))
<1> DEFINE p == MappedPiece(s, F)
           q == MappedNext(s, F)
<1>1. Len(s) \in Nat /\ DOMAIN s = 1 .. Len(s) /\ \A i \in 1 .. Len(s) : s[i] \in S
  OBVIOUS
<1>2. p \in [1 .. Len(s) -> Seq(R)] /\ DOMAIN p = 1 .. Len(s)
  BY <1>1 DEF MappedPiece
<1>3. p \in Seq(Seq(R)) /\ Len(p) = Len(s)
  <2> HIDE DEF p
  <2> QED  BY <1>1, <1>2, FunctionIsSequence
<1>5. \A i \in 1 .. Len(s) : p[i] = F[s[i]]
  BY <1>1 DEF MappedPiece
<1>6. \A i \in 1 .. Len(s) : q[i] = i + 1
  BY <1>2 DEF MappedNext
<1> HIDE DEF p, q
<1>7. Advances(p, q)
  BY <1>1, <1>3, <1>6 DEF Advances
<1> QED  BY <1>3, <1>5, <1>6, <1>7 DEF p, q

(* Mapped on the empty sequence.                                           *)
LEMMA MappedOfNothing ==
    ASSUME NEW S, NEW R, NEW F \in [S -> Seq(R)]
    PROVE  Mapped(<<>>, F) = <<>>
<1> DEFINE s == <<>>
<1>1. s \in Seq(S) /\ Len(s) = 0
  OBVIOUS
<1> HIDE DEF s
<1>2. MappedPiece(s, F) \in Seq(Seq(R)) /\ Len(MappedPiece(s, F)) = 0
  <2>1. /\ MappedPiece(s, F) \in Seq(Seq(R)) /\ Len(MappedPiece(s, F)) = Len(s)
        /\ \A i \in 1 .. Len(s) : MappedPiece(s, F)[i] = F[s[i]] /\ MappedNext(s, F)[i] = i + 1
        /\ Advances(MappedPiece(s, F), MappedNext(s, F))
    BY <1>1, MappedScans
  <2> QED  BY <1>1, <2>1
<1>3. Mapped(s, F) = <<>>
  BY <1>2, MappedIs, ScanOfNothing
<1> QED  BY <1>3 DEF s

(* Mapped gives text.                                                      *)
LEMMA MappedTypes ==
    ASSUME NEW S, NEW R, NEW F \in [S -> Seq(R)], NEW s \in Seq(S)
    PROVE  Mapped(s, F) \in Seq(R)
<1>1. MappedPiece(s, F) \in Seq(Seq(R)) /\ Advances(MappedPiece(s, F), MappedNext(s, F))
  BY MappedScans
<1> QED  BY <1>1, MappedIs, ScanTypes

(* Mapped puts out the first piece, and then those of the rest.            *)
LEMMA MappedUnfolds ==
    ASSUME NEW S, NEW R, NEW F \in [S -> Seq(R)], NEW c \in S, NEW t \in Seq(S)
    PROVE  Mapped(<<c>> \o t, F) = F[c] \o Mapped(t, F)
<1> DEFINE s == <<c>> \o t
           p == MappedPiece(s, F)
           q == MappedNext(s, F)
           p2 == MappedPiece(t, F)
           q2 == MappedNext(t, F)
<1>1. /\ s \in Seq(S) /\ Len(s) = Len(t) + 1 /\ Len(t) \in Nat /\ s[1] = c
      /\ \A i \in 1 .. Len(t) : s[i + 1] = t[i]
  BY FirstAndRest
<1> HIDE DEF s
<1>2. /\ p \in Seq(Seq(R)) /\ Len(p) = Len(s)
      /\ \A i \in 1 .. Len(s) : p[i] = F[s[i]] /\ q[i] = i + 1
      /\ Advances(p, q)
  BY <1>1, MappedScans
<1>3. /\ p2 \in Seq(Seq(R)) /\ Len(p2) = Len(t)
      /\ \A i \in 1 .. Len(t) : p2[i] = F[t[i]] /\ q2[i] = i + 1
      /\ Advances(p2, q2)
  BY MappedScans
<1>m. Mapped(s, F) = Scan(p, q) /\ Mapped(t, F) = Scan(p2, q2)
  BY MappedIs
<1> HIDE DEF p, q, p2, q2
<1>4. Continues(p, q, 1, p2, q2)
  <2>1. ASSUME NEW i \in 1 .. Len(p2)
        PROVE  p2[i] = p[i + 1] /\ q2[i] = q[i + 1] - 1
    <3>1. i \in 1 .. Len(t) /\ i + 1 \in 1 .. Len(s) /\ i + 1 = ((i + 1) + 1) - 1
      BY <1>1, <1>3
    <3>2. /\ p2[i] = F[t[i]] /\ q2[i] = i + 1 /\ s[i + 1] = t[i]
          /\ p[i + 1] = F[s[i + 1]] /\ q[i + 1] = (i + 1) + 1
      BY <1>1, <1>2, <1>3, <3>1
    <3> QED  BY <3>1, <3>2
  <2>2. Len(p2) = Len(p) - 1
    BY <1>1, <1>2, <1>3
  <2> QED  BY <2>1, <2>2 DEF Continues
<1>5. p # <<>> /\ q[1] = 1 + 1 /\ p[1] = F[c]
  BY <1>1, <1>2
<1>6. Scan(p, q) = p[1] \o Scan(p2, q2) /\ Scan(p2, q2) \in Seq(R)
  <2>1. 1 \in Nat
    OBVIOUS
  <2> QED  BY <1>2, <1>3, <1>4, <1>5, <2>1, ScanUnfolds
<1> QED  BY <1>5, <1>6, <1>m DEF s

(* Mapped on two sequences, one after the other.                           *)
LEMMA MappedFront ==
    ASSUME NEW S, NEW R, NEW F \in [S -> Seq(R)], NEW t \in Seq(S)
    PROVE  \A u \in Seq(S) : Mapped(u \o t, F) = Mapped(u, F) \o Mapped(t, F)
<1> DEFINE T == {u \in Seq(S) : Mapped(u \o t, F) = Mapped(u, F) \o Mapped(t, F)}
           M(s) == Mapped(s, F)
<1>0. \A s \in Seq(S) : M(s) \in Seq(R)
  BY MappedTypes
<1>1. <<>> \in T
  <2>1. <<>> \in Seq(S) /\ <<>> \o t = t
    OBVIOUS
  <2>2. M(<<>>) = <<>>
    BY MappedOfNothing
  <2>3. <<>> \o M(t) = M(t)
    <3> HIDE DEF M
    <3> QED  BY <1>0
  <2> QED  BY <2>1, <2>2, <2>3
<1>2. ASSUME NEW c \in S, NEW u \in Seq(S), u \in T PROVE <<c>> \o u \in T
  <2>1. (<<c>> \o u) \o t = <<c>> \o (u \o t) /\ u \o t \in Seq(S) /\ <<c>> \o u \in Seq(S)
    <3>1. <<c>> \in Seq(S)
      OBVIOUS
    <3> QED  BY <3>1, ConcatAssociative, ConcatProperties
  <2>2. M(<<c>> \o (u \o t)) = F[c] \o M(u \o t) /\ M(<<c>> \o u) = F[c] \o M(u)
    <3>1. \A v \in Seq(S) : Mapped(<<c>> \o v, F) = F[c] \o Mapped(v, F)
      BY MappedUnfolds
    <3>2. u \o t \in Seq(S)
      BY <2>1
    <3> QED  BY <3>1, <3>2
  <2>3. M(u \o t) = M(u) \o M(t)
    BY <1>2
  <2>4. F[c] \in Seq(R) /\ M(u) \in Seq(R) /\ M(t) \in Seq(R)
    BY <1>0
  <2> HIDE DEF M
  <2>5. F[c] \o (M(u) \o M(t)) = (F[c] \o M(u)) \o M(t)
    BY <2>4, ConcatAssociative
  <2>6. M((<<c>> \o u) \o t) = M(<<c>> \o u) \o M(t)
    BY <2>1, <2>2, <2>3, <2>5
  <2> QED  BY <2>1, <2>6 DEF M
<1>3. \A u \in Seq(S) : u \in T
  <2> HIDE DEF T
  <2> QED  BY <1>1, <1>2, ListInduction
<1> QED  BY <1>3

-----------------------------------------------------------------------------
(* A C string, byte by byte.                                               *)
CStringPiece(s) == [i \in DOMAIN s |-> IF s[i] = 0 THEN <<>> ELSE <<s[i]>>]
CStringNext(s) == [i \in DOMAIN s |-> IF s[i] = 0 THEN Len(s) + 1 ELSE i + 1]

(* A C string is a scan.                                                   *)
LEMMA CStringIs == \A s : CString(s) = Scan(CStringPiece(s), CStringNext(s))
  BY DEF CString, CStringPiece, CStringNext

(* Reading a C string goes on until the first 0.                           *)
LEMMA CStringScans ==
    ASSUME NEW s \in Seq(Byte)
    PROVE  /\ CStringPiece(s) \in Seq(Seq(Byte)) /\ Len(CStringPiece(s)) = Len(s)
           /\ \A i \in 1 .. Len(s) :
                 /\ CStringPiece(s)[i] = (IF s[i] = 0 THEN <<>> ELSE <<s[i]>>)
                 /\ CStringNext(s)[i] = (IF s[i] = 0 THEN Len(s) + 1 ELSE i + 1)
           /\ Advances(CStringPiece(s), CStringNext(s))
<1> DEFINE p == CStringPiece(s)
           q == CStringNext(s)
<1>1. Len(s) \in Nat /\ DOMAIN s = 1 .. Len(s) /\ \A i \in 1 .. Len(s) : s[i] \in Byte
  OBVIOUS
<1>2. p \in [1 .. Len(s) -> Seq(Byte)]
  BY <1>1 DEF CStringPiece
<1>3. p \in Seq(Seq(Byte)) /\ Len(p) = Len(s)
  <2> HIDE DEF p
  <2> QED  BY <1>1, <1>2, FunctionIsSequence
<1>4. \A i \in 1 .. Len(s) : /\ p[i] = (IF s[i] = 0 THEN <<>> ELSE <<s[i]>>)
                             /\ q[i] = (IF s[i] = 0 THEN Len(s) + 1 ELSE i + 1)
  BY <1>1 DEF CStringPiece, CStringNext
<1> HIDE DEF p, q
<1>5. Advances(p, q)
  <2>1. ASSUME NEW i \in 1 .. Len(s) PROVE q[i] \in i + 1 .. Len(s) + 1
    <3>1. q[i] = Len(s) + 1 \/ q[i] = i + 1
      BY <1>4
    <3>2. Len(s) + 1 \in i + 1 .. Len(s) + 1 /\ i + 1 \in i + 1 .. Len(s) + 1
      BY <1>1
    <3> QED  BY <3>1, <3>2
  <2> QED  BY <1>3, <2>1 DEF Advances
<1> QED  BY <1>3, <1>4, <1>5 DEF p, q

(* A C string is text.                                                     *)
LEMMA CStringTypes ==
    ASSUME NEW s \in Seq(Byte) PROVE CString(s) \in Seq(Byte)
  BY CStringIs, CStringScans, ScanTypes

(* The C string of the empty text.                                         *)
LEMMA CStringOfNothing == CString(<<>>) = <<>>
<1> DEFINE s == <<>>
<1>1. s \in Seq(Byte) /\ Len(s) = 0
  OBVIOUS
<1> HIDE DEF s
<1>2. CStringPiece(s) \in Seq(Seq(Byte)) /\ Len(CStringPiece(s)) = 0
  BY <1>1, CStringScans
<1>3. CString(s) = <<>>
  BY <1>2, CStringIs, ScanOfNothing
<1> QED  BY <1>3 DEF s

(* A C string ends at a 0, and goes on after any other byte.               *)
LEMMA CStringUnfolds ==
    ASSUME NEW c \in Byte, NEW t \in Seq(Byte)
    PROVE  CString(<<c>> \o t) = IF c = 0 THEN <<>> ELSE <<c>> \o CString(t)
<1> DEFINE s == <<c>> \o t
           p == CStringPiece(s)
           q == CStringNext(s)
<1>1. /\ s \in Seq(Byte) /\ Len(s) = Len(t) + 1 /\ Len(t) \in Nat /\ s[1] = c
      /\ \A i \in 1 .. Len(t) : s[i + 1] = t[i]
  BY FirstAndRest
<1> HIDE DEF s
<1>2. /\ p \in Seq(Seq(Byte)) /\ Len(p) = Len(s)
      /\ \A i \in 1 .. Len(s) :
            /\ p[i] = (IF s[i] = 0 THEN <<>> ELSE <<s[i]>>)
            /\ q[i] = (IF s[i] = 0 THEN Len(s) + 1 ELSE i + 1)
      /\ Advances(p, q)
  BY <1>1, CStringScans
<1>3. CString(s) = Scan(p, q)
  BY CStringIs
<1>4. CASE c = 0
  <2> DEFINE p2 == <<>>
             q2 == <<>>
             n == Len(s)
  <2>1. p2 \in Seq(Seq(Byte)) /\ Len(p2) = 0
    OBVIOUS
  <2> HIDE DEF p, q, p2, q2
  <2>2. p # <<>> /\ n \in Nat /\ q[1] = n + 1 /\ p[1] = <<>>
    BY <1>1, <1>2, <1>4
  <2>3. Continues(p, q, n, p2, q2)
    BY <1>1, <1>2, <2>1 DEF Continues
  <2> HIDE DEF n
  <2>4. Scan(p, q) = p[1] \o Scan(p2, q2) /\ Scan(p2, q2) \in Seq(Byte)
    BY <1>2, <2>1, <2>2, <2>3, ScanUnfolds
  <2>5. Scan(p2, q2) = <<>>
    BY <2>1, ScanOfNothing
  <2>6. Scan(p, q) = <<>>
    BY <2>2, <2>4, <2>5
  <2> QED  BY <1>3, <1>4, <2>6 DEF s
<1>5. CASE c # 0
  <2> DEFINE p2 == CStringPiece(t)
             q2 == CStringNext(t)
  <2>1. /\ p2 \in Seq(Seq(Byte)) /\ Len(p2) = Len(t)
        /\ \A i \in 1 .. Len(t) :
              /\ p2[i] = (IF t[i] = 0 THEN <<>> ELSE <<t[i]>>)
              /\ q2[i] = (IF t[i] = 0 THEN Len(t) + 1 ELSE i + 1)
        /\ Advances(p2, q2)
    BY CStringScans
  <2>2. CString(t) = Scan(p2, q2)
    BY CStringIs
  <2> HIDE DEF p, q, p2, q2
  <2>3. Continues(p, q, 1, p2, q2)
    <3>1. ASSUME NEW i \in 1 .. Len(p2)
          PROVE  p2[i] = p[i + 1] /\ q2[i] = q[i + 1] - 1
      <4>1. i \in 1 .. Len(t) /\ i + 1 \in 1 .. Len(s) /\ t[i] = s[i + 1]
        <5>1. i \in 1 .. Len(t)
          BY <2>1
        <5>2. i + 1 \in 1 .. Len(s)
          BY <1>1, <5>1
        <5> QED  BY <1>1, <5>1, <5>2
      <4>2. /\ p2[i] = (IF t[i] = 0 THEN <<>> ELSE <<t[i]>>)
            /\ q2[i] = (IF t[i] = 0 THEN Len(t) + 1 ELSE i + 1)
            /\ p[i + 1] = (IF s[i + 1] = 0 THEN <<>> ELSE <<s[i + 1]>>)
            /\ q[i + 1] = (IF s[i + 1] = 0 THEN Len(s) + 1 ELSE (i + 1) + 1)
        BY <1>2, <2>1, <4>1
      <4>3. i + 1 = ((i + 1) + 1) - 1 /\ Len(t) + 1 = (Len(s) + 1) - 1
        BY <1>1, <4>1
      <4> QED  BY <4>1, <4>2, <4>3
    <3>2. Len(p2) = Len(p) - 1
      BY <1>1, <1>2, <2>1
    <3> QED  BY <3>1, <3>2 DEF Continues
  <2>4. p # <<>> /\ 1 \in Nat /\ q[1] = 1 + 1 /\ p[1] = <<c>>
    BY <1>1, <1>2, <1>5
  <2>5. Scan(p, q) = p[1] \o Scan(p2, q2) /\ Scan(p2, q2) \in Seq(Byte)
    BY <1>2, <2>1, <2>3, <2>4, ScanUnfolds
  <2> QED  BY <1>3, <1>5, <2>2, <2>4, <2>5 DEF s
<1> QED  BY <1>4, <1>5

-----------------------------------------------------------------------------
(* Recoded on an ASCII byte, and decode_url on what begins with one.       *)
LEMMA RecodedAscii ==
    ASSUME NEW From, NEW To, IsEncoding(From), IsEncoding(To),
           NEW c \in Byte, c < 128, NEW t \in Seq(Byte)
    PROVE  Recoded(<<c>> \o t, From, To) = <<c>> \o Recoded(t, From, To)
<1> DEFINE s == <<c>> \o t
<1>1. s \in Seq(Byte) /\ Len(s) # 0 /\ s[1] = c /\ Drop(s, 1) = t /\ Len(s) \in Nat
  <2>1. /\ s \in Seq(Byte) /\ Len(s) = Len(t) + 1 /\ Len(t) \in Nat
        /\ s[1] = c /\ Drop(s, 1) = t
    BY FirstAndRest
  <2> HIDE DEF s
  <2> QED  BY <2>1
<1> HIDE DEF s
<1>2. SubSeq(s, 1, Len(s)) = s
  BY <1>1
<1>3. ASSUME NEW w \in Wide, StartsWith(s, From[w]) PROVE FALSE
  <2>1. From[w] \in Seq(Byte) /\ Len(From[w]) # 0 /\ From[w][1] > 127
    BY DEF IsEncoding
  <2>2. \A i \in 1 .. Len(From[w]) : s[i] = From[w][i]
    BY <1>1, <1>3, <2>1, StartsWithIs
  <2>3. s[1] = From[w][1]
    BY <2>1, <2>2
  <2>4. c \in Int
    BY DEF Byte
  <2> QED  BY <1>1, <2>1, <2>3, <2>4
<1>4. WideAt(s, 1, From) = {}
  BY <1>2, <1>3 DEF WideAt
<1>5. RecodedLen(s, 1, From) = 1 /\ RecodedPart(s, 1, From, To) = <<c>>
  BY <1>1, <1>4 DEF RecodedLen, RecodedPart
<1>6. Recoded(s, From, To)
        = RecodedPart(s, 1, From, To) \o Recoded(Drop(s, RecodedLen(s, 1, From)), From, To)
  BY <1>1, RecodedUnfolds
<1> QED  BY <1>1, <1>5, <1>6 DEF s

(* decode_url keeps a byte that is no '%'.                                 *)
LEMMA DecodeOther ==
    ASSUME NEW c \in Byte, c # Percent, NEW t \in Seq(Byte)
    PROVE  DecodeUrl(<<c>> \o t) = <<c>> \o DecodeUrl(t)
<1>1. (<<c>> \o t)[1] = c
  BY FirstAndRest
<1>2. EscapeAt(<<c>> \o t, 1) = {}
  BY <1>1 DEF EscapeAt
<1> QED  BY <1>2, DecodePlain

(* Three bytes in front of a text.                                         *)
Three(a, b, c, t) == <<a>> \o (<<b>> \o (<<c>> \o t))

(* Three bytes in front of a text: type, length, members, and the text.    *)
LEMMA ThreeProperties ==
    ASSUME NEW a \in Byte, NEW b \in Byte, NEW c \in Byte, NEW t \in Seq(Byte)
    PROVE  LET s == Three(a, b, c, t)
           IN  /\ s \in Seq(Byte) /\ Len(s) = Len(t) + 3 /\ Len(t) \in Nat
               /\ s[1] = a /\ s[2] = b /\ s[3] = c /\ Drop(s, 3) = t
<1> DEFINE u == <<c>> \o t
           v == <<b>> \o u
           s == <<a>> \o v
           d == Drop(s, 3)
<1>1. /\ u \in Seq(Byte) /\ Len(u) = Len(t) + 1 /\ Len(t) \in Nat /\ u[1] = c
      /\ \A i \in 1 .. Len(t) : u[i + 1] = t[i]
  BY FirstAndRest
<1> HIDE DEF u
<1>2. /\ v \in Seq(Byte) /\ Len(v) = Len(u) + 1 /\ Len(u) \in Nat /\ v[1] = b
      /\ \A i \in 1 .. Len(u) : v[i + 1] = u[i]
  BY <1>1, FirstAndRest
<1> HIDE DEF v
<1>3. /\ s \in Seq(Byte) /\ Len(s) = Len(v) + 1 /\ Len(v) \in Nat /\ s[1] = a
      /\ \A i \in 1 .. Len(v) : s[i + 1] = v[i]
  BY <1>2, FirstAndRest
<1> HIDE DEF s
<1>4. Len(s) = Len(t) + 3 /\ s[2] = b /\ s[3] = c
  <2>1. Len(s) = Len(t) + 3
    BY <1>1, <1>2, <1>3
  <2>2. s[1 + 1] = v[1] /\ s[2 + 1] = v[2] /\ v[1 + 1] = u[1]
    BY <1>1, <1>2, <1>3
  <2> QED  BY <1>1, <1>2, <2>1, <2>2
<1>5. d \in Seq(Byte) /\ Len(d) = Len(s) - 3 /\ \A i \in 1 .. Len(s) - 3 : d[i] = s[i + 3]
  <2>1. 3 \in 0 .. Len(s)
    BY <1>1, <1>4
  <2> HIDE DEF d
  <2> QED  BY <1>3, <2>1, DropProperties DEF d
<1> HIDE DEF d
<1>6. ASSUME NEW i \in 1 .. Len(t) PROVE d[i] = t[i]
  <2>1. i + 3 = ((i + 1) + 1) + 1 /\ (i + 1) + 1 \in 1 .. Len(v) /\ i + 1 \in 1 .. Len(u)
    BY <1>1, <1>2
  <2>2. s[((i + 1) + 1) + 1] = v[(i + 1) + 1] /\ v[(i + 1) + 1] = u[i + 1] /\ u[i + 1] = t[i]
    BY <1>1, <1>2, <1>3, <2>1
  <2>3. d[i] = s[i + 3]
    BY <1>1, <1>4, <1>5
  <2> QED  BY <2>1, <2>2, <2>3
<1>7. d = t
  BY <1>1, <1>4, <1>5, <1>6, SeqEqual
<1> QED  BY <1>1, <1>3, <1>4, <1>7 DEF s, v, u, d, Three

-----------------------------------------------------------------------------
(* What a text is split into where it is read.                             *)
LEMMA StartsWithSplits ==
    ASSUME NEW S, NEW s \in Seq(S), NEW t \in Seq(S), StartsWith(s, t)
    PROVE  Drop(s, Len(t)) \in Seq(S) /\ s = t \o Drop(s, Len(t))
<1> DEFINE d == Drop(s, Len(t))
           r == t \o d
<1>1. /\ Len(t) \in 0 .. Len(s) /\ Len(s) \in Nat /\ Len(t) \in Nat
      /\ \A i \in 1 .. Len(t) : s[i] = t[i]
  BY StartsWithIs
<1>2. d \in Seq(S) /\ Len(d) = Len(s) - Len(t) /\ \A i \in 1 .. Len(s) - Len(t) : d[i] = s[i + Len(t)]
  BY <1>1, DropProperties
<1> HIDE DEF d
<1>3. /\ r \in Seq(S) /\ Len(r) = Len(t) + Len(d)
      /\ \A i \in 1 .. Len(t) : r[i] = t[i]
      /\ \A i \in 1 .. Len(d) : r[Len(t) + i] = d[i]
  BY <1>2, Front
<1> HIDE DEF r
<1>4. ASSUME NEW i \in 1 .. Len(s) PROVE s[i] = r[i]
  <2>1. CASE i \in 1 .. Len(t)
    BY <1>1, <1>3, <2>1
  <2>2. CASE ~(i \in 1 .. Len(t))
    <3>1. i - Len(t) \in 1 .. Len(d) /\ i - Len(t) \in 1 .. Len(s) - Len(t)
          /\ Len(t) + (i - Len(t)) = i /\ (i - Len(t)) + Len(t) = i
      BY <1>1, <1>2, <2>2
    <3> QED  BY <1>2, <1>3, <3>1
  <2> QED  BY <2>1, <2>2
<1>5. Len(s) = Len(r)
  BY <1>1, <1>2, <1>3
<1>6. s = r
  BY <1>3, <1>4, <1>5, SeqEqual
<1> QED  BY <1>2, <1>6 DEF r, d

(* What stands for a byte that begins no character.                        *)
OrMark(c) == IF c < 128 THEN c ELSE 63

(* What a text begins with where a conversion reads it: a character, or a  *)
(* byte that is kept or becomes '?'.                                       *)
LEMMA RecodedCases ==
    ASSUME NEW From, NEW To, IsEncoding(From), IsEncoding(To), NEW s \in Seq(Byte), Len(s) # 0
    PROVE  \/ \E w \in Wide, t \in Seq(Byte) :
                 s = From[w] \o t /\ Recoded(s, From, To) = To[w] \o Recoded(t, From, To)
           \/ \E c \in Byte, t \in Seq(Byte) :
                 /\ s = <<c>> \o t
                 /\ Recoded(s, From, To) = <<OrMark(c)>> \o Recoded(t, From, To)
<1> DEFINE W == WideAt(s, 1, From)
<1>1. SubSeq(s, 1, Len(s)) = s
  OBVIOUS
<1>2. Recoded(s, From, To)
        = RecodedPart(s, 1, From, To) \o Recoded(Drop(s, RecodedLen(s, 1, From)), From, To)
  BY RecodedUnfolds
<1>3. CASE W # {}
  <2> DEFINE w == OneOf(W)
             t == Drop(s, Len(From[w]))
  <2>1. w \in W
    BY <1>3 DEF OneOf
  <2>2. w \in Wide /\ StartsWith(s, From[w])
    BY <1>1, <2>1 DEF WideAt
  <2>3. RecodedLen(s, 1, From) = Len(From[w]) /\ RecodedPart(s, 1, From, To) = To[w]
    BY <1>3 DEF RecodedLen, RecodedPart
  <2> HIDE DEF w
  <2>4. From[w] \in Seq(Byte)
    BY <2>2 DEF IsEncoding
  <2>5. t \in Seq(Byte) /\ s = From[w] \o t
    BY <2>2, <2>4, StartsWithSplits
  <2>6. Recoded(s, From, To) = To[w] \o Recoded(t, From, To)
    BY <1>2, <2>3
  <2> HIDE DEF t
  <2> QED  BY <2>2, <2>5, <2>6
<1>4. CASE W = {}
  <2> DEFINE c == s[1]
             t == Drop(s, 1)
  <2>1. c \in Byte /\ t \in Seq(Byte) /\ s = <<c>> \o t
    BY Split
  <2>2. RecodedLen(s, 1, From) = 1 /\ RecodedPart(s, 1, From, To) = <<OrMark(c)>>
    BY <1>4 DEF RecodedLen, RecodedPart, OrMark
  <2>3. Recoded(s, From, To) = <<OrMark(c)>> \o Recoded(t, From, To)
    BY <1>2, <2>2
  <2> HIDE DEF c, t
  <2> QED  BY <2>1, <2>3
<1> QED  BY <1>3, <1>4

(* What a text begins with where decode_url reads it: a byte that is kept, *)
(* or an escape.                                                           *)
LEMMA DecodeCases ==
    ASSUME NEW s \in Seq(Byte), Len(s) # 0
    PROVE  \/ \E c \in Byte, t \in Seq(Byte) :
                 s = <<c>> \o t /\ EscapeAt(s, 1) = {} /\ DecodeUrl(s) = <<c>> \o DecodeUrl(t)
           \/ \E a, b, v \in Byte, t \in Seq(Byte) :
                 /\ s = Three(Percent, a, b, t) /\ HexValue(a, b) = {v}
                 /\ DecodeUrl(s) = <<v>> \o DecodeUrl(t)
<1> DEFINE c == s[1]
           t == Drop(s, 1)
<1>1. c \in Byte /\ t \in Seq(Byte) /\ s = <<c>> \o t /\ Len(s) = Len(t) + 1
  BY Split
<1>2. CASE EscapeAt(s, 1) = {}
  <2>1. EscapeAt(<<c>> \o t, 1) = {}
    BY <1>1, <1>2
  <2>2. DecodeUrl(<<c>> \o t) = <<c>> \o DecodeUrl(t)
    BY <1>1, <2>1, DecodePlain
  <2> HIDE DEF c, t
  <2> QED  BY <1>1, <1>2, <2>2
<1>3. CASE EscapeAt(s, 1) # {}
  <2>1. c = Percent /\ HasTwoMore(s, 1) /\ EscapeAt(s, 1) = HexValue(s[1 + 1], s[1 + 2])
    BY <1>3 DEF EscapeAt
  <2> DEFINE a == s[2]
             b == s[3]
             r == Drop(s, 3)
  <2>2. Len(s) \in Nat /\ Len(s) >= 3 /\ a \in Byte /\ b \in Byte
    BY <2>1 DEF HasTwoMore
  <2>3. EscapeAt(s, 1) = HexValue(a, b)
    BY <2>1
  <2>4. PICK v : HexValue(a, b) = {v}
    BY <1>3, <2>3, HexValueOne
  <2>5. EscapeAt(s, 1) = {v}
    BY <2>3, <2>4
  <2>6. v \in Byte /\ DecodeUrl(s) = <<v>> \o DecodeUrl(r)
    BY <2>5, DecodeEscape
  <2>7. /\ r \in Seq(Byte) /\ Len(r) = Len(s) - 3
        /\ \A i \in 1 .. Len(s) - 3 : r[i] = s[i + 3]
    <3>1. 3 \in 0 .. Len(s)
      BY <2>2
    <3> QED  BY <3>1, DropProperties
  <2>8. s = Three(Percent, a, b, r)
    <3> DEFINE w == Three(Percent, a, b, r)
               d == Drop(w, 3)
    <3>1. /\ w \in Seq(Byte) /\ Len(w) = Len(r) + 3 /\ Len(r) \in Nat
          /\ w[1] = Percent /\ w[2] = a /\ w[3] = b /\ d = r
      <4> HIDE DEF a, b, r
      <4>1. Percent \in Byte
        BY DEF Percent, Byte
      <4> QED  BY <2>2, <2>7, <4>1, ThreeProperties
    <3> HIDE DEF w
    <3>2. \A i \in 1 .. Len(w) - 3 : d[i] = w[i + 3]
      <4>1. 3 \in 0 .. Len(w)
        BY <3>1
      <4> QED  BY <3>1, <4>1, DropProperties
    <3> HIDE DEF d, r
    <3>3. ASSUME NEW i \in 1 .. Len(s) PROVE s[i] = w[i]
      <4>1. CASE i \in 1 .. 3
        BY <1>1, <2>1, <3>1, <4>1
      <4>2. CASE ~(i \in 1 .. 3)
        <5>1. i - 3 \in 1 .. Len(s) - 3 /\ i - 3 \in 1 .. Len(w) - 3 /\ (i - 3) + 3 = i
          BY <2>2, <2>7, <3>1, <4>2
        <5> QED  BY <2>7, <3>1, <3>2, <5>1
      <4> QED  BY <4>1, <4>2
    <3>4. Len(s) = Len(w)
      BY <2>2, <2>7, <3>1
    <3>5. s = w
      BY <3>1, <3>3, <3>4, SeqEqual
    <3> QED  BY <3>5 DEF w
  <2> HIDE DEF a, b, r
  <2> QED  BY <2>2, <2>4, <2>6, <2>7, <2>8
<1> QED  BY <1>2, <1>3

-----------------------------------------------------------------------------
(* A text that holds a byte of S.                                          *)
Holds(s, S) == \E i \in 1 .. Len(s) : s[i] \in S

(* What two texts hold, one after the other.                               *)
LEMMA HoldsFront ==
    ASSUME NEW R, NEW S, NEW u \in Seq(R), NEW t \in Seq(R)
    PROVE  Holds(u \o t, S) <=> Holds(u, S) \/ Holds(t, S)
<1> DEFINE s == u \o t
<1>1. /\ s \in Seq(R) /\ Len(s) = Len(u) + Len(t)
      /\ \A i \in 1 .. Len(u) : s[i] = u[i]
      /\ \A i \in 1 .. Len(t) : s[Len(u) + i] = t[i]
  BY Front
<1> HIDE DEF s
<1>2. Len(u) \in Nat /\ Len(t) \in Nat
  OBVIOUS
<1>3. ASSUME Holds(s, S) PROVE Holds(u, S) \/ Holds(t, S)
  <2>1. PICK i \in 1 .. Len(s) : s[i] \in S
    BY <1>3 DEF Holds
  <2>2. CASE i \in 1 .. Len(u)
    BY <1>1, <2>1, <2>2 DEF Holds
  <2>3. CASE ~(i \in 1 .. Len(u))
    <3>1. i - Len(u) \in 1 .. Len(t) /\ Len(u) + (i - Len(u)) = i
      BY <1>1, <1>2, <2>3
    <3>2. s[Len(u) + (i - Len(u))] = t[i - Len(u)]
      BY <1>1, <3>1
    <3>3. t[i - Len(u)] \in S
      BY <2>1, <3>1, <3>2
    <3> QED  BY <3>1, <3>3 DEF Holds
  <2> QED  BY <2>2, <2>3
<1>4. ASSUME Holds(u, S) PROVE Holds(s, S)
  <2>1. PICK i \in 1 .. Len(u) : u[i] \in S
    BY <1>4 DEF Holds
  <2>2. i \in 1 .. Len(s)
    BY <1>1, <1>2
  <2> QED  BY <1>1, <2>1, <2>2 DEF Holds
<1>5. ASSUME Holds(t, S) PROVE Holds(s, S)
  <2>1. PICK i \in 1 .. Len(t) : t[i] \in S
    BY <1>5 DEF Holds
  <2>2. Len(u) + i \in 1 .. Len(s)
    BY <1>1, <1>2
  <2>3. s[Len(u) + i] \in S
    BY <1>1, <2>1
  <2> QED  BY <2>2, <2>3 DEF Holds
<1> QED  BY <1>3, <1>4, <1>5 DEF s

(* What a text and the byte in front of it hold.                           *)
LEMMA HoldsFirst ==
    ASSUME NEW R, NEW S, NEW c \in R, NEW t \in Seq(R)
    PROVE  Holds(<<c>> \o t, S) <=> c \in S \/ Holds(t, S)
<1> DEFINE u == <<c>>
<1>1. u \in Seq(R)
  OBVIOUS
<1>2. Holds(u, S) <=> c \in S
  <2>1. Len(u) = 1 /\ u[1] = c
    OBVIOUS
  <2> HIDE DEF u
  <2> QED  BY <2>1 DEF Holds
<1> HIDE DEF u
<1>3. Holds(u \o t, S) <=> Holds(u, S) \/ Holds(t, S)
  BY <1>1, HoldsFront
<1> QED  BY <1>2, <1>3 DEF u

-----------------------------------------------------------------------------
(* How many of a text's bytes are '%', '2' or '3', the ones an escape of   *)
(* such a byte is spelled with.                                            *)
Counted == {Percent, 50, 51}
Heavy == [c \in Byte |-> IF c \in Counted THEN <<c>> ELSE <<>>]
Weight(s) == Len(Mapped(s, Heavy))

(* Weight is a number, and 0 for the empty text.                           *)
LEMMA WeightTypes ==
    /\ Heavy \in [Byte -> Seq(Byte)]
    /\ \A s \in Seq(Byte) : Weight(s) \in Nat /\ Mapped(s, Heavy) \in Seq(Byte)
    /\ Weight(<<>>) = 0
<1>1. Heavy \in [Byte -> Seq(Byte)]
  BY DEF Heavy
<1>2. \A s \in Seq(Byte) : Mapped(s, Heavy) \in Seq(Byte)
  BY <1>1, MappedTypes
<1>3. \A s \in Seq(Byte) : Weight(s) \in Nat
  BY <1>2 DEF Weight
<1>4. Mapped(<<>>, Heavy) = <<>>
  BY <1>1, MappedOfNothing
<1> QED  BY <1>1, <1>2, <1>3, <1>4 DEF Weight

(* Weight is additive.                                                     *)
LEMMA WeightFront ==
    ASSUME NEW u \in Seq(Byte), NEW t \in Seq(Byte)
    PROVE  Weight(u \o t) = Weight(u) + Weight(t)
<1>1. Mapped(u \o t, Heavy) = Mapped(u, Heavy) \o Mapped(t, Heavy)
  BY WeightTypes, MappedFront
<1>2. Mapped(u, Heavy) \in Seq(Byte) /\ Mapped(t, Heavy) \in Seq(Byte)
  BY WeightTypes
<1> QED  BY <1>1, <1>2, ConcatProperties DEF Weight

(* The weight of a text with one more byte in front.                       *)
LEMMA WeightFirst ==
    ASSUME NEW c \in Byte, NEW t \in Seq(Byte)
    PROVE  Weight(<<c>> \o t) = Weight(t) + (IF c \in Counted THEN 1 ELSE 0)
<1>1. Mapped(<<c>> \o t, Heavy) = Heavy[c] \o Mapped(t, Heavy)
  <2>1. Heavy \in [Byte -> Seq(Byte)]
    BY WeightTypes
  <2> QED  BY <2>1, MappedUnfolds
<1>2. Mapped(t, Heavy) \in Seq(Byte) /\ Heavy[c] \in Seq(Byte)
  BY WeightTypes
<1>3. Len(Mapped(<<c>> \o t, Heavy)) = Len(Heavy[c]) + Len(Mapped(t, Heavy))
  BY <1>1, <1>2, ConcatProperties
<1>4. Len(Heavy[c]) = IF c \in Counted THEN 1 ELSE 0
  BY DEF Heavy
<1>5. Len(Mapped(t, Heavy)) \in Nat
  BY <1>2
<1> QED  BY <1>3, <1>4, <1>5 DEF Weight

(* A text without such a byte has no weight.                               *)
LEMMA WeightOfNone ==
    \A s \in Seq(Byte) : (\A i \in 1 .. Len(s) : s[i] \notin Counted) => Weight(s) = 0
<1> DEFINE T == {s \in Seq(Byte) : ~Holds(s, Counted) => Weight(s) = 0}
<1>1. <<>> \in T
  BY WeightTypes
<1>2. ASSUME NEW c \in Byte, NEW t \in Seq(Byte), t \in T PROVE <<c>> \o t \in T
  <2>1. Weight(<<c>> \o t) = Weight(t) + (IF c \in Counted THEN 1 ELSE 0) /\ Weight(t) \in Nat
    BY WeightFirst, WeightTypes
  <2>2. Holds(<<c>> \o t, Counted) <=> c \in Counted \/ Holds(t, Counted)
    BY HoldsFirst
  <2>3. <<c>> \o t \in Seq(Byte)
    BY FirstAndRest
  <2> QED  BY <1>2, <2>1, <2>2, <2>3
<1>3. \A s \in Seq(Byte) : s \in T
  <2> HIDE DEF T
  <2> QED  BY <1>1, <1>2, ListInduction
<1> QED  BY <1>3 DEF Holds

(* Conversion of code pages adds no weight, and loses no byte below 64.    *)
LEMMA EncodedCharacter ==
    ASSUME NEW From, IsEncoding(From), NEW w \in Wide
    PROVE  /\ From[w] \in Seq(Byte) /\ Len(From[w]) # 0 /\ Weight(From[w]) = 0
           /\ ~Holds(From[w], 0 .. 63)
<1>1. /\ From[w] \in Seq(Byte) /\ Len(From[w]) # 0
      /\ \A i \in 1 .. Len(From[w]) : From[w][i] >= 64
  BY DEF IsEncoding
<1>2. \A i \in 1 .. Len(From[w]) : From[w][i] \notin Counted
  BY <1>1 DEF Counted, Percent
<1>3. \A i \in 1 .. Len(From[w]) : From[w][i] \notin 0 .. 63
  <2>1. \A x \in 0 .. 63 : ~(x >= 64)
    OBVIOUS
  <2> QED  BY <1>1, <2>1
<1> QED  BY <1>1, <1>2, <1>3, WeightOfNone DEF Holds

(* A conversion adds no weight: its '?' does not count.                    *)
LEMMA RecodedWeight ==
    ASSUME NEW From, NEW To, IsEncoding(From), IsEncoding(To)
    PROVE  \A s \in Seq(Byte) : Weight(Recoded(s, From, To)) <= Weight(s)
<1> DEFINE R(s) == Recoded(s, From, To)
           T == {s \in Seq(Byte) : Weight(R(s)) <= Weight(s)}
<1>0. \A s \in Seq(Byte) : R(s) \in Seq(Byte) /\ Weight(R(s)) \in Nat /\ Weight(s) \in Nat
  BY RecodedTypes, WeightTypes
<1>1. ASSUME NEW s \in Seq(Byte), \A t \in Seq(Byte) : Len(t) < Len(s) => t \in T
      PROVE  s \in T
  <2>1. CASE Len(s) = 0
    <3>1. s = <<>>
      BY <2>1
    <3>2. R(<<>>) = <<>>
      BY RecodedOfNothing
    <3>3. Weight(R(s)) = 0 /\ Weight(s) = 0
      BY <3>1, <3>2, WeightTypes
    <3> QED  BY <3>3
  <2>2. ASSUME NEW w \in Wide, NEW t \in Seq(Byte), s = From[w] \o t, R(s) = To[w] \o R(t)
        PROVE  s \in T
    <3>1. /\ From[w] \in Seq(Byte) /\ Len(From[w]) # 0 /\ Weight(From[w]) = 0
          /\ To[w] \in Seq(Byte) /\ Weight(To[w]) = 0
      BY EncodedCharacter
    <3>2. Len(s) = Len(From[w]) + Len(t) /\ Len(t) \in Nat /\ Len(From[w]) \in Nat
      BY <2>2, <3>1, ConcatProperties
    <3>3. t \in T
      BY <1>1, <3>1, <3>2
    <3>4. Weight(s) = Weight(From[w]) + Weight(t) /\ Weight(R(s)) = Weight(To[w]) + Weight(R(t))
      <4> HIDE DEF R
      <4> QED  BY <1>0, <2>2, <3>1, WeightFront
    <3>5. Weight(R(t)) <= Weight(t)
      BY <3>3
    <3> HIDE DEF R
    <3>6. Weight(R(s)) <= Weight(s)
      BY <1>0, <3>1, <3>4, <3>5
    <3> QED  BY <3>6 DEF R
  <2>3. ASSUME NEW c \in Byte, NEW t \in Seq(Byte), s = <<c>> \o t,
               R(s) = <<OrMark(c)>> \o R(t)
        PROVE  s \in T
    <3> DEFINE d == OrMark(c)
    <3>1. Len(s) = Len(t) + 1 /\ Len(t) \in Nat
      BY <2>3, FirstAndRest
    <3>2. t \in T
      BY <1>1, <3>1
    <3>3. d \in Byte /\ (d \in Counted => c \in Counted)
      <4>1. 63 \in Byte /\ 63 \notin Counted
        BY DEF Byte, Counted, Percent
      <4> QED  BY <4>1 DEF OrMark
    <3> HIDE DEF d, R
    <3>4. /\ Weight(s) = Weight(t) + (IF c \in Counted THEN 1 ELSE 0)
          /\ Weight(R(s)) = Weight(R(t)) + (IF d \in Counted THEN 1 ELSE 0)
      BY <1>0, <2>3, <3>3, WeightFirst DEF d
    <3>5. Weight(R(t)) <= Weight(t)
      BY <3>2
    <3>6. Weight(R(s)) <= Weight(s)
      BY <1>0, <3>3, <3>4, <3>5
    <3> QED  BY <3>6 DEF R
  <2>4. CASE Len(s) # 0
    <3>1. \/ \E w \in Wide, t \in Seq(Byte) : s = From[w] \o t /\ R(s) = To[w] \o R(t)
          \/ \E c \in Byte, t \in Seq(Byte) :
                s = <<c>> \o t /\ R(s) = <<OrMark(c)>> \o R(t)
      BY <2>4, RecodedCases
    <3> HIDE DEF R, T
    <3> QED  BY <2>2, <2>3, <3>1
  <2> QED  BY <2>1, <2>4
<1>2. \A s \in Seq(Byte) : s \in T
  <2> HIDE DEF T
  <2> QED  BY <1>1, LengthInduction
<1> QED  BY <1>2

(* A conversion keeps the bytes below 64: no character has one.            *)
LEMMA RecodedHolds ==
    ASSUME NEW From, NEW To, IsEncoding(From), IsEncoding(To), NEW S, S \subseteq 0 .. 63
    PROVE  \A s \in Seq(Byte) : Holds(s, S) => Holds(Recoded(s, From, To), S)
<1> DEFINE R(s) == Recoded(s, From, To)
           T == {s \in Seq(Byte) : Holds(s, S) => Holds(R(s), S)}
<1>0. \A s \in Seq(Byte) : R(s) \in Seq(Byte)
  BY RecodedTypes
<1>1. ASSUME NEW s \in Seq(Byte), \A t \in Seq(Byte) : Len(t) < Len(s) => t \in T
      PROVE  s \in T
  <2>1. CASE Len(s) = 0
    BY <2>1 DEF Holds
  <2>2. ASSUME NEW w \in Wide, NEW t \in Seq(Byte), s = From[w] \o t, R(s) = To[w] \o R(t)
        PROVE  s \in T
    <3>1. /\ From[w] \in Seq(Byte) /\ Len(From[w]) # 0 /\ ~Holds(From[w], S)
          /\ To[w] \in Seq(Byte)
      <4>1. From[w] \in Seq(Byte) /\ Len(From[w]) # 0 /\ ~Holds(From[w], 0 .. 63) /\ To[w] \in Seq(Byte)
        BY EncodedCharacter
      <4> QED  BY <4>1 DEF Holds
    <3>2. Len(s) = Len(From[w]) + Len(t) /\ Len(t) \in Nat /\ Len(From[w]) \in Nat
      BY <2>2, <3>1, ConcatProperties
    <3>3. t \in T
      BY <1>1, <3>1, <3>2
    <3>4. /\ Holds(s, S) <=> Holds(From[w], S) \/ Holds(t, S)
          /\ Holds(R(s), S) <=> Holds(To[w], S) \/ Holds(R(t), S)
      <4> HIDE DEF R
      <4> QED  BY <1>0, <2>2, <3>1, HoldsFront
    <3> QED  BY <3>1, <3>3, <3>4
  <2>3. ASSUME NEW c \in Byte, NEW t \in Seq(Byte), s = <<c>> \o t,
               R(s) = <<OrMark(c)>> \o R(t)
        PROVE  s \in T
    <3> DEFINE d == OrMark(c)
    <3>1. Len(s) = Len(t) + 1 /\ Len(t) \in Nat
      BY <2>3, FirstAndRest
    <3>2. t \in T
      BY <1>1, <3>1
    <3>3. d \in Byte /\ (c \in S => d \in S)
      <4>1. 63 \in Byte
        BY DEF Byte
      <4>2. c \in S => c < 128
        OBVIOUS
      <4> QED  BY <4>1, <4>2 DEF OrMark
    <3> HIDE DEF d, R
    <3>4. Holds(s, S) <=> c \in S \/ Holds(t, S)
      BY <2>3, HoldsFirst
    <3>5. Holds(R(s), S) <=> d \in S \/ Holds(R(t), S)
      <4>1. R(s) = <<d>> \o R(t) /\ R(t) \in Seq(Byte)
        BY <1>0, <2>3 DEF d
      <4> DEFINE r == R(t)
      <4> HIDE DEF r
      <4>2. r \in Seq(Byte)
        BY <4>1 DEF r
      <4>3. Holds(<<d>> \o r, S) <=> d \in S \/ Holds(r, S)
        BY <3>3, <4>2, HoldsFirst
      <4> QED  BY <4>1, <4>3 DEF r
    <3> QED  BY <3>2, <3>3, <3>4, <3>5
  <2>4. CASE Len(s) # 0
    <3>1. \/ \E w \in Wide, t \in Seq(Byte) : s = From[w] \o t /\ R(s) = To[w] \o R(t)
          \/ \E c \in Byte, t \in Seq(Byte) :
                s = <<c>> \o t /\ R(s) = <<OrMark(c)>> \o R(t)
      BY <2>4, RecodedCases
    <3> HIDE DEF R, T
    <3> QED  BY <2>2, <2>3, <3>1
  <2> QED  BY <2>1, <2>4
<1>2. \A s \in Seq(Byte) : s \in T
  <2> HIDE DEF T
  <2> QED  BY <1>1, LengthInduction
<1> QED  BY <1>2

-----------------------------------------------------------------------------
(* What is counted and held in three bytes and what follows them.          *)
LEMMA ThreeMembers ==
    ASSUME NEW a \in Byte, NEW b \in Byte, NEW c \in Byte, NEW t \in Seq(Byte), NEW S
    PROVE  /\ Holds(Three(a, b, c, t), S) <=> a \in S \/ b \in S \/ c \in S \/ Holds(t, S)
           /\ Weight(Three(a, b, c, t)) >= Weight(t)
           /\ a \in Counted => Weight(Three(a, b, c, t)) >= Weight(t) + 1
           /\ a \in Counted /\ b \in Counted => Weight(Three(a, b, c, t)) >= Weight(t) + 2
<1> DEFINE u == <<c>> \o t
           v == <<b>> \o u
           s == <<a>> \o v
<1>1. u \in Seq(Byte) /\ (Holds(u, S) <=> c \in S \/ Holds(t, S))
  BY FirstAndRest, HoldsFirst
<1>2. Weight(u) = Weight(t) + (IF c \in Counted THEN 1 ELSE 0)
  BY WeightFirst
<1> HIDE DEF u
<1>3. v \in Seq(Byte) /\ (Holds(v, S) <=> b \in S \/ Holds(u, S))
  BY <1>1, FirstAndRest, HoldsFirst
<1>4. Weight(v) = Weight(u) + (IF b \in Counted THEN 1 ELSE 0)
  BY <1>1, WeightFirst
<1> HIDE DEF v
<1>5. s \in Seq(Byte) /\ (Holds(s, S) <=> a \in S \/ Holds(v, S))
  BY <1>3, FirstAndRest, HoldsFirst
<1>6. Weight(s) = Weight(v) + (IF a \in Counted THEN 1 ELSE 0)
  BY <1>3, WeightFirst
<1>7. Three(a, b, c, t) = s
  BY DEF Three, u, v, s
<1> HIDE DEF s
<1>8. Weight(t) \in Nat /\ Weight(u) \in Nat /\ Weight(v) \in Nat /\ Weight(s) \in Nat
  BY <1>1, <1>3, <1>5, WeightTypes
<1>9. /\ Weight(s) >= Weight(t) /\ (a \in Counted => Weight(s) >= Weight(t) + 1)
      /\ (a \in Counted /\ b \in Counted => Weight(s) >= Weight(t) + 2)
  BY <1>2, <1>4, <1>6, <1>8
<1> QED  BY <1>1, <1>3, <1>5, <1>7, <1>9

(* The same of what decode_url puts out.                                   *)
LEMMA DecodedFirst ==
    ASSUME NEW s, NEW c \in Byte, NEW t \in Seq(Byte), DecodeUrl(s) = <<c>> \o DecodeUrl(t), NEW S
    PROVE  /\ Weight(DecodeUrl(s)) = Weight(DecodeUrl(t)) + (IF c \in Counted THEN 1 ELSE 0)
           /\ Holds(DecodeUrl(s), S) <=> c \in S \/ Holds(DecodeUrl(t), S)
           /\ Len(DecodeUrl(s)) = Len(DecodeUrl(t)) + 1
<1> DEFINE d == DecodeUrl(t)
<1>1. d \in Seq(Byte)
  BY DecodeTypes
<1>2. DecodeUrl(s) = <<c>> \o d
  OBVIOUS
<1> HIDE DEF d
<1>3. /\ Weight(<<c>> \o d) = Weight(d) + (IF c \in Counted THEN 1 ELSE 0)
      /\ Holds(<<c>> \o d, S) <=> c \in S \/ Holds(d, S)
  BY <1>1, WeightFirst, HoldsFirst
<1>4. Len(<<c>> \o d) = Len(d) + 1
  BY <1>1, FirstAndRest
<1> QED  BY <1>2, <1>3, <1>4 DEF d

-----------------------------------------------------------------------------
(* Escapes, and what decode_url does to the bytes around them.             *)
LEMMA HexDigits ==
    /\ \A d \in HexDigit : d \in Byte /\ d > 37 /\ d < 128 /\ Digit(d) \in 0 .. 15
    /\ \A d \in Byte : d \in HexDigit /\ Digit(d) \in 2 .. 3 => d \in Counted
    /\ \A v \in 0 .. 15 : Hex(v) \in HexDigit /\ Digit(Hex(v)) = v
  BY DEF HexDigit, Byte, Digit, Hex, Counted

(* An escape with a byte below 16 in it gives a byte below 16.             *)
LEMMA HexValueLow ==
    ASSUME NEW a \in Byte, NEW b \in Byte, NEW v, HexValue(a, b) = {v},
           a \in 0 .. 15 \/ b \in 0 .. 15
    PROVE  v \in 0 .. 15
<1>1. \A d \in HexDigit : ~(d \in 0 .. 15) /\ Digit(d) \in 0 .. 15
  BY HexDigits
<1>2. a # 45 \/ b \notin HexDigit
  <2>1. 45 \notin 0 .. 15
    OBVIOUS
  <2> QED  BY <1>1, <2>1
<1>3. ~(a \in HexDigit /\ b \in HexDigit)
  BY <1>1
<1>4. HexValue(a, b) \in {{}, {Digit(a)}, {Digit(b)}}
  BY <1>2, <1>3 DEF HexValue
<1>5. HexValue(a, b) = {Digit(a)} => a \in HexDigit \/ b \in HexDigit
  BY DEF HexValue
<1>6. /\ a \in HexDigit => b \notin HexDigit
      /\ HexValue(a, b) # {} => a \in HexDigit \/ b \in HexDigit
      /\ a \in HexDigit => HexValue(a, b) \in {{}, {Digit(a)}}
      /\ a \notin HexDigit => HexValue(a, b) \in {{}, {Digit(b)}}
  BY <1>2, <1>3 DEF HexValue
<1> QED  BY <1>1, <1>6

(* An escape gives a '%', a "2" or a "3" only if its first digit is a "2"  *)
(* or a "3".                                                               *)
LEMMA HexValueCounted ==
    ASSUME NEW a \in Byte, NEW b \in Byte, NEW v, HexValue(a, b) = {v}, v \in Counted
    PROVE  a \in Counted
<1>1. \A d \in HexDigit : Digit(d) \in 0 .. 15 /\ Digit(d) \notin Counted
                          /\ (256 - Digit(d)) % 256 \notin Counted
  <2>1. \A x \in 0 .. 15 : x \notin Counted /\ (256 - x) % 256 \notin Counted
    BY DEF Counted, Percent
  <2> QED  BY <2>1, HexDigits
<1>2. a \in HexDigit /\ b \in HexDigit /\ v = 16 * Digit(a) + Digit(b)
  BY <1>1 DEF HexValue
<1>3. Digit(a) \in 2 .. 3
  <2>1. \A x, y \in 0 .. 15 : 16 * x + y \in Counted => x \in 2 .. 3
    BY DEF Counted, Percent
  <2> QED  BY <1>1, <1>2, <2>1
<1> QED  BY <1>2, <1>3, HexDigits

(* decode_url adds no weight: it drops the '%' for the byte it puts out.   *)
LEMMA DecodeWeight == \A s \in Seq(Byte) : Weight(DecodeUrl(s)) <= Weight(s)
<1> DEFINE T == {s \in Seq(Byte) : Weight(DecodeUrl(s)) <= Weight(s)}
<1>0. \A s \in Seq(Byte) : DecodeUrl(s) \in Seq(Byte) /\ Weight(DecodeUrl(s)) \in Nat /\ Weight(s) \in Nat
  BY DecodeTypes, WeightTypes
<1>1. ASSUME NEW s \in Seq(Byte), \A t \in Seq(Byte) : Len(t) < Len(s) => t \in T
      PROVE  s \in T
  <2>1. CASE Len(s) = 0
    <3>1. s = <<>>
      BY <2>1
    <3> QED  BY <1>0, <3>1, DecodeOfNothing, WeightTypes
  <2>2. ASSUME NEW c \in Byte, NEW t \in Seq(Byte), s = <<c>> \o t,
               DecodeUrl(s) = <<c>> \o DecodeUrl(t)
        PROVE  s \in T
    <3>1. Len(s) = Len(t) + 1 /\ Len(t) \in Nat
      BY <2>2, FirstAndRest
    <3>2. t \in T
      BY <1>1, <3>1
    <3>3. Weight(s) = Weight(t) + (IF c \in Counted THEN 1 ELSE 0)
      BY <2>2, WeightFirst
    <3>4. Weight(DecodeUrl(s)) = Weight(DecodeUrl(t)) + (IF c \in Counted THEN 1 ELSE 0)
      BY <2>2, DecodedFirst
    <3>5. Weight(DecodeUrl(t)) <= Weight(t)
      BY <3>2
    <3>6. Weight(DecodeUrl(s)) <= Weight(s)
      BY <1>0, <3>3, <3>4, <3>5
    <3> QED  BY <3>6
  <2>3. ASSUME NEW a \in Byte, NEW b \in Byte, NEW v \in Byte, NEW t \in Seq(Byte),
               s = Three(Percent, a, b, t), DecodeUrl(s) = <<v>> \o DecodeUrl(t)
        PROVE  s \in T
    <3>p. Percent \in Byte /\ Percent \in Counted
      BY DEF Percent, Byte, Counted
    <3>1. Len(s) = Len(t) + 3 /\ Len(t) \in Nat
      BY <2>3, <3>p, ThreeProperties
    <3>2. t \in T
      BY <1>1, <3>1
    <3>3. Weight(s) >= Weight(t) + 1
      BY <2>3, <3>p, ThreeMembers
    <3>4. Weight(DecodeUrl(s)) = Weight(DecodeUrl(t)) + (IF v \in Counted THEN 1 ELSE 0)
      BY <2>3, DecodedFirst
    <3>5. Weight(DecodeUrl(t)) <= Weight(t)
      BY <3>2
    <3>6. Weight(DecodeUrl(s)) <= Weight(s)
      BY <1>0, <3>3, <3>4, <3>5
    <3> QED  BY <3>6
  <2>4. CASE Len(s) # 0
    <3>1. \/ \E c \in Byte, t \in Seq(Byte) :
                s = <<c>> \o t /\ EscapeAt(s, 1) = {} /\ DecodeUrl(s) = <<c>> \o DecodeUrl(t)
          \/ \E a, b, v \in Byte, t \in Seq(Byte) :
                /\ s = Three(Percent, a, b, t) /\ HexValue(a, b) = {v}
                /\ DecodeUrl(s) = <<v>> \o DecodeUrl(t)
      BY <2>4, DecodeCases
    <3> HIDE DEF T
    <3> QED  BY <2>2, <2>3, <3>1
  <2> QED  BY <2>1, <2>4
<1>2. \A s \in Seq(Byte) : s \in T
  <2> HIDE DEF T
  <2> QED  BY <1>1, LengthInduction
<1> QED  BY <1>2

Low == 0 .. 15

(* A byte below 16 is either kept or goes into a byte below 16.            *)
LEMMA DecodeLow == \A s \in Seq(Byte) : Holds(s, Low) => Holds(DecodeUrl(s), Low)
<1> DEFINE T == {s \in Seq(Byte) : Holds(s, Low) => Holds(DecodeUrl(s), Low)}
<1>0. \A s \in Seq(Byte) : DecodeUrl(s) \in Seq(Byte)
  BY DecodeTypes
<1>1. ASSUME NEW s \in Seq(Byte), \A t \in Seq(Byte) : Len(t) < Len(s) => t \in T
      PROVE  s \in T
  <2>1. CASE Len(s) = 0
    BY <2>1 DEF Holds
  <2>2. ASSUME NEW c \in Byte, NEW t \in Seq(Byte), s = <<c>> \o t,
               DecodeUrl(s) = <<c>> \o DecodeUrl(t)
        PROVE  s \in T
    <3>1. Len(s) = Len(t) + 1 /\ Len(t) \in Nat
      BY <2>2, FirstAndRest
    <3>2. t \in T
      BY <1>1, <3>1
    <3>3. Holds(s, Low) <=> c \in Low \/ Holds(t, Low)
      BY <2>2, HoldsFirst
    <3>4. Holds(DecodeUrl(s), Low) <=> c \in Low \/ Holds(DecodeUrl(t), Low)
      BY <2>2, DecodedFirst
    <3> QED  BY <3>2, <3>3, <3>4
  <2>3. ASSUME NEW a \in Byte, NEW b \in Byte, NEW v \in Byte, NEW t \in Seq(Byte),
               s = Three(Percent, a, b, t), HexValue(a, b) = {v},
               DecodeUrl(s) = <<v>> \o DecodeUrl(t)
        PROVE  s \in T
    <3>p. Percent \in Byte /\ ~(Percent \in Low)
      BY DEF Percent, Byte, Low
    <3>1. Len(s) = Len(t) + 3 /\ Len(t) \in Nat
      BY <2>3, <3>p, ThreeProperties
    <3>2. t \in T
      BY <1>1, <3>1
    <3>3. Holds(s, Low) <=> a \in Low \/ b \in Low \/ Holds(t, Low)
      BY <2>3, <3>p, ThreeMembers
    <3>4. Holds(DecodeUrl(s), Low) <=> v \in Low \/ Holds(DecodeUrl(t), Low)
      BY <2>3, DecodedFirst
    <3>5. a \in Low \/ b \in Low => v \in Low
      BY <2>3, HexValueLow DEF Low
    <3> QED  BY <3>2, <3>3, <3>4, <3>5
  <2>4. CASE Len(s) # 0
    <3>1. \/ \E c \in Byte, t \in Seq(Byte) :
                s = <<c>> \o t /\ EscapeAt(s, 1) = {} /\ DecodeUrl(s) = <<c>> \o DecodeUrl(t)
          \/ \E a, b, v \in Byte, t \in Seq(Byte) :
                /\ s = Three(Percent, a, b, t) /\ HexValue(a, b) = {v}
                /\ DecodeUrl(s) = <<v>> \o DecodeUrl(t)
      BY <2>4, DecodeCases
    <3> HIDE DEF T
    <3> QED  BY <2>2, <2>3, <3>1
  <2> QED  BY <2>1, <2>4
<1>2. \A s \in Seq(Byte) : s \in T
  <2> HIDE DEF T
  <2> QED  BY <1>1, LengthInduction
<1> QED  BY <1>2

(* A text that holds an escape.                                            *)
HasEscape(s) == \E i \in 1 .. Len(s) : EscapeAt(s, i) # {}

(* An escape remains one behind other text.                                *)
LEMMA EscapeShifted ==
    ASSUME NEW u \in Seq(Byte), NEW t \in Seq(Byte), NEW i \in 1 .. Len(t)
    PROVE  EscapeAt(u \o t, Len(u) + i) = EscapeAt(t, i) /\ Len(u) + i \in 1 .. Len(u \o t)
<1> DEFINE s == u \o t
           j == Len(u) + i
<1>1. /\ s \in Seq(Byte) /\ Len(s) = Len(u) + Len(t)
      /\ \A k \in 1 .. Len(t) : s[Len(u) + k] = t[k]
      /\ Len(u) \in Nat /\ Len(t) \in Nat
  BY Front
<1> HIDE DEF s
<1>2. s[j] = t[i] /\ (HasTwoMore(s, j) <=> HasTwoMore(t, i)) /\ j \in 1 .. Len(s)
  BY <1>1 DEF HasTwoMore
<1>3. HasTwoMore(t, i) => s[j + 1] = t[i + 1] /\ s[j + 2] = t[i + 2]
  <2> SUFFICES ASSUME HasTwoMore(t, i) PROVE s[j + 1] = t[i + 1] /\ s[j + 2] = t[i + 2]
    OBVIOUS
  <2>1. /\ i + 1 \in 1 .. Len(t) /\ i + 2 \in 1 .. Len(t)
        /\ j + 1 = Len(u) + (i + 1) /\ j + 2 = Len(u) + (i + 2)
    <3>1. i + 2 <= Len(t)
      BY DEF HasTwoMore
    <3> QED  BY <1>1, <3>1
  <2> QED  BY <1>1, <2>1
<1> HIDE DEF j
<1>4. EscapeAt(s, j) = EscapeAt(t, i)
  BY <1>2, <1>3 DEF EscapeAt
<1> QED  BY <1>2, <1>4 DEF s, j

(* A text holds the escapes of its end.                                    *)
LEMMA EscapeFront ==
    ASSUME NEW u \in Seq(Byte), NEW t \in Seq(Byte), HasEscape(t)
    PROVE  HasEscape(u \o t)
<1>1. PICK i \in 1 .. Len(t) : EscapeAt(t, i) # {}
  BY DEF HasEscape
<1>2. EscapeAt(u \o t, Len(u) + i) = EscapeAt(t, i) /\ Len(u) + i \in 1 .. Len(u \o t)
  BY EscapeShifted
<1> QED  BY <1>1, <1>2 DEF HasEscape

(* An escape that does not begin the text is in the rest.                  *)
LEMMA EscapeAfter ==
    ASSUME NEW c \in Byte, NEW t \in Seq(Byte), HasEscape(<<c>> \o t),
           EscapeAt(<<c>> \o t, 1) = {}
    PROVE  HasEscape(t)
<1> DEFINE u == <<c>>
<1>1. u \in Seq(Byte) /\ Len(u) = 1 /\ Len(t) \in Nat
  OBVIOUS
<1>2. HasEscape(u \o t) /\ EscapeAt(u \o t, 1) = {}
  OBVIOUS
<1> HIDE DEF u
<1>3. PICK i \in 1 .. Len(u \o t) : EscapeAt(u \o t, i) # {}
  BY <1>2 DEF HasEscape
<1>4. Len(u \o t) = 1 + Len(t)
  BY <1>1, ConcatProperties
<1>5. i - 1 \in 1 .. Len(t) /\ Len(u) + (i - 1) = i
  BY <1>1, <1>2, <1>3, <1>4
<1>6. EscapeAt(u \o t, Len(u) + (i - 1)) = EscapeAt(t, i - 1)
  BY <1>1, <1>5, EscapeShifted
<1> QED  BY <1>3, <1>5, <1>6 DEF HasEscape

(* decode_url shortens a text that holds an escape, and so changes it.     *)
LEMMA DecodeShortens ==
    \A s \in Seq(Byte) : /\ Len(DecodeUrl(s)) <= Len(s)
                         /\ HasEscape(s) => Len(DecodeUrl(s)) < Len(s)
<1> DEFINE T == {s \in Seq(Byte) : /\ Len(DecodeUrl(s)) <= Len(s)
                                   /\ HasEscape(s) => Len(DecodeUrl(s)) < Len(s)}
<1>0. \A s \in Seq(Byte) : DecodeUrl(s) \in Seq(Byte) /\ Len(DecodeUrl(s)) \in Nat /\ Len(s) \in Nat
  <2>1. \A s \in Seq(Byte) : Len(s) \in Nat
    OBVIOUS
  <2> QED  BY <2>1, DecodeTypes
<1>1. ASSUME NEW s \in Seq(Byte), \A t \in Seq(Byte) : Len(t) < Len(s) => t \in T
      PROVE  s \in T
  <2>1. CASE Len(s) = 0
    <3>1. s = <<>>
      BY <2>1
    <3>2. DecodeUrl(s) = s /\ ~HasEscape(s)
      BY <2>1, <3>1, DecodeOfNothing DEF HasEscape
    <3> QED  BY <1>0, <3>2
  <2>2. ASSUME NEW c \in Byte, NEW t \in Seq(Byte), s = <<c>> \o t, EscapeAt(s, 1) = {},
               DecodeUrl(s) = <<c>> \o DecodeUrl(t)
        PROVE  s \in T
    <3>1. Len(s) = Len(t) + 1
      BY <2>2, FirstAndRest
    <3>2. t \in T
      BY <1>0, <1>1, <3>1
    <3>3. Len(DecodeUrl(s)) = Len(DecodeUrl(t)) + 1
      BY <2>2, DecodedFirst
    <3>4. HasEscape(s) => HasEscape(t)
      BY <2>2, EscapeAfter
    <3>5. Len(DecodeUrl(t)) <= Len(t) /\ (HasEscape(t) => Len(DecodeUrl(t)) < Len(t))
      BY <3>2
    <3>6. Len(DecodeUrl(s)) <= Len(s) /\ (HasEscape(s) => Len(DecodeUrl(s)) < Len(s))
      BY <1>0, <3>1, <3>3, <3>4, <3>5
    <3> QED  BY <3>6
  <2>3. ASSUME NEW a \in Byte, NEW b \in Byte, NEW v \in Byte, NEW t \in Seq(Byte),
               s = Three(Percent, a, b, t), DecodeUrl(s) = <<v>> \o DecodeUrl(t)
        PROVE  s \in T
    <3>1. Len(s) = Len(t) + 3
      <4>1. Percent \in Byte
        BY DEF Percent, Byte
      <4> QED  BY <2>3, <4>1, ThreeProperties
    <3>2. t \in T
      BY <1>0, <1>1, <3>1
    <3>3. Len(DecodeUrl(s)) = Len(DecodeUrl(t)) + 1
      BY <2>3, DecodedFirst
    <3>4. Len(DecodeUrl(t)) <= Len(t)
      BY <3>2
    <3>5. Len(DecodeUrl(s)) < Len(s) /\ Len(DecodeUrl(s)) <= Len(s)
      BY <1>0, <3>1, <3>3, <3>4
    <3> QED  BY <3>5
  <2>4. CASE Len(s) # 0
    <3>1. \/ \E c \in Byte, t \in Seq(Byte) :
                s = <<c>> \o t /\ EscapeAt(s, 1) = {} /\ DecodeUrl(s) = <<c>> \o DecodeUrl(t)
          \/ \E a, b, v \in Byte, t \in Seq(Byte) :
                /\ s = Three(Percent, a, b, t) /\ HexValue(a, b) = {v}
                /\ DecodeUrl(s) = <<v>> \o DecodeUrl(t)
      BY <2>4, DecodeCases
    <3> HIDE DEF T
    <3> QED  BY <2>2, <2>3, <3>1
  <2> QED  BY <2>1, <2>4
<1>2. \A s \in Seq(Byte) : s \in T
  <2> HIDE DEF T
  <2> QED  BY <1>1, LengthInduction
<1> QED  BY <1>2

-----------------------------------------------------------------------------
(* What encodeFilename puts out, read by decode_url.                       *)
LEMMA ThreeIs ==
    ASSUME NEW a \in Byte, NEW b \in Byte, NEW c \in Byte, NEW t \in Seq(Byte)
    PROVE  <<a, b, c>> \o t = Three(a, b, c, t)
<1> DEFINE u == <<a, b, c>>
           p == u \o t
           r == Three(a, b, c, t)
           d == Drop(r, 3)
<1>1. u \in Seq(Byte) /\ Len(u) = 3 /\ u[1] = a /\ u[2] = b /\ u[3] = c
  OBVIOUS
<1>2. /\ r \in Seq(Byte) /\ Len(r) = Len(t) + 3 /\ Len(t) \in Nat
      /\ r[1] = a /\ r[2] = b /\ r[3] = c /\ d = t
  BY ThreeProperties
<1> HIDE DEF u, r
<1>3. /\ p \in Seq(Byte) /\ Len(p) = Len(u) + Len(t)
      /\ Drop(p, Len(u)) = t
      /\ \A i \in 1 .. Len(u) : p[i] = u[i]
      /\ \A i \in 1 .. Len(t) : p[Len(u) + i] = t[i]
  <2>1. u \in Seq(Byte)
    BY <1>1
  <2> QED  BY <2>1, Front, Zenon
<1> HIDE DEF p
<1>4. \A i \in 1 .. Len(r) - 3 : d[i] = r[i + 3]
  <2>1. 3 \in 0 .. Len(r)
    BY <1>2
  <2> QED  BY <1>2, <2>1, DropProperties
<1> HIDE DEF d
<1>5. Len(p) = Len(r)
  BY <1>1, <1>2, <1>3
<1>6. ASSUME NEW i \in 1 .. Len(p) PROVE p[i] = r[i]
  <2>1. CASE i \in 1 .. 3
    <3>1. p[1] = a /\ p[2] = b /\ p[3] = c
      BY <1>1, <1>3
    <3>2. i = 1 \/ i = 2 \/ i = 3
      BY <2>1
    <3> QED  BY <1>2, <3>1, <3>2
  <2>2. CASE ~(i \in 1 .. 3)
    <3>1. i - 3 \in 1 .. Len(t) /\ i - 3 \in 1 .. Len(r) - 3 /\ (i - 3) + 3 = i /\ Len(u) + (i - 3) = i
      BY <1>1, <1>2, <1>3, <2>2
    <3>2. p[Len(u) + (i - 3)] = t[i - 3] /\ d[i - 3] = r[(i - 3) + 3]
      BY <1>3, <1>4, <3>1
    <3> QED  BY <1>2, <3>1, <3>2
  <2> QED  BY <2>1, <2>2
<1>7. p = r
  BY <1>2, <1>3, <1>5, <1>6, SeqEqual
<1> QED  BY <1>7 DEF p, u, r

(* Concatenation of text is associative.                                   *)
LEMMA ByteConcat ==
    ASSUME NEW k \in Seq(Byte), NEW u \in Seq(Byte), NEW d \in Seq(Byte)
    PROVE  (k \o u) \o d = k \o (u \o d)
  BY ConcatAssociative

(* decode_url on a '%' and two bytes more.                                 *)
LEMMA DecodeThree ==
    ASSUME NEW a \in Byte, NEW b \in Byte, NEW t \in Seq(Byte)
    PROVE  /\ EscapeAt(Three(Percent, a, b, t), 1) = HexValue(a, b)
           /\ \A v : HexValue(a, b) = {v} =>
                v \in Byte /\ DecodeUrl(Three(Percent, a, b, t)) = <<v>> \o DecodeUrl(t)
<1> DEFINE s == Three(Percent, a, b, t)
<1>1. /\ s \in Seq(Byte) /\ Len(s) = Len(t) + 3 /\ Len(t) \in Nat
      /\ s[1] = Percent /\ s[2] = a /\ s[3] = b /\ Drop(s, 3) = t
  <2>1. Percent \in Byte
    BY DEF Percent, Byte
  <2> QED  BY <2>1, ThreeProperties
<1> HIDE DEF s
<1>2. HasTwoMore(s, 1) /\ s[1 + 1] = a /\ s[1 + 2] = b /\ Len(s) # 0
  BY <1>1 DEF HasTwoMore
<1>3. EscapeAt(s, 1) = HexValue(a, b)
  BY <1>1, <1>2 DEF EscapeAt
<1>4. ASSUME NEW v, HexValue(a, b) = {v} PROVE v \in Byte /\ DecodeUrl(s) = <<v>> \o DecodeUrl(t)
  <2>1. EscapeAt(s, 1) = {v}
    BY <1>3, <1>4
  <2>2. v \in Byte /\ DecodeUrl(s) = <<v>> \o DecodeUrl(Drop(s, 3))
    BY <1>1, <1>2, <2>1, DecodeEscape
  <2> QED  BY <1>1, <2>2
<1> QED  BY <1>3, <1>4 DEF s

(* The same, for two bytes that make an escape.                            *)
LEMMA DecodedThree ==
    ASSUME NEW a \in Byte, NEW b \in Byte, NEW t \in Seq(Byte), NEW v, HexValue(a, b) = {v}
    PROVE  v \in Byte /\ DecodeUrl(Three(Percent, a, b, t)) = <<v>> \o DecodeUrl(t)
  BY DecodeThree

Enc == [c \in Byte |-> EncodedByte(c)]
Encoded(s) == Mapped(s, Enc)

(* A byte and its two digits.                                              *)
LEMMA HighAndLow ==
    ASSUME NEW c \in Byte
    PROVE  \E h, l \in 0 .. 15 : h = c \div 16 /\ l = c % 16 /\ 16 * h + l = c
<1> DEFINE h == c \div 16
           l == c % 16
<1>1. c \in Nat /\ c <= 255
  BY DEF Byte
<1>2. h \in 0 .. 15 /\ h = c \div 16
  BY <1>1
<1>3. l \in 0 .. 15 /\ l = c % 16
  BY <1>1
<1> HIDE DEF h, l
<1>4. 16 * h + l = c
  BY <1>1, <1>2, <1>3
<1> QED  BY <1>2, <1>3, <1>4

(* Two digits are read as the byte they spell.                             *)
LEMMA HexValueTwo ==
    ASSUME NEW a \in HexDigit, NEW b \in HexDigit
    PROVE  HexValue(a, b) = {16 * Digit(a) + Digit(b)}
<1>1. a \notin Blank \cup {43} /\ a # 45
  BY DEF HexDigit, Blank, Space
<1> QED  BY <1>1 DEF HexValue

(* decode_url takes back what encodeFilename does to one byte, if it is no *)
(* '%' (http_parser.cpp:283).                                              *)
LEMMA DecodeEncodedByte ==
    ASSUME NEW c \in Byte
    PROVE  /\ EncodedByte(c) \in Seq(Byte)
           /\ c # Percent => \A t \in Seq(Byte) : DecodeUrl(EncodedByte(c) \o t) = <<c>> \o DecodeUrl(t)
<1>1. CASE c = Space \/ c > 127
  <2>1. PICK h \in 0 .. 15, l \in 0 .. 15 : h = c \div 16 /\ l = c % 16 /\ 16 * h + l = c
    BY HighAndLow
  <2> DEFINE a == Hex(h)
             b == Hex(l)
  <2>2. a \in HexDigit /\ b \in HexDigit /\ Digit(a) = h /\ Digit(b) = l /\ a \in Byte /\ b \in Byte
    BY <2>1, HexDigits
  <2>3. EncodedByte(c) = <<Percent, a, b>> /\ Percent \in Byte
    BY <1>1, <2>1 DEF EncodedByte, Escaped, Percent, Byte
  <2> HIDE DEF a, b
  <2>4. EncodedByte(c) \in Seq(Byte)
    BY <2>2, <2>3
  <2>5. HexValue(a, b) = {c}
    BY <2>1, <2>2, HexValueTwo
  <2>6. ASSUME NEW t \in Seq(Byte) PROVE DecodeUrl(EncodedByte(c) \o t) = <<c>> \o DecodeUrl(t)
    <3>1. EncodedByte(c) \o t = Three(Percent, a, b, t)
      BY <2>2, <2>3, ThreeIs
    <3>2. DecodeUrl(Three(Percent, a, b, t)) = <<c>> \o DecodeUrl(t)
      BY <2>2, <2>5, DecodeThree
    <3> QED  BY <3>1, <3>2
  <2> QED  BY <2>4, <2>6
<1>2. CASE ~(c = Space \/ c > 127)
  <2>1. EncodedByte(c) = <<c>>
    BY <1>2 DEF EncodedByte
  <2>2. EncodedByte(c) \in Seq(Byte)
    BY <2>1
  <2> QED  BY <2>1, <2>2, DecodeOther
<1> QED  BY <1>1, <1>2

(* Encoded, byte by byte and for two texts, one after the other.           *)
LEMMA EncodedTypes ==
    /\ Enc \in [Byte -> Seq(Byte)] /\ \A c \in Byte : Enc[c] = EncodedByte(c)
    /\ \A s \in Seq(Byte) : Encoded(s) \in Seq(Byte)
    /\ Encoded(<<>>) = <<>>
    /\ \A c \in Byte : \A t \in Seq(Byte) : Encoded(<<c>> \o t) = EncodedByte(c) \o Encoded(t)
    /\ \A u, t \in Seq(Byte) : Encoded(u \o t) = Encoded(u) \o Encoded(t)
<1>1. Enc \in [Byte -> Seq(Byte)]
  <2>1. \A c \in Byte : EncodedByte(c) \in Seq(Byte)
    BY DecodeEncodedByte
  <2> QED  BY <2>1 DEF Enc
<1>2. \A c \in Byte : Enc[c] = EncodedByte(c)
  BY DEF Enc
<1>3. \A s \in Seq(Byte) : Encoded(s) \in Seq(Byte)
  BY <1>1, MappedTypes DEF Encoded
<1>4. Encoded(<<>>) = <<>>
  BY <1>1, MappedOfNothing DEF Encoded
<1>5. ASSUME NEW c \in Byte, NEW t \in Seq(Byte)
      PROVE  Encoded(<<c>> \o t) = EncodedByte(c) \o Encoded(t)
  <2>1. Mapped(<<c>> \o t, Enc) = Enc[c] \o Mapped(t, Enc)
    BY <1>1, MappedUnfolds
  <2> QED  BY <1>2, <2>1 DEF Encoded
<1>6. ASSUME NEW u \in Seq(Byte), NEW t \in Seq(Byte)
      PROVE  Encoded(u \o t) = Encoded(u) \o Encoded(t)
  BY <1>1, MappedFront DEF Encoded
<1> QED  BY <1>1, <1>2, <1>3, <1>4, <1>5, <1>6

(* Text without a '%' comes back as it was.                                *)
LEMMA DecodeEncoded ==
    ASSUME NEW t \in Seq(Byte)
    PROVE  \A u \in Seq(Byte) :
              ~Holds(u, {Percent}) => DecodeUrl(Encoded(u) \o t) = u \o DecodeUrl(t)
<1> DEFINE T == {u \in Seq(Byte) :
                   ~Holds(u, {Percent}) => DecodeUrl(Encoded(u) \o t) = u \o DecodeUrl(t)}
<1>0. DecodeUrl(t) \in Seq(Byte) /\ \A s \in Seq(Byte) : Encoded(s) \in Seq(Byte)
  BY DecodeTypes, EncodedTypes
<1>1. <<>> \in T
  <2>1. Encoded(<<>>) \o t = t
    <3>1. Encoded(<<>>) = <<>>
      BY EncodedTypes
    <3>2. <<>> \o t = t
      OBVIOUS
    <3> QED  BY <3>1, <3>2
  <2> DEFINE d == DecodeUrl(t)
  <2>2. d \in Seq(Byte)
    BY <1>0
  <2> HIDE DEF d
  <2>3. <<>> \o d = d /\ <<>> \in Seq(Byte)
    BY <2>2
  <2> QED  BY <2>1, <2>3 DEF d
<1>2. ASSUME NEW c \in Byte, NEW u \in Seq(Byte), u \in T PROVE <<c>> \o u \in T
  <2> SUFFICES ASSUME ~Holds(<<c>> \o u, {Percent})
               PROVE  DecodeUrl(Encoded(<<c>> \o u) \o t) = (<<c>> \o u) \o DecodeUrl(t)
    BY FirstAndRest
  <2>1. c # Percent /\ ~Holds(u, {Percent})
    BY HoldsFirst
  <2> DEFINE x == EncodedByte(c)
             y == Encoded(u)
             d == DecodeUrl(t)
             k == <<c>>
  <2>2. x \in Seq(Byte) /\ y \in Seq(Byte) /\ d \in Seq(Byte) /\ k \in Seq(Byte)
    BY <1>0, DecodeEncodedByte
  <2>3. Encoded(<<c>> \o u) = x \o y
    BY EncodedTypes
  <2>4. DecodeUrl(y \o t) = u \o d
    BY <1>2, <2>1
  <2>5. y \o t \in Seq(Byte)
    BY <2>2, ConcatProperties
  <2>6. DecodeUrl(x \o (y \o t)) = k \o DecodeUrl(y \o t)
    BY <2>1, <2>5, DecodeEncodedByte
  <2> HIDE DEF x, y, d, k
  <2>7. (x \o y) \o t = x \o (y \o t) /\ (k \o u) \o d = k \o (u \o d)
    <3>1. x \in Seq(Byte)
      BY <2>2
    <3>2. y \in Seq(Byte)
      BY <2>2
    <3>3. k \in Seq(Byte)
      BY <2>2
    <3>4. d \in Seq(Byte)
      BY <2>2
    <3>5. (x \o y) \o t = x \o (y \o t)
      BY <3>1, <3>2, ByteConcat, Zenon
    <3>6. (k \o u) \o d = k \o (u \o d)
      BY <3>3, <3>4, ByteConcat, Zenon
    <3> QED  BY <3>5, <3>6
  <2>8. DecodeUrl((x \o y) \o t) = (k \o u) \o d
    BY <2>4, <2>6, <2>7
  <2> QED  BY <2>3, <2>8 DEF d, k
<1>3. \A u \in Seq(Byte) : u \in T
  <2> HIDE DEF T
  <2> QED  BY <1>1, <1>2, ListInduction
<1> QED  BY <1>3

(* A C string keeps what is in front of it and holds no 0.                 *)
LEMMA CStringFront ==
    ASSUME NEW t \in Seq(Byte)
    PROVE  \A u \in Seq(Byte) : ~Holds(u, {0}) => CString(u \o t) = u \o CString(t)
<1> DEFINE T == {u \in Seq(Byte) : ~Holds(u, {0}) => CString(u \o t) = u \o CString(t)}
<1>1. <<>> \in T
  <2> DEFINE d == CString(t)
  <2>1. <<>> \o t = t /\ d \in Seq(Byte) /\ <<>> \in Seq(Byte)
    BY CStringTypes
  <2> HIDE DEF d
  <2>2. <<>> \o d = d
    BY <2>1
  <2> QED  BY <2>1, <2>2 DEF d
<1>2. ASSUME NEW c \in Byte, NEW u \in Seq(Byte), u \in T PROVE <<c>> \o u \in T
  <2> SUFFICES ASSUME ~Holds(<<c>> \o u, {0})
               PROVE  CString((<<c>> \o u) \o t) = (<<c>> \o u) \o CString(t)
    BY FirstAndRest
  <2>1. c # 0 /\ ~Holds(u, {0})
    BY HoldsFirst
  <2> DEFINE k == <<c>>
             d == CString(t)
  <2>2. k \in Seq(Byte) /\ d \in Seq(Byte)
    BY CStringTypes
  <2>3. CString(u \o t) = u \o d
    BY <1>2, <2>1
  <2>4. u \o t \in Seq(Byte)
    BY ConcatProperties
  <2>5. CString(k \o (u \o t)) = k \o CString(u \o t)
    BY <2>1, <2>4, CStringUnfolds
  <2> HIDE DEF k, d
  <2>6. (k \o u) \o t = k \o (u \o t) /\ (k \o u) \o d = k \o (u \o d)
    <3>1. k \in Seq(Byte)
      BY <2>2
    <3>2. d \in Seq(Byte)
      BY <2>2
    <3>3. (k \o u) \o t = k \o (u \o t)
      BY <3>1, ByteConcat, Zenon
    <3>4. (k \o u) \o d = k \o (u \o d)
      BY <3>1, <3>2, ByteConcat, Zenon
    <3> QED  BY <3>3, <3>4
  <2> QED  BY <2>3, <2>5, <2>6 DEF k, d
<1>3. \A u \in Seq(Byte) : u \in T
  <2> HIDE DEF T
  <2> QED  BY <1>1, <1>2, ListInduction
<1> QED  BY <1>3

-----------------------------------------------------------------------------
(* Names, character by character: as the disk spells them, and in UTF-8.   *)
Spelled == {<<l>> : l \in Letter} \cup {w.acp : w \in Wide}
Itself == [x \in Spelled |-> x]
Utf8Of == [x \in Spelled |-> IF x[1] < 128 THEN x ELSE Utf8[CHOOSE w \in Wide : w.acp = x]]
AcpText(cs) == Mapped(cs, Itself)
Utf8Text(cs) == Mapped(cs, Utf8Of)

(* Letters are printable ASCII.                                            *)
LEMMA Letters == \A l \in Letter : l \in Byte /\ l < 128 /\ l \notin 0 .. 31
  BY EncodingsAssumption DEF Byte

(* A character of a name is a letter, or a wide one.                       *)
LEMMA CharacterCases ==
    ASSUME NEW x \in Spelled
    PROVE  \/ \E l \in Letter : x = <<l>> /\ Utf8Of[x] = <<l>>
           \/ \E w \in Wide : x = Acp[w] /\ Utf8Of[x] = Utf8[w]
<1>1. CASE x \in {<<l>> : l \in Letter}
  <2>1. PICK l \in Letter : x = <<l>>
    BY <1>1
  <2>2. x[1] = l
    BY <2>1
  <2>3. Utf8Of[x] = x
    BY <2>2, Letters DEF Utf8Of
  <2> QED  BY <2>1, <2>3
<1>2. CASE x \in {w.acp : w \in Wide}
  <2>1. PICK w \in Wide : x = w.acp
    BY <1>2
  <2>2. Acp \in [Wide -> Seq(Byte)] /\ Acp[w] = w.acp /\ Acp[w][1] > 127
    BY BothEncodings DEF Acp, IsEncoding
  <2>3. ASSUME NEW v \in Wide, v.acp = x PROVE v = w
    <3>1. x \in Seq(Byte)
      BY <2>1, <2>2
    <3>2. StartsWith(x, x)
      BY <3>1 DEF StartsWith
    <3> QED  BY <2>1, <2>3, <3>2, EncodingsAssumption
  <2>4. (CHOOSE v \in Wide : v.acp = x) = w
    BY <2>1, <2>3
  <2>5. ~(x[1] < 128)
    <3>1. x \in Seq(Byte) /\ Len(x) # 0
      BY <2>1, <2>2, BothEncodings DEF IsEncoding
    <3>2. x[1] \in Byte
      BY <3>1
    <3>3. x[1] \in Int
      BY <3>2 DEF Byte
    <3> QED  BY <2>1, <2>2, <3>3
  <2>6. Utf8Of[x] = Utf8[w]
    BY <2>4, <2>5 DEF Utf8Of
  <2> QED  BY <2>1, <2>2, <2>6
<1> QED  BY <1>1, <1>2 DEF Spelled

(* Either conversion takes a character to its other spelling, whatever     *)
(* follows it; both spellings weigh the same, hold no control character,   *)
(* and no '%' but where the character is one.                              *)
LEMMA Character ==
    ASSUME NEW x \in Spelled
    PROVE  /\ x \in Seq(Byte) /\ Utf8Of[x] \in Seq(Byte)
           /\ \A t \in Seq(Byte) :
                 /\ Recoded(x \o t, Acp, Utf8) = Utf8Of[x] \o Recoded(t, Acp, Utf8)
                 /\ Recoded(Utf8Of[x] \o t, Utf8, Acp) = x \o Recoded(t, Utf8, Acp)
           /\ Weight(x) = Weight(Utf8Of[x])
           /\ ~Holds(x, 0 .. 31) /\ ~Holds(Utf8Of[x], 0 .. 31)
           /\ Holds(Utf8Of[x], {Percent}) => x = <<Percent>>
<1>e. IsEncoding(Acp) /\ IsEncoding(Utf8)
  BY BothEncodings
<1>1. ASSUME NEW l \in Letter, x = <<l>>, Utf8Of[x] = <<l>>
      PROVE  /\ x \in Seq(Byte) /\ Utf8Of[x] \in Seq(Byte)
             /\ \A t \in Seq(Byte) :
                   /\ Recoded(x \o t, Acp, Utf8) = Utf8Of[x] \o Recoded(t, Acp, Utf8)
                   /\ Recoded(Utf8Of[x] \o t, Utf8, Acp) = x \o Recoded(t, Utf8, Acp)
             /\ Weight(x) = Weight(Utf8Of[x])
             /\ ~Holds(x, 0 .. 31) /\ ~Holds(Utf8Of[x], 0 .. 31)
             /\ Holds(Utf8Of[x], {Percent}) => x = <<Percent>>
  <2>1. l \in Byte /\ l < 128 /\ l \notin 0 .. 31
    BY Letters
  <2>2. x \in Seq(Byte) /\ Len(x) = 1 /\ x[1] = l
    BY <1>1, <2>1
  <2>3. \A t \in Seq(Byte) : /\ Recoded(<<l>> \o t, Acp, Utf8) = <<l>> \o Recoded(t, Acp, Utf8)
                             /\ Recoded(<<l>> \o t, Utf8, Acp) = <<l>> \o Recoded(t, Utf8, Acp)
    BY <1>e, <2>1, RecodedAscii
  <2>4. ~Holds(x, 0 .. 31) /\ (Holds(x, {Percent}) => l = Percent)
    BY <2>1, <2>2 DEF Holds
  <2> QED  BY <1>1, <2>2, <2>3, <2>4
<1>2. ASSUME NEW w \in Wide, x = Acp[w], Utf8Of[x] = Utf8[w]
      PROVE  /\ x \in Seq(Byte) /\ Utf8Of[x] \in Seq(Byte)
             /\ \A t \in Seq(Byte) :
                   /\ Recoded(x \o t, Acp, Utf8) = Utf8Of[x] \o Recoded(t, Acp, Utf8)
                   /\ Recoded(Utf8Of[x] \o t, Utf8, Acp) = x \o Recoded(t, Utf8, Acp)
             /\ Weight(x) = Weight(Utf8Of[x])
             /\ ~Holds(x, 0 .. 31) /\ ~Holds(Utf8Of[x], 0 .. 31)
             /\ Holds(Utf8Of[x], {Percent}) => x = <<Percent>>
  <2>1. /\ Acp[w] \in Seq(Byte) /\ Weight(Acp[w]) = 0 /\ ~Holds(Acp[w], 0 .. 63)
        /\ Utf8[w] \in Seq(Byte) /\ Weight(Utf8[w]) = 0 /\ ~Holds(Utf8[w], 0 .. 63)
    BY <1>e, EncodedCharacter
  <2>2. ASSUME NEW s, ~Holds(s, 0 .. 63) PROVE ~Holds(s, 0 .. 31) /\ ~Holds(s, {Percent})
    <3>1. Percent \in 0 .. 63 /\ \A i \in 0 .. 31 : i \in 0 .. 63
      BY DEF Percent
    <3> QED  BY <2>2, <3>1 DEF Holds
  <2>3. \A t \in Seq(Byte) : /\ Recoded(Acp[w] \o t, Acp, Utf8) = Utf8[w] \o Recoded(t, Acp, Utf8)
                             /\ Recoded(Utf8[w] \o t, Utf8, Acp) = Acp[w] \o Recoded(t, Utf8, Acp)
    BY <1>e, RecodedWide
  <2> QED  BY <1>2, <2>1, <2>2, <2>3
<1> QED  BY <1>1, <1>2, CharacterCases

(* The two spellings of a name, character by character.                    *)
LEMMA TextTypes ==
    /\ Itself \in [Spelled -> Seq(Byte)] /\ Utf8Of \in [Spelled -> Seq(Byte)]
    /\ \A cs \in Seq(Spelled) : AcpText(cs) \in Seq(Byte) /\ Utf8Text(cs) \in Seq(Byte)
    /\ AcpText(<<>>) = <<>> /\ Utf8Text(<<>>) = <<>>
    /\ \A x \in Spelled : \A cs \in Seq(Spelled) :
          /\ AcpText(<<x>> \o cs) = x \o AcpText(cs)
          /\ Utf8Text(<<x>> \o cs) = Utf8Of[x] \o Utf8Text(cs)
<1>1. Itself \in [Spelled -> Seq(Byte)]
  <2>1. \A x \in Spelled : x \in Seq(Byte)
    BY Character
  <2> QED  BY <2>1 DEF Itself
<1>2. Utf8Of \in [Spelled -> Seq(Byte)]
  <2>1. \A x \in Spelled : Utf8Of[x] \in Seq(Byte)
    BY Character
  <2>2. \E f : Utf8Of = [x \in Spelled |-> f[x]]
    <3>1. Utf8Of = [x \in Spelled |-> Utf8Of[x]]
      BY DEF Utf8Of
    <3> QED  BY <3>1
  <2> QED  BY <2>1, <2>2
<1>3. \A cs \in Seq(Spelled) : AcpText(cs) \in Seq(Byte)
  BY <1>1, MappedTypes DEF AcpText
<1>4. \A cs \in Seq(Spelled) : Utf8Text(cs) \in Seq(Byte)
  BY <1>2, MappedTypes DEF Utf8Text
<1>5. AcpText(<<>>) = <<>> /\ Utf8Text(<<>>) = <<>>
  BY <1>1, <1>2, MappedOfNothing DEF AcpText, Utf8Text
<1>6. ASSUME NEW x \in Spelled, NEW cs \in Seq(Spelled)
      PROVE  /\ AcpText(<<x>> \o cs) = x \o AcpText(cs)
             /\ Utf8Text(<<x>> \o cs) = Utf8Of[x] \o Utf8Text(cs)
  <2>1. Mapped(<<x>> \o cs, Itself) = Itself[x] \o Mapped(cs, Itself)
    BY <1>1, MappedUnfolds
  <2>2. Mapped(<<x>> \o cs, Utf8Of) = Utf8Of[x] \o Mapped(cs, Utf8Of)
    BY <1>2, MappedUnfolds
  <2>3. Itself[x] = x
    BY DEF Itself
  <2> QED  BY <2>1, <2>2, <2>3 DEF AcpText, Utf8Text
<1> QED  BY <1>1, <1>2, <1>3, <1>4, <1>5, <1>6

(* Either spelling of a name converts into the other.                      *)
LEMMA Texts ==
    \A cs \in Seq(Spelled) :
       /\ Recoded(AcpText(cs), Acp, Utf8) = Utf8Text(cs)
       /\ Recoded(Utf8Text(cs), Utf8, Acp) = AcpText(cs)
       /\ Weight(AcpText(cs)) = Weight(Utf8Text(cs))
       /\ ~Holds(AcpText(cs), 0 .. 31) /\ ~Holds(Utf8Text(cs), 0 .. 31)
<1> DEFINE A(cs) == AcpText(cs)
           U(cs) == Utf8Text(cs)
           T == {cs \in Seq(Spelled) :
                   /\ Recoded(A(cs), Acp, Utf8) = U(cs)
                   /\ Recoded(U(cs), Utf8, Acp) = A(cs)
                   /\ Weight(A(cs)) = Weight(U(cs))
                   /\ ~Holds(A(cs), 0 .. 31) /\ ~Holds(U(cs), 0 .. 31)}
<1>e. IsEncoding(Acp) /\ IsEncoding(Utf8)
  BY BothEncodings
<1>1. <<>> \in T
  <2>1. AcpText(<<>>) = <<>> /\ Utf8Text(<<>>) = <<>>
    BY TextTypes
  <2>2. Recoded(<<>>, Acp, Utf8) = <<>> /\ Recoded(<<>>, Utf8, Acp) = <<>>
    BY <1>e, RecodedOfNothing
  <2>3. ~Holds(<<>>, 0 .. 31)
    BY DEF Holds
  <2>4. <<>> \in Seq(Spelled)
    OBVIOUS
  <2> QED  BY <2>1, <2>2, <2>3, <2>4
<1>2. ASSUME NEW x \in Spelled, NEW cs \in Seq(Spelled), cs \in T PROVE <<x>> \o cs \in T
  <2> DEFINE a == A(cs)
             u == U(cs)
             y == Utf8Of[x]
  <2>1. a \in Seq(Byte) /\ u \in Seq(Byte)
    BY TextTypes
  <2>2. A(<<x>> \o cs) = x \o a /\ U(<<x>> \o cs) = y \o u
    BY TextTypes
  <2>3. /\ Recoded(a, Acp, Utf8) = u /\ Recoded(u, Utf8, Acp) = a /\ Weight(a) = Weight(u)
        /\ ~Holds(a, 0 .. 31) /\ ~Holds(u, 0 .. 31)
    BY <1>2
  <2>4. /\ x \in Seq(Byte) /\ y \in Seq(Byte) /\ Weight(x) = Weight(y)
        /\ ~Holds(x, 0 .. 31) /\ ~Holds(y, 0 .. 31)
    BY Character
  <2>5. \A t \in Seq(Byte) :
           /\ Recoded(x \o t, Acp, Utf8) = y \o Recoded(t, Acp, Utf8)
           /\ Recoded(y \o t, Utf8, Acp) = x \o Recoded(t, Utf8, Acp)
    BY Character
  <2> HIDE DEF a, u, y, A, U
  <2>6. Recoded(x \o a, Acp, Utf8) = y \o u /\ Recoded(y \o u, Utf8, Acp) = x \o a
    BY <2>1, <2>3, <2>5
  <2>7. Weight(x \o a) = Weight(y \o u)
    BY <2>1, <2>3, <2>4, WeightFront
  <2>8. ~Holds(x \o a, 0 .. 31) /\ ~Holds(y \o u, 0 .. 31)
    BY <2>1, <2>3, <2>4, HoldsFront
  <2>9. <<x>> \o cs \in Seq(Spelled)
    BY FirstAndRest
  <2> QED  BY <2>2, <2>6, <2>7, <2>8, <2>9
<1>3. \A cs \in Seq(Spelled) : cs \in T
  <2> HIDE DEF T
  <2> QED  BY <1>1, <1>2, ListInduction
<1> QED  BY <1>3

(* Without a 0, a C string holds all of a text.                            *)
LEMMA CStringWhole == \A s \in Seq(Byte) : ~Holds(s, {0}) => CString(s) = s
<1> SUFFICES ASSUME NEW s \in Seq(Byte), ~Holds(s, {0}) PROVE CString(s) = s
  OBVIOUS
<1> DEFINE e == <<>>
<1>1. e \in Seq(Byte) /\ CString(e) = e
  BY CStringOfNothing
<1>2. s \o e = s
  OBVIOUS
<1> HIDE DEF e
<1>3. CString(s \o e) = s \o CString(e)
  BY <1>1, CStringFront
<1> QED  BY <1>1, <1>2, <1>3

-----------------------------------------------------------------------------
(* What parse_request decodes of the href of a name.                       *)
Sent(cs) == Encoded(Utf8Text(cs))
Decoded(cs) == DecodeUrl(Sent(cs))

(* A name with an escape of its own, of which the decoded href has lost    *)
(* track: it has a control character, or fewer of the bytes counted.       *)
Control == 1 .. 15
Astray(cs) ==
    /\ HasEscape(AcpText(cs))
    /\ Holds(CString(Decoded(cs)), Control) \/ Weight(CString(Decoded(cs))) < Weight(Utf8Text(cs))
Arrives(cs) == Decoded(cs) = Utf8Text(cs) \/ Astray(cs)

(* The types of the href of a name and of what is made of it.              *)
LEMMA SentTypes ==
    /\ \A cs \in Seq(Spelled) : /\ AcpText(cs) \in Seq(Byte) /\ Utf8Text(cs) \in Seq(Byte)
                                /\ Sent(cs) \in Seq(Byte) /\ Decoded(cs) \in Seq(Byte)
                                /\ CString(Decoded(cs)) \in Seq(Byte)
                                /\ Weight(CString(Decoded(cs))) \in Nat
                                /\ Weight(Utf8Text(cs)) \in Nat
    /\ Sent(<<>>) = <<>> /\ Decoded(<<>>) = <<>> /\ Utf8Text(<<>>) = <<>>
<1>1. ASSUME NEW cs \in Seq(Spelled)
      PROVE  /\ AcpText(cs) \in Seq(Byte) /\ Utf8Text(cs) \in Seq(Byte)
             /\ Sent(cs) \in Seq(Byte) /\ Decoded(cs) \in Seq(Byte)
             /\ CString(Decoded(cs)) \in Seq(Byte)
             /\ Weight(CString(Decoded(cs))) \in Nat
             /\ Weight(Utf8Text(cs)) \in Nat
  <2>1. AcpText(cs) \in Seq(Byte) /\ Utf8Text(cs) \in Seq(Byte)
    BY TextTypes
  <2>2. Sent(cs) \in Seq(Byte)
    BY <2>1, EncodedTypes DEF Sent
  <2>3. Decoded(cs) \in Seq(Byte)
    BY <2>2, DecodeTypes DEF Decoded
  <2>4. CString(Decoded(cs)) \in Seq(Byte)
    BY <2>3, CStringTypes
  <2> QED  BY <2>1, <2>2, <2>3, <2>4, WeightTypes
<1>2. Utf8Text(<<>>) = <<>>
  BY TextTypes
<1>3. Sent(<<>>) = <<>>
  BY <1>2, EncodedTypes DEF Sent
<1>4. Decoded(<<>>) = <<>>
  BY <1>3, DecodeOfNothing DEF Decoded
<1> QED  BY <1>1, <1>2, <1>3, <1>4

(* Where the first character comes back as it was, the rest decides.       *)
LEMMA ArrivesAfter ==
    ASSUME NEW x \in Spelled, NEW cs \in Seq(Spelled),
           Decoded(<<x>> \o cs) = Utf8Of[x] \o Decoded(cs), Arrives(cs)
    PROVE  Arrives(<<x>> \o cs)
<1> DEFINE y == Utf8Of[x]
           all == <<x>> \o cs
           d == Decoded(cs)
           c == CString(d)
           u == Utf8Text(cs)
           a == AcpText(cs)
<1>1. Utf8Text(all) = y \o u /\ AcpText(all) = x \o a
  BY TextTypes
<1>2. CASE d = u
  BY <1>1, <1>2 DEF Arrives
<1>3. CASE Astray(cs)
  <2>1. HasEscape(a) /\ (Holds(c, Control) \/ Weight(c) < Weight(u))
    BY <1>3 DEF Astray
  <2>2. x \in Seq(Byte) /\ y \in Seq(Byte) /\ ~Holds(y, {0})
    <3>1. x \in Seq(Byte) /\ y \in Seq(Byte) /\ ~Holds(y, 0 .. 31)
      BY Character
    <3> HIDE DEF y
    <3> QED  BY <3>1 DEF Holds
  <2>3. a \in Seq(Byte) /\ u \in Seq(Byte) /\ d \in Seq(Byte) /\ c \in Seq(Byte)
    BY SentTypes
  <2>4. CString(y \o d) = y \o c
    <3> HIDE DEF y, d
    <3> QED  BY <2>2, <2>3, CStringFront
  <2>5. Decoded(all) = y \o d
    OBVIOUS
  <2> HIDE DEF y, all, d, c, u, a
  <2>6. HasEscape(x \o a)
    BY <2>1, <2>2, <2>3, EscapeFront
  <2>7. Holds(c, Control) => Holds(y \o c, Control)
    BY <2>2, <2>3, HoldsFront
  <2>8. Weight(c) < Weight(u) => Weight(y \o c) < Weight(y \o u)
    <3>1. Weight(y \o c) = Weight(y) + Weight(c) /\ Weight(y \o u) = Weight(y) + Weight(u)
      BY <2>2, <2>3, WeightFront
    <3>2. Weight(y) \in Nat /\ Weight(c) \in Nat /\ Weight(u) \in Nat
      BY <2>2, <2>3, WeightTypes
    <3> QED  BY <3>1, <3>2
  <2>9. Astray(all)
    BY <1>1, <2>1, <2>4, <2>5, <2>6, <2>7, <2>8 DEF Astray
  <2> QED  BY <2>9 DEF Arrives, all
<1> QED  BY <1>2, <1>3 DEF Arrives

(* Text that begins with an escape, for a character that cannot go on with *)
(* one: its first byte is neither a digit nor an "x".                      *)
BeginsEscaped(y, s) ==
    \E b \in Byte, v, r \in Seq(Byte) :
       s = <<Percent>> \o r /\ y = <<b>> \o v /\ b \notin HexDigit /\ b \notin {88, 120}

(* The href of a name begins with its first character, or with a '%'.      *)
LEMMA SentStarts ==
    ASSUME NEW y \in Spelled, NEW cs \in Seq(Spelled)
    PROVE  \/ \E a \in Letter : y = <<a>> /\ Utf8Of[y] = <<a>> /\ Sent(<<y>> \o cs) = <<a>> \o Sent(cs)
           \/ BeginsEscaped(y, Sent(<<y>> \o cs))
<1> DEFINE s == Sent(<<y>> \o cs)
           e == Sent(cs)
<1>1. Utf8Of[y] \in Seq(Byte) /\ y \in Seq(Byte) /\ Utf8Text(cs) \in Seq(Byte) /\ e \in Seq(Byte)
  BY Character, SentTypes
<1>2. s = Encoded(Utf8Of[y]) \o e
  <2>1. Utf8Text(<<y>> \o cs) = Utf8Of[y] \o Utf8Text(cs)
    BY TextTypes
  <2>2. Encoded(Utf8Of[y] \o Utf8Text(cs)) = Encoded(Utf8Of[y]) \o Encoded(Utf8Text(cs))
    BY <1>1, EncodedTypes
  <2> QED  BY <2>1, <2>2 DEF Sent
<1>3. ASSUME NEW c \in Byte, c = Space \/ c > 127, NEW t \in Seq(Byte), Utf8Of[y] = <<c>> \o t
      PROVE  \E r \in Seq(Byte) : s = <<Percent>> \o r
  <2> DEFINE f == Encoded(t)
  <2>1. Encoded(<<c>> \o t) = EncodedByte(c) \o f /\ f \in Seq(Byte)
    BY EncodedTypes
  <2>2. EncodedByte(c) \in Seq(Byte)
    BY DecodeEncodedByte
  <2>3. EncodedByte(c) = <<Percent, Hex(c \div 16), Hex(c % 16)>>
    BY <1>3 DEF EncodedByte, Escaped
  <2> DEFINE h == Hex(c \div 16)
             l == Hex(c % 16)
             g == EncodedByte(c) \o f
             all == g \o e
  <2>4. g \in Seq(Byte) /\ Len(g) = Len(EncodedByte(c)) + Len(f)
        /\ \A i \in 1 .. Len(EncodedByte(c)) : g[i] = EncodedByte(c)[i]
    BY <2>1, <2>2, Front
  <2>5. Len(EncodedByte(c)) = 3 /\ EncodedByte(c)[1] = Percent
    BY <2>3
  <2>6. Len(f) \in Nat
    BY <2>1
  <2> HIDE DEF g, f, e
  <2>7. Len(g) \in Nat /\ Len(g) >= 1 /\ g[1] = Percent
    BY <2>4, <2>5, <2>6
  <2>8. all \in Seq(Byte) /\ Len(all) = Len(g) + Len(e)
        /\ \A i \in 1 .. Len(g) : all[i] = g[i]
    BY <1>1, <2>4, Front
  <2>9. Len(e) \in Nat
    BY <1>1
  <2>10. s = all
    BY <1>2, <1>3, <2>1 DEF g, f
  <2> HIDE DEF all, s
  <2>11. Len(all) # 0 /\ all[1] = Percent
    BY <2>7, <2>8, <2>9
  <2>12. Drop(all, 1) \in Seq(Byte) /\ all = <<all[1]>> \o Drop(all, 1)
    BY <2>8, <2>11, Split
  <2> QED  BY <2>10, <2>11, <2>12
<1>4. ASSUME NEW l \in Letter, y = <<l>>, Utf8Of[y] = <<l>>, l # Space
      PROVE  s = <<l>> \o e
  <2>1. l \in Byte /\ l < 128 /\ ~(l > 127)
    <3>1. l \in Byte /\ l < 128
      BY Letters
    <3>2. l \in Int
      BY <3>1 DEF Byte
    <3> QED  BY <3>1, <3>2
  <2>2. EncodedByte(l) = <<l>>
    BY <1>4, <2>1 DEF EncodedByte
  <2> DEFINE n == <<>>
  <2>3. <<l>> \o n = <<l>> /\ n \in Seq(Byte)
    BY <2>1
  <2>4. Encoded(n) = n
    BY EncodedTypes
  <2>5. Encoded(<<l>> \o n) = EncodedByte(l) \o Encoded(n)
    BY <2>1, <2>3, EncodedTypes
  <2> HIDE DEF n
  <2> QED  BY <1>2, <1>4, <2>2, <2>3, <2>4, <2>5
<1>5. ASSUME NEW l \in Letter, y = <<l>>, Utf8Of[y] = <<l>>, l = Space
      PROVE  BeginsEscaped(y, s)
  <2> DEFINE n == <<>>
  <2>1. l \in Byte /\ l \notin HexDigit /\ l \notin {88, 120}
    BY <1>5, Letters DEF Space, HexDigit
  <2>2. n \in Seq(Byte) /\ <<l>> = <<l>> \o n
    BY <2>1
  <2> HIDE DEF n
  <2>3. PICK r \in Seq(Byte) : s = <<Percent>> \o r
    BY <1>3, <1>5, <2>1, <2>2
  <2> HIDE DEF s
  <2> QED  BY <1>5, <2>1, <2>2, <2>3 DEF BeginsEscaped
<1>6. ASSUME NEW w \in Wide, y = Acp[w], Utf8Of[y] = Utf8[w]
      PROVE  BeginsEscaped(y, s)
  <2>1. /\ Len(Acp[w]) # 0 /\ Acp[w][1] > 127 /\ Acp[w] \in Seq(Byte)
        /\ Len(Utf8[w]) # 0 /\ Utf8[w][1] > 127 /\ Utf8[w] \in Seq(Byte)
    BY BothEncodings DEF IsEncoding
  <2> DEFINE b == Acp[w][1]
             v == Drop(Acp[w], 1)
             c == Utf8[w][1]
             t == Drop(Utf8[w], 1)
  <2>2. b \in Byte /\ v \in Seq(Byte) /\ Acp[w] = <<b>> \o v
    BY <2>1, Split
  <2>3. c \in Byte /\ t \in Seq(Byte) /\ Utf8[w] = <<c>> \o t
    BY <2>1, Split
  <2>4. b > 127 /\ c > 127
    BY <2>1
  <2> HIDE DEF b, v, c, t
  <2>5. PICK r \in Seq(Byte) : s = <<Percent>> \o r
    BY <1>3, <1>6, <2>3, <2>4
  <2>6. b \notin HexDigit /\ b \notin {88, 120}
    <3>1. b \in Int
      BY <2>2 DEF Byte
    <3>2. \A d \in HexDigit : d \in Int /\ d < 128
      <4>1. \A d \in HexDigit : d \in Byte /\ d < 128
        BY HexDigits
      <4>2. \A d \in Byte : d \in Int
        BY DEF Byte
      <4> QED  BY <4>1, <4>2
    <3> QED  BY <2>4, <3>1, <3>2
  <2> HIDE DEF s
  <2>7. y = <<b>> \o v
    BY <1>6, <2>2
  <2> QED  BY <2>2, <2>5, <2>6, <2>7, Zenon DEF BeginsEscaped
<1> QED  BY <1>4, <1>5, <1>6, CharacterCases

(* What a byte below 16 does to a text when it comes out of an escape: it  *)
(* stays, a control character, or ends the C string, if it is 0.           *)
LEMMA CutShort ==
    ASSUME NEW v \in Byte, NEW t \in Seq(Byte), v \in Low,
           NEW u, Weight(u) \in Nat, Weight(u) >= 1
    PROVE  \/ Holds(CString(<<v>> \o t), Control)
           \/ Weight(CString(<<v>> \o t)) < Weight(u)
<1>1. CString(t) \in Seq(Byte)
  BY CStringTypes
<1>2. CString(<<v>> \o t) = IF v = 0 THEN <<>> ELSE <<v>> \o CString(t)
  BY CStringUnfolds
<1>3. CASE v = 0
  <2>1. Weight(CString(<<v>> \o t)) = 0
    BY <1>2, <1>3, WeightTypes
  <2> QED  BY <2>1
<1>4. CASE v # 0
  <2>1. v \in Control
    BY <1>4 DEF Low, Control
  <2> DEFINE c == CString(t)
  <2>2. CString(<<v>> \o t) = <<v>> \o c /\ c \in Seq(Byte)
    BY <1>1, <1>2, <1>4
  <2> HIDE DEF c
  <2>3. Holds(<<v>> \o c, Control)
    BY <2>1, <2>2, HoldsFirst
  <2> QED  BY <2>2, <2>3
<1> QED  BY <1>3, <1>4

(* A '%' and two letters that make an escape: they are decoded to one      *)
(* byte, which is a control character, ends the C string, or leaves fewer  *)
(* of the bytes counted.                                                   *)
LEMMA TwoLetters ==
    ASSUME NEW p \in Spelled, NEW x \in Spelled, NEW y \in Spelled, NEW cs \in Seq(Spelled),
           NEW a \in Byte, NEW b \in Byte, NEW v, HexValue(a, b) = {v},
           Sent(<<p>> \o (<<x>> \o (<<y>> \o cs))) = Three(Percent, a, b, Sent(cs)),
           AcpText(<<p>> \o (<<x>> \o (<<y>> \o cs))) = Three(Percent, a, b, AcpText(cs)),
           Utf8Text(<<p>> \o (<<x>> \o (<<y>> \o cs))) = Three(Percent, a, b, Utf8Text(cs)),
           Arrives(cs)
    PROVE  Astray(<<p>> \o (<<x>> \o (<<y>> \o cs)))
<1> DEFINE all == <<p>> \o (<<x>> \o (<<y>> \o cs))
           d == Decoded(cs)
           c == CString(d)
           u == Utf8Text(cs)
           s == AcpText(cs)
<1>1. /\ u \in Seq(Byte) /\ s \in Seq(Byte) /\ d \in Seq(Byte) /\ c \in Seq(Byte)
      /\ Weight(c) \in Nat /\ Weight(u) \in Nat /\ Sent(cs) \in Seq(Byte)
  BY SentTypes
<1>2. v \in Byte /\ Decoded(all) = <<v>> \o d
  <2> DEFINE e == Sent(cs)
  <2>1. e \in Seq(Byte)
    BY <1>1
  <2>2. Sent(all) = Three(Percent, a, b, e)
    OBVIOUS
  <2> HIDE DEF e, all
  <2>3. v \in Byte /\ DecodeUrl(Three(Percent, a, b, e)) = <<v>> \o DecodeUrl(e)
    BY <2>1, DecodeThree
  <2> QED  BY <2>2, <2>3 DEF Decoded, e
<1>3. HasEscape(AcpText(all))
  <2> HIDE DEF s
  <2>1. EscapeAt(Three(Percent, a, b, s), 1) # {}
    BY <1>1, DecodeThree
  <2>2. 1 \in 1 .. Len(Three(Percent, a, b, s))
    <3>1. Percent \in Byte
      BY DEF Percent, Byte
    <3>2. Len(Three(Percent, a, b, s)) = Len(s) + 3 /\ Len(s) \in Nat
      BY <1>1, <3>1, ThreeProperties
    <3> QED  BY <3>2
  <2>3. HasEscape(Three(Percent, a, b, s))
    BY <2>1, <2>2 DEF HasEscape
  <2> QED  BY <2>3 DEF s
<1>4. /\ Weight(Three(Percent, a, b, u)) >= Weight(u) + 1
      /\ a \in Counted => Weight(Three(Percent, a, b, u)) >= Weight(u) + 2
      /\ Weight(Three(Percent, a, b, u)) \in Nat
  <2> HIDE DEF u
  <2>1. Percent \in Byte /\ Percent \in Counted
    BY DEF Percent, Byte, Counted
  <2>2. Three(Percent, a, b, u) \in Seq(Byte)
    BY <1>1, <2>1, ThreeProperties
  <2>3. Weight(Three(Percent, a, b, u)) \in Nat
    BY <2>2, WeightTypes
  <2> QED  BY <1>1, <2>1, <2>3, ThreeMembers
<1>5. Utf8Text(all) = Three(Percent, a, b, u)
  OBVIOUS
<1>6. c = u \/ Holds(c, Control) \/ Weight(c) < Weight(u)
  <2>1. CASE d = u
    <3>1. ~Holds(u, 0 .. 31)
      BY Texts
    <3> HIDE DEF u, d
    <3>2. ~Holds(u, {0})
      BY <3>1 DEF Holds
    <3>3. CString(u) = u
      BY <1>1, <3>2, CStringWhole
    <3> QED  BY <2>1, <3>3
  <2>2. CASE Astray(cs)
    BY <2>2 DEF Astray
  <2> QED  BY <2>1, <2>2 DEF Arrives
<1> DEFINE w == Three(Percent, a, b, u)
<1>7. Holds(CString(Decoded(all)), Control) \/ Weight(CString(Decoded(all))) < Weight(w)
  <2> HIDE DEF all, d, w
  <2>1. CASE v \in Low
    <3>1. Weight(w) \in Nat /\ Weight(w) >= 1
      BY <1>1, <1>4 DEF w
    <3>2. \/ Holds(CString(<<v>> \o d), Control)
          \/ Weight(CString(<<v>> \o d)) < Weight(w)
      BY <1>1, <1>2, <2>1, <3>1, CutShort
    <3> QED  BY <1>2, <3>2
  <2>2. CASE v \notin Low
    <3>1. v # 0
      BY <2>2 DEF Low
    <3>2. CString(<<v>> \o d) = <<v>> \o c
      BY <1>1, <1>2, <3>1, CStringUnfolds
    <3> HIDE DEF c, u
    <3>3. Holds(c, Control) => Holds(<<v>> \o c, Control)
      BY <1>1, <1>2, HoldsFirst
    <3>4. Weight(<<v>> \o c) = Weight(c) + (IF v \in Counted THEN 1 ELSE 0)
      BY <1>1, <1>2, WeightFirst
    <3>5. v \in Counted => a \in Counted
      BY HexValueCounted
    <3>6. Weight(c) <= Weight(u) => Weight(<<v>> \o c) < Weight(w)
      BY <1>1, <1>4, <3>4, <3>5 DEF w
    <3>7. c = u \/ Weight(c) < Weight(u) => Weight(c) <= Weight(u)
      BY <1>1
    <3> QED  BY <1>2, <1>6, <3>2, <3>3, <3>6, <3>7
  <2> QED  BY <2>1, <2>2
<1> HIDE DEF all, w
<1> QED  BY <1>3, <1>5, <1>7 DEF Astray, all, w

(* A '%' is no digit: with one after a digit, only the digit is read.      *)
LEMMA HexValuePercent ==
    ASSUME NEW a \in Byte
    PROVE  /\ \A b \in Byte : HexValue(Percent, b) = {}
           /\ \A v : HexValue(a, Percent) = {v} => v \in Low /\ a \in HexDigit
           /\ a \in HexDigit => \A b : b \notin HexDigit /\ b \notin {88, 120} => HexValue(a, b) # {}
<1>1. Percent \notin HexDigit /\ Percent \notin Blank \cup {43} /\ Percent # 45
  BY DEF Percent, HexDigit, Blank, Space
<1>2. \A b \in Byte : HexValue(Percent, b) = {}
  BY <1>1 DEF HexValue
<1>3. HexValue(a, Percent) # {} => a \in HexDigit /\ HexValue(a, Percent) = {Digit(a)}
  BY <1>1 DEF HexValue
<1>4. a \in HexDigit => Digit(a) \in Low
  BY HexDigits DEF Low
<1>5. ASSUME a \in HexDigit, NEW b, b \notin HexDigit, b \notin {88, 120}
      PROVE  HexValue(a, b) # {}
  BY <1>5 DEF HexValue
<1> QED  BY <1>2, <1>3, <1>4, <1>5

(* decode_url on a '%', a digit and a '%'.                                 *)
LEMMA DecodedShort ==
    ASSUME NEW a \in Byte, NEW v, HexValue(a, Percent) = {v}, NEW r \in Seq(Byte)
    PROVE  v \in Byte /\ DecodeUrl(Three(Percent, a, Percent, r)) = <<v>> \o DecodeUrl(r)
<1>1. Percent \in Byte
  BY DEF Percent, Byte
<1> QED  BY <1>1, DecodedThree

(* A '%' and a digit in front of a character that is escaped: the href's   *)
(* escape is cut short by the '%' of the next, and the name has one as     *)
(* well.                                                                   *)
LEMMA DigitAndCharacter ==
    ASSUME NEW p \in Spelled, NEW cs \in Seq(Spelled), p = <<Percent>>, Utf8Of[p] = <<Percent>>,
           NEW a \in Byte, NEW b \in Byte, NEW v, HexValue(a, Percent) = {v},
           b \notin HexDigit, b \notin {88, 120},
           NEW r \in Seq(Byte), Sent(<<p>> \o cs) = Three(Percent, a, Percent, r),
           NEW t \in Seq(Byte), AcpText(<<p>> \o cs) = Three(Percent, a, b, t)
    PROVE  Astray(<<p>> \o cs)
<1> DEFINE all == <<p>> \o cs
           u == Utf8Text(cs)
           w == <<Percent>> \o u
<1>p. Percent \in Byte
  BY DEF Percent, Byte
<1>1. Percent \in Byte /\ Percent \in Counted
  BY <1>p DEF Counted
<1>2. v \in Low /\ HexValue(a, b) # {}
  BY HexValuePercent
<1>3. v \in Byte /\ DecodeUrl(Three(Percent, a, Percent, r)) = <<v>> \o DecodeUrl(r)
  BY DecodedShort
<1>4. HasEscape(AcpText(all))
  <2>1. EscapeAt(Three(Percent, a, b, t), 1) # {}
    BY <1>2, DecodeThree
  <2>2. 1 \in 1 .. Len(Three(Percent, a, b, t))
    <3>1. Len(Three(Percent, a, b, t)) = Len(t) + 3 /\ Len(t) \in Nat
      BY <1>1, ThreeProperties
    <3> QED  BY <3>1
  <2>3. HasEscape(Three(Percent, a, b, t))
    BY <2>1, <2>2 DEF HasEscape
  <2> QED  BY <2>3
<1>5. Utf8Text(all) = w /\ u \in Seq(Byte)
  BY TextTypes
<1>6. Weight(w) \in Nat /\ Weight(w) >= 1
  <2> HIDE DEF u
  <2>1. Weight(w) = Weight(u) + (IF Percent \in Counted THEN 1 ELSE 0)
    BY <1>1, <1>5, WeightFirst
  <2>2. Weight(u) \in Nat
    BY <1>5, WeightTypes
  <2> HIDE DEF w
  <2> QED  BY <1>1, <2>1, <2>2
<1> DEFINE d == DecodeUrl(r)
<1>7. d \in Seq(Byte)
  BY DecodeTypes
<1>8. Decoded(all) = <<v>> \o d
  BY <1>3 DEF Decoded
<1> HIDE DEF d, w, all
<1>9. Holds(CString(<<v>> \o d), Control) \/ Weight(CString(<<v>> \o d)) < Weight(w)
  BY <1>2, <1>3, <1>6, <1>7, CutShort
<1> QED  BY <1>4, <1>5, <1>8, <1>9 DEF Astray, all

(* A '%' of a name that begins an escape in its href: the name goes        *)
(* astray.                                                                 *)
LEMMA EscapeAhead ==
    ASSUME NEW p \in Spelled, NEW cs \in Seq(Spelled), p = <<Percent>>, Utf8Of[p] = <<Percent>>,
           Sent(<<p>> \o cs) = <<Percent>> \o Sent(cs),
           EscapeAt(<<Percent>> \o Sent(cs), 1) # {},
           \A ds \in Seq(Spelled) : Len(ds) < Len(cs) => Arrives(ds)
    PROVE  Astray(<<p>> \o cs)
<1> DEFINE e == Sent(cs)
           s == <<Percent>> \o e
<1>p. Percent \in Byte
  BY DEF Percent, Byte
<1>1. e \in Seq(Byte) /\ Len(e) \in Nat
  BY SentTypes
<1>e. EscapeAt(s, 1) # {}
  OBVIOUS
<1>2. Len(e) >= 2 /\ HexValue(e[1], e[2]) # {}
  <2> HIDE DEF e
  <2>1. /\ s \in Seq(Byte) /\ Len(s) = Len(e) + 1
        /\ \A i \in 1 .. Len(e) : s[i + 1] = e[i]
    BY <1>1, <1>p, FirstAndRest
  <2> HIDE DEF s
  <2>2. HasTwoMore(s, 1) /\ HexValue(s[1 + 1], s[1 + 2]) # {}
    BY <1>e DEF EscapeAt
  <2>3. Len(e) >= 2
    BY <1>1, <2>1, <2>2 DEF HasTwoMore
  <2>4. s[1 + 1] = e[1] /\ s[2 + 1] = e[2]
    BY <1>1, <2>1, <2>3
  <2> QED  BY <2>2, <2>3, <2>4
<1>3. Len(cs) # 0
  <2> SUFFICES ASSUME Len(cs) = 0 PROVE FALSE
    OBVIOUS
  <2>1. cs = <<>>
    OBVIOUS
  <2>2. Len(e) = 0
    BY <2>1, SentTypes
  <2> QED  BY <1>2, <2>2
<1> DEFINE x == cs[1]
           ds == Drop(cs, 1)
<1>4. x \in Spelled /\ ds \in Seq(Spelled) /\ cs = <<x>> \o ds /\ Len(cs) = Len(ds) + 1
  BY <1>3, Split
<1> HIDE DEF x, ds, e, s
<1>5. e = Sent(<<x>> \o ds)
  BY <1>4 DEF e
<1>6. ~BeginsEscaped(x, e)
  <2> SUFFICES ASSUME BeginsEscaped(x, e) PROVE FALSE
    OBVIOUS
  <2>1. PICK r \in Seq(Byte) : e = <<Percent>> \o r
    BY DEF BeginsEscaped
  <2>2. e[1] = Percent
    BY <1>p, <2>1, FirstAndRest
  <2>3. e[2] \in Byte
    BY <1>1, <1>2
  <2> QED  BY <1>2, <1>p, <2>2, <2>3, HexValuePercent
<1> DEFINE f == Sent(ds)
<1>7. PICK a \in Letter : x = <<a>> /\ Utf8Of[x] = <<a>> /\ e = <<a>> \o f
  BY <1>4, <1>5, <1>6, SentStarts
<1>8. f \in Seq(Byte) /\ Len(f) \in Nat /\ a \in Byte
  BY <1>4, SentTypes, Letters
<1>9. Len(f) >= 1 /\ HexValue(a, f[1]) # {}
  <2> HIDE DEF f
  <2>1. Len(e) = Len(f) + 1 /\ e[1] = a /\ \A i \in 1 .. Len(f) : e[i + 1] = f[i]
    BY <1>7, <1>8, FirstAndRest
  <2>2. Len(f) >= 1
    BY <1>2, <1>8, <2>1
  <2>3. e[1 + 1] = f[1]
    BY <1>8, <2>1, <2>2
  <2> QED  BY <1>2, <2>1, <2>2, <2>3
<1>10. Len(ds) # 0
  <2> SUFFICES ASSUME Len(ds) = 0 PROVE FALSE
    OBVIOUS
  <2>1. ds = <<>>
    BY <1>4
  <2>2. Len(f) = 0
    BY <2>1, SentTypes
  <2> QED  BY <1>9, <2>2
<1> DEFINE y == ds[1]
           es == Drop(ds, 1)
<1>11. y \in Spelled /\ es \in Seq(Spelled) /\ ds = <<y>> \o es /\ Len(ds) = Len(es) + 1
  BY <1>4, <1>10, Split
<1> HIDE DEF y, es, f
<1>12. f = Sent(<<y>> \o es)
  BY <1>11 DEF f
<1>13. cs = <<x>> \o (<<y>> \o es)
  BY <1>4, <1>11
<1>14. /\ AcpText(<<p>> \o cs) = <<Percent>> \o (<<a>> \o (y \o AcpText(es)))
       /\ Utf8Text(<<p>> \o cs) = <<Percent>> \o (<<a>> \o (Utf8Of[y] \o Utf8Text(es)))
  <2>1. /\ AcpText(<<p>> \o cs) = p \o AcpText(cs)
        /\ Utf8Text(<<p>> \o cs) = Utf8Of[p] \o Utf8Text(cs)
    BY TextTypes
  <2>2. /\ AcpText(cs) = x \o AcpText(ds)
        /\ Utf8Text(cs) = Utf8Of[x] \o Utf8Text(ds)
    BY <1>4, TextTypes
  <2>3. /\ AcpText(ds) = y \o AcpText(es)
        /\ Utf8Text(ds) = Utf8Of[y] \o Utf8Text(es)
    BY <1>11, TextTypes
  <2> QED  BY <1>7, <2>1, <2>2, <2>3
<1>15. Sent(<<p>> \o cs) = <<Percent>> \o (<<a>> \o f)
  BY <1>7 DEF e
<1>16. CASE BeginsEscaped(y, f)
  <2>1. PICK b \in Byte, t \in Seq(Byte), r \in Seq(Byte) :
           f = <<Percent>> \o r /\ y = <<b>> \o t /\ b \notin HexDigit /\ b \notin {88, 120}
    BY <1>16 DEF BeginsEscaped
  <2>2. f[1] = Percent
    BY <1>p, <2>1, FirstAndRest
  <2>3. PICK v : HexValue(a, Percent) = {v}
    BY <1>9, <2>2, HexValueOne
  <2>4. Sent(<<p>> \o cs) = Three(Percent, a, Percent, r)
    BY <1>15, <2>1 DEF Three
  <2> DEFINE z == AcpText(es)
             k == <<b>>
  <2>5. k \in Seq(Byte)
    OBVIOUS
  <2>6. z \in Seq(Byte)
    BY <1>11, TextTypes
  <2> HIDE DEF z, k
  <2>7. (k \o t) \o z = k \o (t \o z)
    BY <2>5, <2>6, ByteConcat, Zenon
  <2>8. t \o z \in Seq(Byte)
    BY <2>6, ConcatProperties
  <2>9. AcpText(<<p>> \o cs) = Three(Percent, a, b, t \o z)
    BY <1>14, <2>1, <2>7 DEF Three, z, k
  <2> DEFINE tz == t \o z
  <2> HIDE DEF tz
  <2>10. tz \in Seq(Byte) /\ AcpText(<<p>> \o cs) = Three(Percent, a, b, tz)
    BY <2>8, <2>9 DEF tz
  <2> QED  BY <1>8, <2>1, <2>3, <2>4, <2>10, DigitAndCharacter
<1>17. ASSUME NEW b \in Letter, y = <<b>>, Utf8Of[y] = <<b>>, f = <<b>> \o Sent(es)
       PROVE  Astray(<<p>> \o cs)
  <2>1. b \in Byte
    BY Letters
  <2>2. Sent(es) \in Seq(Byte)
    BY <1>11, SentTypes
  <2>3. f[1] = b
    BY <1>17, <2>1, <2>2, FirstAndRest
  <2>h. HexValue(a, b) # {}
    BY <1>9, <2>3
  <2>4. PICK v : HexValue(a, b) = {v}
    BY <2>h, HexValueOne
  <2>5. /\ Sent(<<p>> \o cs) = Three(Percent, a, b, Sent(es))
        /\ AcpText(<<p>> \o cs) = Three(Percent, a, b, AcpText(es))
        /\ Utf8Text(<<p>> \o cs) = Three(Percent, a, b, Utf8Text(es))
    BY <1>14, <1>15, <1>17 DEF Three
  <2>6. Arrives(es)
    <3>1. Len(es) \in Nat
      BY <1>11
    <3>2. Len(es) < Len(cs)
      BY <1>4, <1>11, <3>1
    <3> QED  BY <1>11, <3>2
  <2>7. Astray(<<p>> \o (<<x>> \o (<<y>> \o es)))
    <3>1. /\ Sent(<<p>> \o (<<x>> \o (<<y>> \o es))) = Three(Percent, a, b, Sent(es))
          /\ AcpText(<<p>> \o (<<x>> \o (<<y>> \o es))) = Three(Percent, a, b, AcpText(es))
          /\ Utf8Text(<<p>> \o (<<x>> \o (<<y>> \o es))) = Three(Percent, a, b, Utf8Text(es))
      BY <1>13, <2>5
    <3> QED  BY <1>4, <1>8, <1>11, <2>1, <2>4, <2>6, <3>1, TwoLetters
  <2> QED  BY <1>13, <2>7
<1> QED  BY <1>11, <1>12, <1>16, <1>17, SentStarts

(* The href of a name is decoded into the name's UTF-8, or goes astray.    *)
LEMMA HrefArrives == \A cs \in Seq(Spelled) : Arrives(cs)
<1>1. ASSUME NEW all \in Seq(Spelled),
             \A cs \in Seq(Spelled) : Len(cs) < Len(all) => Arrives(cs)
      PROVE  Arrives(all)
  <2>1. CASE Len(all) = 0
    <3>1. all = <<>>
      BY <2>1
    <3>2. Decoded(<<>>) = Utf8Text(<<>>)
      BY SentTypes
    <3> QED  BY <3>1, <3>2 DEF Arrives
  <2>2. CASE Len(all) # 0
    <3> DEFINE p == all[1]
               cs == Drop(all, 1)
    <3>1. p \in Spelled /\ cs \in Seq(Spelled) /\ all = <<p>> \o cs /\ Len(all) = Len(cs) + 1
      BY <2>2, Split
    <3> HIDE DEF p, cs
    <3>2. Len(cs) \in Nat
      BY <3>1
    <3>3. Arrives(cs)
      BY <1>1, <3>1, <3>2
    <3> DEFINE y == Utf8Of[p]
               e == Sent(cs)
    <3>4. e \in Seq(Byte) /\ y \in Seq(Byte)
      BY <3>1, SentTypes, Character
    <3>5. Sent(<<p>> \o cs) = Encoded(y) \o e
      <4>1. Utf8Text(<<p>> \o cs) = y \o Utf8Text(cs) /\ Utf8Text(cs) \in Seq(Byte)
        BY <3>1, TextTypes
      <4>2. Encoded(y \o Utf8Text(cs)) = Encoded(y) \o Encoded(Utf8Text(cs))
        BY <3>4, <4>1, EncodedTypes
      <4> QED  BY <4>1, <4>2 DEF Sent
    <3>6. CASE ~Holds(y, {Percent})
      <4>1. DecodeUrl(Encoded(y) \o e) = y \o DecodeUrl(e)
        <5> HIDE DEF y, e
        <5> QED  BY <3>4, <3>6, DecodeEncoded
      <4>2. Decoded(<<p>> \o cs) = y \o Decoded(cs)
        BY <3>5, <4>1 DEF Decoded
      <4>3. Arrives(<<p>> \o cs)
        BY <3>1, <3>3, <4>2, ArrivesAfter
      <4> QED  BY <3>1, <4>3
    <3>7. CASE Holds(y, {Percent})
      <4>p. Percent \in Byte /\ Percent < 128
        BY DEF Percent, Byte
      <4>1. p = <<Percent>>
        BY <3>1, <3>7, Character
      <4>2. y = <<Percent>> /\ Sent(<<p>> \o cs) = <<Percent>> \o e
        <5>1. \/ \E l \in Letter : p = <<l>> /\ y = <<l>>
              \/ \E w \in Wide : p = Acp[w]
          BY <3>1, CharacterCases
        <5>2. \A w \in Wide : Acp[w][1] > 127
          BY BothEncodings DEF IsEncoding
        <5>3. p[1] = Percent
          BY <4>1
        <5>4. ~(Percent > 127)
          BY DEF Percent
        <5>5. y = <<Percent>>
          BY <4>1, <5>1, <5>2, <5>3, <5>4
        <5>6. EncodedByte(Percent) = <<Percent>>
          BY DEF EncodedByte, Percent, Space
        <5> DEFINE n == <<>>
                   k == <<Percent>>
        <5>7. k \o n = k /\ n \in Seq(Byte) /\ Encoded(n) = n
          BY <4>p, EncodedTypes
        <5>8. Encoded(<<Percent>> \o n) = EncodedByte(Percent) \o Encoded(n)
          BY <4>p, <5>7, EncodedTypes
        <5> HIDE DEF n
        <5> QED  BY <3>5, <5>5, <5>6, <5>7, <5>8
      <4> DEFINE s == <<Percent>> \o e
      <4>3. CASE EscapeAt(s, 1) = {}
        <5>1. DecodeUrl(s) = <<Percent>> \o DecodeUrl(e)
          BY <3>4, <4>3, <4>p, DecodePlain
        <5>2. Decoded(<<p>> \o cs) = y \o Decoded(cs)
          BY <4>2, <5>1 DEF Decoded
        <5>3. Arrives(<<p>> \o cs)
          BY <3>1, <3>3, <5>2, ArrivesAfter
        <5> QED  BY <3>1, <5>3
      <4>4. CASE EscapeAt(s, 1) # {}
        <5>1. Astray(<<p>> \o cs)
          <6>1. \A ds \in Seq(Spelled) : Len(ds) < Len(cs) => Arrives(ds)
            <7>1. \A ds \in Seq(Spelled) : Len(ds) \in Nat
              OBVIOUS
            <7>2. \A ds \in Seq(Spelled) : Len(ds) < Len(cs) => Len(ds) < Len(all)
              BY <3>1, <3>2, <7>1
            <7> QED  BY <1>1, <7>2
          <6> HIDE DEF s
          <6>2. EscapeAt(<<Percent>> \o Sent(cs), 1) # {} /\ Utf8Of[p] = <<Percent>>
                /\ Sent(<<p>> \o cs) = <<Percent>> \o Sent(cs)
            BY <4>2, <4>4 DEF s
          <6> QED  BY <3>1, <4>1, <6>1, <6>2, EscapeAhead
        <5> QED  BY <3>1, <5>1 DEF Arrives
      <4> QED  BY <4>3, <4>4
    <3> QED  BY <3>6, <3>7
  <2> QED  BY <2>1, <2>2
<1> DEFINE T == {cs \in Seq(Spelled) : Arrives(cs)}
<1>2. ASSUME NEW s \in Seq(Spelled), \A t \in Seq(Spelled) : Len(t) < Len(s) => t \in T
      PROVE  s \in T
  BY <1>1, <1>2
<1>3. \A s \in Seq(Spelled) : s \in T
  <2> HIDE DEF T
  <2> QED  BY <1>2, LengthInduction
<1> QED  BY <1>3

-----------------------------------------------------------------------------
(* The names of the disk and their hrefs, in these terms.                  *)
LEMMA NamesAreTexts ==
    ASSUME NEW n \in Names
    PROVE  \E cs \in Seq(Spelled) : n = AcpText(cs)
<1>1. PICK k \in 0 .. NameLen : \E cs \in [1 .. k -> Spelled] : n = Joined(cs)
  BY DEF Names, Upto, Spelled
<1>2. PICK cs \in [1 .. k -> Spelled] : n = Joined(cs)
  BY <1>1
<1>3. k \in Nat
  BY EncodingsAssumption
<1>4. cs \in Seq(Spelled) /\ DOMAIN cs = 1 .. k
  BY <1>3, FunctionIsSequence
<1>5. \A i \in 1 .. k : Itself[cs[i]] = cs[i]
  BY DEF Itself
<1>6. [i \in DOMAIN cs |-> Itself[cs[i]]] = cs
  BY <1>4, <1>5
<1>7. AcpText(cs) = Joined(cs)
  BY <1>6 DEF AcpText, Mapped
<1> QED  BY <1>2, <1>4, <1>7

(* A name is a whole C string, in either spelling, and has no control      *)
(* character.                                                              *)
LEMMA TextBytes ==
    ASSUME NEW cs \in Seq(Spelled)
    PROVE  /\ AcpText(cs) \in Seq(Byte) /\ Utf8Text(cs) \in Seq(Byte)
           /\ CString(AcpText(cs)) = AcpText(cs) /\ CString(Utf8Text(cs)) = Utf8Text(cs)
           /\ ~Holds(AcpText(cs), Low)
<1> DEFINE a == AcpText(cs)
           u == Utf8Text(cs)
<1>1. a \in Seq(Byte) /\ u \in Seq(Byte)
  BY SentTypes
<1>2. ~Holds(a, 0 .. 31) /\ ~Holds(u, 0 .. 31)
  BY Texts
<1> HIDE DEF a, u
<1>3. ~Holds(a, {0}) /\ ~Holds(u, {0}) /\ ~Holds(a, Low)
  <2>1. ASSUME NEW s, ~Holds(s, 0 .. 31) PROVE ~Holds(s, {0}) /\ ~Holds(s, Low)
    <3>1. \A i \in {0} \cup Low : i \in 0 .. 31
      BY DEF Low
    <3> QED  BY <2>1, <3>1 DEF Holds
  <2> QED  BY <1>2, <2>1
<1>4. CString(a) = a /\ CString(u) = u
  BY <1>1, <1>3, CStringWhole
<1> QED  BY <1>1, <1>3, <1>4 DEF a, u

(* encodeFilename gives the href that Sent describes                       *)
(* (http_parser.cpp:283).                                                  *)
LEMMA HrefIsSent ==
    ASSUME NEW cs \in Seq(Spelled)
    PROVE  EncodeFilename(AcpText(cs)) = Sent(cs)
<1> DEFINE u == Utf8Text(cs)
<1>1. Gb18030ToUtf8(AcpText(cs)) = u
  BY TextBytes, Texts DEF Gb18030ToUtf8
<1>2. u \in Seq(Byte)
  BY SentTypes
<1> HIDE DEF u
<1>3. \A i \in DOMAIN u : u[i] \in Byte
  BY <1>2
<1>4. \A i \in DOMAIN u : Enc[u[i]] = EncodedByte(u[i])
  BY <1>3, EncodedTypes
<1>5. [i \in DOMAIN u |-> Enc[u[i]]] = [i \in DOMAIN u |-> EncodedByte(u[i])]
  BY <1>4
<1> QED  BY <1>1, <1>5 DEF EncodeFilename, Sent, Encoded, Mapped, u

(* The name resolve_path looks up for the href of a name is that name, but *)
(* for the names that hold an escape.                                      *)
LEMMA HrefResolved ==
    ASSUME NEW n \in Names
    PROVE  ResolvedName(ParsedPath(EncodeFilename(n))) = n <=> DecodeUrl(n) = n
<1>1. PICK cs \in Seq(Spelled) : n = AcpText(cs)
  BY NamesAreTexts
<1> DEFINE u == Utf8Text(cs)
           d == Decoded(cs)
           c == CString(d)
           r == Recoded(c, Utf8, Acp)
           out == DecodeUrl(r)
<1>e. IsEncoding(Acp) /\ IsEncoding(Utf8)
  BY BothEncodings
<1>2. ResolvedName(ParsedPath(EncodeFilename(n))) = out
  BY <1>1, HrefIsSent DEF ResolvedName, ParsedPath, Utf8ToAcp, Decoded
<1>3. /\ n \in Seq(Byte) /\ u \in Seq(Byte) /\ c \in Seq(Byte)
      /\ CString(u) = u /\ ~Holds(n, Low)
      /\ Recoded(u, Utf8, Acp) = n /\ Weight(n) = Weight(u)
  BY <1>1, SentTypes, TextBytes, Texts
<1>4. d = u \/ (HasEscape(n) /\ (Holds(c, Control) \/ Weight(c) < Weight(u)))
  BY <1>1, HrefArrives DEF Arrives, Astray
<1>5. CASE d = u
  BY <1>2, <1>3, <1>5
<1>6. CASE HasEscape(n) /\ (Holds(c, Control) \/ Weight(c) < Weight(u))
  <2> HIDE DEF c, u, d
  <2>1. r \in Seq(Byte)
    BY <1>3, <1>e, RecodedTypes
  <2>2. Weight(r) <= Weight(c)
    BY <1>3, <1>e, RecodedWeight
  <2>3. Holds(c, Control) => Holds(r, Control)
    <3>1. Control \subseteq 0 .. 63
      BY DEF Control
    <3> QED  BY <1>3, <1>e, <3>1, RecodedHolds
  <2> HIDE DEF r
  <2>4. out \in Seq(Byte) /\ Weight(out) <= Weight(r)
    BY <2>1, DecodeTypes, DecodeWeight
  <2>5. Holds(r, Control) => Holds(out, Low)
    <3>1. Holds(r, Control) => Holds(r, Low)
      BY DEF Holds, Control, Low
    <3> QED  BY <2>1, <3>1, DecodeLow
  <2> HIDE DEF out
  <2>6. /\ Weight(c) \in Nat /\ Weight(r) \in Nat /\ Weight(out) \in Nat /\ Weight(n) \in Nat
    BY <1>3, <2>1, <2>4, WeightTypes
  <2>7. Weight(c) < Weight(u) => Weight(out) # Weight(n)
    BY <1>3, <2>2, <2>4, <2>6
  <2>8. out # n
    BY <1>3, <1>6, <2>3, <2>5, <2>7
  <2>9. DecodeUrl(n) # n
    <3>1. Len(DecodeUrl(n)) < Len(n) /\ Len(n) \in Nat
      BY <1>3, <1>6, DecodeShortens
    <3> QED  BY <3>1
  <2> QED  BY <1>2, <2>8, <2>9
<1> QED  BY <1>4, <1>5, <1>6

(* For every code page that EncodingsAssumption allows, any letters and    *)
(* names of any length: exactly the names that hold an escape themselves   *)
(* are not found by the href that PROPFIND lists for them                  *)
(* (http_parser.cpp:101, dav_handler.cpp:108).                             *)
THEOREM MisledAreEscapes == Misled = Escapes
  BY HrefResolved DEF Misled, Escapes

(* A file is found by the href that PROPFIND lists for it, whatever the    *)
(* connection does meanwhile, but for the names that hold an escape.       *)
THEOREM HrefsFound == Spec => []HrefsLeadBack
<1>1. HrefsLeadBack
  BY MisledAreEscapes DEF HrefsLeadBack
<1> QED  BY <1>1, PTL
=============================================================================
