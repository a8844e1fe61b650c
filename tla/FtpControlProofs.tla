-------------------------- MODULE FtpControlProofs --------------------------
(***************************************************************************)
(* Proofs about FtpControl: for every stream, every split of it into reads *)
(* and either kind of client, no command line is lost or answered twice,   *)
(* and a client that waits never leaves a whole line in the buffer.        *)
(***************************************************************************)
EXTENDS FtpControl, TLAPS

(* Where lines end are positions of the stream.                            *)
LEMMA LineEnds ==
    /\ StreamLen \in Nat /\ MaybeEmpty \subseteq EndOfLine
    /\ \A e \in EndOfLine : e \in Nat /\ 0 < e /\ e <= StreamLen
  BY ControlAssumption

(* A client that waits has one line on the way at most, the last thing it  *)
(* sent, and none while its line is answered.                              *)
OneAtATime ==
    client = "waits" =>
        /\ empty = {}
        /\ pc = "answering" => Lines(consumed, sent) = {}
        /\ \A e \in Lines(consumed, sent) : e = sent

(* The inductive invariant.                                                *)
ControlInv == TypeOK /\ NoLineLost /\ NoLineWaits /\ OneAtATime

(* A step of read_command: how far it has read, and the line it takes.     *)
LEMMA ReadStep ==
    ASSUME ReadCommand
    PROVE  \E upTo \in received + 1 .. sent :
              /\ received' = upTo
              /\ \/ Lines(consumed, upTo) = {} /\ UNCHANGED <<pc, consumed>>
                 \/ \E line \in Lines(consumed, upTo) :
                       /\ \A e \in Lines(consumed, upTo) : line <= e
                       /\ consumed' = line
                       /\ pc' = IF line \in empty THEN "reading" ELSE "answering"
  BY DEF ReadCommand, Searches, First, Consume

(* Initially nothing was sent, read or consumed.                           *)
LEMMA ControlInit == Init => ControlInv
<1> SUFFICES ASSUME Init PROVE ControlInv
  OBVIOUS
<1>1. TypeOK
  BY LineEnds DEF Init, TypeOK, Position
<1>2. \A n \in Nat : Lines(n, 0) = {}
  BY LineEnds DEF Lines
<1>3. NoLineLost /\ NoLineWaits /\ OneAtATime
  BY <1>2 DEF Init, NoLineLost, InHand, NoLineWaits, OneAtATime
<1> QED  BY <1>1, <1>3 DEF ControlInv

(* read_command takes the first line there is, so it passes over none.     *)
LEMMA ReadKeeps == ControlInv /\ ReadCommand => ControlInv'
<1> SUFFICES ASSUME ControlInv, ReadCommand PROVE ControlInv'
  OBVIOUS
<1> USE DEF ControlInv
<1>1. UNCHANGED <<client, empty, sent, answered>> /\ pc = "reading"
  BY DEF ReadCommand
<1>2. PICK upTo \in received + 1 .. sent :
        /\ received' = upTo
        /\ \/ Lines(consumed, upTo) = {} /\ UNCHANGED <<pc, consumed>>
           \/ \E line \in Lines(consumed, upTo) :
                 /\ \A e \in Lines(consumed, upTo) : line <= e
                 /\ consumed' = line
                 /\ pc' = IF line \in empty THEN "reading" ELSE "answering"
  BY ReadStep
<1>3. received' \in 0 .. sent' /\ consumed' \in 0 .. received' /\ pc' \in {"reading", "answering"}
  BY <1>1, <1>2, LineEnds DEF TypeOK, Position, Lines
<1>4. TypeOK'
  BY <1>1, <1>3 DEF TypeOK
<1>5. CASE Lines(consumed, upTo) = {} /\ UNCHANGED <<pc, consumed>>
  BY <1>1, <1>2, <1>4, <1>5, LineEnds DEF NoLineLost, InHand, NoLineWaits, OneAtATime, Lines
<1>6. ASSUME NEW line \in Lines(consumed, upTo),
             \A e \in Lines(consumed, upTo) : line <= e,
             consumed' = line,
             pc' = IF line \in empty THEN "reading" ELSE "answering"
      PROVE  ControlInv'
  <2>1. Lines(0, line) = Lines(0, consumed) \cup {line}
    BY <1>2, <1>6, LineEnds DEF Lines, TypeOK, Position
  <2>2. line \notin Lines(0, consumed)
    BY <1>6, LineEnds DEF Lines, TypeOK, Position
  <2>3. answered = Lines(0, consumed) \ empty
    BY <1>1 DEF NoLineLost, InHand
  <2>4. NoLineLost'
    <3>1. CASE line \in empty
      BY <1>1, <1>6, <2>1, <2>3, <3>1 DEF NoLineLost, InHand
    <3>2. CASE line \notin empty
      BY <1>1, <1>6, <2>1, <2>2, <2>3, <3>2 DEF NoLineLost, InHand
    <3> QED  BY <3>1, <3>2
  <2>5. client = "waits" => line = sent /\ pc' = "answering"
    BY <1>1, <1>2, <1>6, LineEnds DEF OneAtATime, Lines, TypeOK, Position
  <2>6. Lines(sent, sent) = {}
    BY LineEnds DEF Lines, TypeOK, Position
  <2>7. NoLineWaits' /\ OneAtATime'
    BY <1>1, <1>6, <2>5, <2>6 DEF NoLineWaits, OneAtATime
  <2> QED  BY <1>4, <2>4, <2>7
<1> QED  BY <1>2, <1>5, <1>6

(* A client that waits sends only when all it asked is answered.           *)
LEMMA SendKeeps == ControlInv /\ ClientSends => ControlInv'
<1> SUFFICES ASSUME ControlInv, ClientSends PROVE ControlInv'
  OBVIOUS
<1> USE DEF ControlInv
<1>1. PICK n \in sent + 1 .. StreamLen :
        /\ client = "pipelines" \/ (Asked \subseteq answered /\ \A e \in Lines(sent, n) : e = n)
        /\ sent' = n
  BY DEF ClientSends
<1>2. UNCHANGED <<client, empty, pc, received, consumed, answered>>
  BY DEF ClientSends
<1>3. TypeOK'
  BY <1>1, <1>2, LineEnds DEF TypeOK, Position
<1>4. NoLineLost' /\ NoLineWaits'
  BY <1>2 DEF NoLineLost, InHand, NoLineWaits
<1>5. ASSUME client = "waits" PROVE OneAtATime'
  <2>1. empty = {} /\ Lines(0, sent) \subseteq Lines(0, consumed) \ InHand
    BY <1>1, <1>5 DEF OneAtATime, NoLineLost, Asked
  <2>2. pc = "reading"
    BY <2>1, LineEnds DEF InHand, NoLineLost, TypeOK, Position, Lines
  <2>3. Lines(consumed, sent) = {}
    BY <2>1, LineEnds DEF TypeOK, Position, Lines
  <2>4. \A e \in Lines(consumed, n) : e = n
    BY <1>1, <1>5, <2>3, LineEnds DEF Lines, TypeOK, Position
  <2> QED  BY <1>1, <1>2, <2>1, <2>2, <2>4 DEF OneAtATime
<1>6. OneAtATime'
  BY <1>2, <1>5 DEF OneAtATime
<1> QED  BY <1>3, <1>4, <1>6

(* The line in hand becomes the last one answered.                         *)
LEMMA AnswerKeeps == ControlInv /\ AnswerLine => ControlInv'
<1> SUFFICES ASSUME ControlInv, AnswerLine PROVE ControlInv'
  OBVIOUS
<1> USE DEF ControlInv
<1>1. InHand = {consumed} /\ consumed \in Lines(0, consumed) \ empty
  BY DEF AnswerLine, InHand, NoLineLost
<1>2. TypeOK'
  BY <1>1, LineEnds DEF AnswerLine, TypeOK, Lines
<1>3. NoLineLost'
  BY <1>1 DEF AnswerLine, NoLineLost, InHand
<1>4. NoLineWaits'
  BY LineEnds DEF AnswerLine, NoLineWaits, OneAtATime, Lines, TypeOK, Position
<1>5. OneAtATime'
  BY DEF AnswerLine, OneAtATime
<1> QED  BY <1>2, <1>3, <1>4, <1>5

(* Every step keeps the invariant.                                         *)
LEMMA ControlStep == ControlInv /\ [Next]_vars => ControlInv'
<1>1. ControlInv /\ UNCHANGED vars => ControlInv'
  BY DEF vars, ControlInv, TypeOK, NoLineLost, InHand, NoLineWaits, OneAtATime
<1> QED  BY <1>1, ReadKeeps, SendKeeps, AnswerKeeps DEF Next

(* It always holds.                                                        *)
LEMMA ControlInvariant == Spec => []ControlInv
  BY ControlInit, ControlStep, PTL DEF Spec

(* Positions stay in the stream, and answers are answers to lines.         *)
THEOREM ControlTyping == Spec => []TypeOK
<1>1. ControlInv => TypeOK  BY DEF ControlInv
<1> QED  BY <1>1, ControlInvariant, PTL

(* However the stream is split, every line that left the buffer is         *)
(* answered once, but for the one in hand and empty ones.                  *)
THEOREM LinesKept == Spec => []NoLineLost
<1>1. ControlInv => NoLineLost  BY DEF ControlInv
<1> QED  BY <1>1, ControlInvariant, PTL

(* A session that reads on for a client that waits has no whole line.      *)
THEOREM NoLineLeftWaiting == Spec => []NoLineWaits
<1>1. ControlInv => NoLineWaits  BY DEF ControlInv
<1> QED  BY <1>1, ControlInvariant, PTL
=============================================================================
