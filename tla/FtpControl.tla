----------------------------- MODULE FtpControl -----------------------------
(***************************************************************************)
(* How a session takes command lines out of the byte stream of its control *)
(* connection: read_command and the loop around it in ftp/ftp_session.cpp. *)
(*                                                                         *)
(* The stream is what the client will send in all; positions in it stand   *)
(* for its bytes, EndOfLine says where the '\n' are.  Three positions move *)
(* through it: the client has sent, the session has read into              *)
(* command_buffer_, and has consumed.                                      *)
(***************************************************************************)
EXTENDS Naturals

CONSTANTS StreamLen,   \* bytes the client has to send
          EndOfLine,   \* where a '\n' is
          MaybeEmpty,  \* the '\n' of lines that may have nothing before it
          ReadMax      \* what one async_read_some may return (1024)

ASSUME ControlAssumption ==
    /\ StreamLen \in Nat /\ ReadMax \in Nat \ {0}
    /\ EndOfLine \subseteq 1 .. StreamLen /\ MaybeEmpty \subseteq EndOfLine

VARIABLES client,    \* "waits" for each reply, or "pipelines"
          empty,     \* the '\n' of lines that are empty without "\r\n"
          pc,        \* "reading" in async_read_some, or "answering" a line
          sent,      \* bytes on their way or arrived
          received,  \* bytes committed to command_buffer_, ever
          consumed,  \* bytes consumed from it, ever
          answered   \* ends of the lines answered

vars == <<client, empty, pc, sent, received, consumed, answered>>

Position == 0 .. StreamLen

TypeOK ==
    /\ client \in {"waits", "pipelines"} /\ empty \subseteq EndOfLine
    /\ pc \in {"reading", "answering"}
    /\ sent \in Position /\ received \in 0 .. sent /\ consumed \in 0 .. received
    /\ answered \subseteq EndOfLine

(* A client that waits for replies sends no empty line, which has none.    *)
Init ==
    /\ \/ client = "waits" /\ empty = {}
       \/ client = "pipelines" /\ empty \in SUBSET MaybeEmpty
    /\ pc = "reading"
    /\ sent = 0 /\ received = 0 /\ consumed = 0
    /\ answered = {}

(* The lines that end in the bytes lo+1 .. hi.                             *)
Lines(lo, hi) == {e \in EndOfLine : lo < e /\ e <= hi}

Asked == Lines(0, sent) \ empty

(* A client that waits sends one line and then nothing until its answer.   *)
ClientSends ==
    /\ \E n \in sent + 1 .. StreamLen :
          /\ client = "pipelines" \/ (Asked \subseteq answered /\ \A e \in Lines(sent, n) : e = n)
          /\ sent' = n
    /\ UNCHANGED <<client, empty, pc, received, consumed, answered>>

(* The first of them, as a set.                                            *)
First(lines) == {e \in lines : \A f \in lines : e <= f}

(* A slip of Consume: what follows the line in the buffer goes with it.    *)
ConsumeAll(line, upTo) == consumed' = upTo

(* A slip of Consume: the '\n' stays in the buffer.                        *)
ConsumeButNewline(line, upTo) == consumed' = line - 1

Consume(line, upTo) == consumed' = line

(* The whole buffer is searched.                                           *)
Searches(upTo) == Lines(consumed, upTo)

(* read_command always reads before it looks at the buffer; without a line *)
(* it reads again; an empty line is dropped and the loop reads again.      *)
ReadCommand ==
    /\ pc = "reading"
    /\ \E upTo \in received + 1 .. sent :
          /\ upTo <= received + ReadMax
          /\ received' = upTo
          /\ IF Searches(upTo) = {}
               THEN UNCHANGED <<pc, consumed>>
               ELSE \E line \in First(Searches(upTo)) :
                       /\ Consume(line, upTo)
                       /\ pc' = IF line \in empty THEN "reading" ELSE "answering"
    /\ UNCHANGED <<client, empty, sent, answered>>

(* process_one_command: the reply to the line in hand is written.          *)
AnswerLine ==
    /\ pc = "answering"
    /\ answered' = answered \cup {consumed}
    /\ pc' = "reading"
    /\ UNCHANGED <<client, empty, sent, received, consumed>>

Next == ClientSends \/ ReadCommand \/ AnswerLine

Spec == Init /\ [][Next]_vars

(* Bytes that arrive are read, a command that was read is answered.  When  *)
(* the client sends is its own affair.                                     *)
FairSpec == Spec /\ WF_vars(ReadCommand) /\ WF_vars(AnswerLine)

-----------------------------------------------------------------------------
InHand == IF pc = "answering" THEN {consumed} ELSE {}

(* No line is lost or answered twice: of the lines that left the buffer,   *)
(* all but empty ones are answered, except the one being answered now, and *)
(* no other line is (ftp_session.cpp:90-96).                               *)
NoLineLost ==
    /\ answered = Lines(0, consumed) \ (empty \cup InHand)
    /\ InHand \subseteq Lines(0, consumed) \ empty

(* When the session goes to read more bytes, no whole line waits in the    *)
(* buffer (ftp_session.cpp:86), if the client waits for its replies:       *)
(* anything sent beyond a line arrives after its answer.                   *)
NoLineWaits ==
    client = "waits" /\ pc = "reading" => Lines(consumed, received) = {}

(* Every line that a client which waits has sent is answered in the end.   *)
LinesAnswered ==
    \A e \in EndOfLine : client = "waits" /\ sent >= e ~> e \in answered
=============================================================================
