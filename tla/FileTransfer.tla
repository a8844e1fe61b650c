---------------------------- MODULE FileTransfer ----------------------------
(***************************************************************************)
(* The bytes of one transfer: send_file and receive_file of                *)
(* ftp/data_channel.cpp over AsyncFileBuffered and CNtFile of              *)
(* core/async_fs.hpp, which opens the file in text mode ("r+"), whatever  *)
(* its comment and the 150 reply say of binary mode.                       *)
(*                                                                         *)
(* Text mode, as the C library of Windows has it: reading turns CR LF into *)
(* LF and ends at Ctrl-Z, writing turns LF into CR LF.  A byte is one of   *)
(* "x" (any other), "cr", "lf", "sub" (Ctrl-Z).                            *)
(***************************************************************************)
EXTENDS Naturals, Sequences

CONSTANTS Content,     \* what the file may hold, and the client may send
          BufferSize   \* BUFFER_SIZE (64 KB)

Byte == {"x", "cr", "lf", "sub"}

ASSUME TransferAssumption ==
    Content \subseteq Seq(Byte) /\ BufferSize \in Nat \ {0}

VARIABLES op,        \* "RETR" or "STOR"
          old,       \* the file when it was opened
          file,      \* the file now
          source,    \* RETR: the bytes not yet read from the file, decoded;
                     \* STOR: the bytes the client has still to send
          chunk,     \* the buffer of send_file
          bytesSent, \* how much of it was sent
          total,     \* total_sent, total_received
          arrived,   \* the bytes that reached the other side
          peer,      \* the client: "open", "done" (closed at the end), "aborted"
          reply      \* 0, or the reply to the command

vars == <<op, old, file, source, chunk, bytesSent, total, arrived, peer, reply>>

TypeOK ==
    /\ op \in {"RETR", "STOR"}
    /\ old \in Seq(Byte) /\ file \in Seq(Byte) /\ source \in Seq(Byte)
    /\ chunk \in Seq(Byte) /\ bytesSent \in 0 .. Len(chunk)
    /\ total \in Nat /\ arrived \in Seq(Byte)
    /\ peer \in {"open", "done", "aborted"} /\ reply \in {0, 226, 550}

(* What reading c in text mode yields, from each byte on.                  *)
Decode(c) ==
    LET from[i \in 1 .. Len(c) + 1] ==
            IF i > Len(c) \/ c[i] = "sub" THEN <<>>
            ELSE IF c[i] = "cr" /\ i < Len(c) /\ c[i + 1] = "lf" THEN from[i + 1]
            ELSE <<c[i]>> \o from[i + 1]
    IN  from[1]

(* A slip of Encode: a CR LF the client sent is taken for a line end.      *)
EncodeOnce(c) ==
    LET upTo[i \in 0 .. Len(c)] ==
            IF i = 0 THEN <<>>
            ELSE upTo[i - 1] \o (IF c[i] = "lf" /\ i > 1 /\ c[i - 1] # "cr" THEN <<"cr", "lf">> ELSE <<c[i]>>)
    IN  upTo[Len(c)]

(* What writing c in text mode puts into the file.                         *)
Encode(c) ==
    LET upTo[i \in 0 .. Len(c)] ==
            IF i = 0 THEN <<>>
            ELSE upTo[i - 1] \o (IF c[i] = "lf" THEN <<"cr", "lf">> ELSE <<c[i]>>)
    IN  upTo[Len(c)]

(* The file is not truncated: new bytes lie over the beginning of the old. *)
Overlay(new, was) == new \o SubSeq(was, Len(new) + 1, Len(was))

Init ==
    /\ op \in {"RETR", "STOR"}
    /\ old \in Content /\ file = old
    /\ IF op = "RETR" THEN source = Decode(old) ELSE source \in Content
    /\ chunk = <<>> /\ bytesSent = 0 /\ total = 0
    /\ arrived = <<>> /\ peer = "open" /\ reply = 0

Smaller(m, n) == IF m < n THEN m ELSE n

Running(cmd) == op = cmd /\ reply = 0

(* A slip of ReadChunk: the count of sent bytes is not reset.              *)
ReadChunkKeepsCount ==
    /\ Running("RETR") /\ bytesSent = Len(chunk)
    /\ LET n == Smaller(BufferSize, Len(source)) IN
         /\ chunk' = SubSeq(source, 1, n)
         /\ source' = SubSeq(source, n + 1, Len(source))
         /\ reply' = IF n = 0 THEN 226 ELSE 0
    /\ UNCHANGED <<op, old, file, bytesSent, total, arrived, peer>>

(* A slip of ReadChunk: the loop does not stop at the end of the file.     *)
ReadChunkForEver ==
    /\ Running("RETR") /\ bytesSent = Len(chunk)
    /\ LET n == Smaller(BufferSize, Len(source)) IN
         /\ chunk' = SubSeq(source, 1, n)
         /\ source' = SubSeq(source, n + 1, Len(source))
         /\ bytesSent' = 0
    /\ UNCHANGED <<op, old, file, total, arrived, peer, reply>>

(* send_file: the next bytes of the file, or its end, when it is closed.   *)
ReadChunk ==
    /\ Running("RETR") /\ bytesSent = Len(chunk)
    /\ LET n == Smaller(BufferSize, Len(source)) IN
         /\ chunk' = SubSeq(source, 1, n)
         /\ source' = SubSeq(source, n + 1, Len(source))
         /\ bytesSent' = 0
         /\ reply' = IF n = 0 THEN 226 ELSE 0
    /\ UNCHANGED <<op, old, file, total, arrived, peer>>

(* A slip of NextPiece: the buffer is sent from its beginning again.       *)
NextPieceFromStart(k) == SubSeq(chunk, 1, k)

NextPiece(k) == SubSeq(chunk, bytesSent + 1, bytesSent + k)

(* One async_send takes some of the bytes offered to it.                   *)
SendSome ==
    /\ Running("RETR") /\ peer = "open"
    /\ \E k \in 1 .. Len(chunk) - bytesSent :
          /\ arrived' = arrived \o NextPiece(k)
          /\ bytesSent' = bytesSent + k
          /\ total' = total + (IF bytesSent + k = Len(chunk) THEN Len(chunk) ELSE 0)
    /\ UNCHANGED <<op, old, file, source, chunk, peer, reply>>

SendFails ==
    /\ Running("RETR") /\ bytesSent < Len(chunk) /\ peer # "open"
    /\ reply' = 550
    /\ UNCHANGED <<op, old, file, source, chunk, bytesSent, total, arrived, peer>>

(* receive_file: async_read_some returns some of what was sent, and it is  *)
(* written behind what was written before.                                 *)
ReceiveSome ==
    /\ Running("STOR")
    /\ \E k \in 1 .. Smaller(BufferSize, Len(source)) :
          /\ arrived' = arrived \o SubSeq(source, 1, k)
          /\ source' = SubSeq(source, k + 1, Len(source))
          /\ total' = total + k
    /\ file' = Overlay(Encode(arrived'), old)
    /\ UNCHANGED <<op, old, chunk, bytesSent, peer, reply>>

(* At the end of the stream async_read_some throws; it never returns 0.    *)
ReceiveEnds ==
    /\ Running("STOR") /\ source = <<>> /\ peer # "open"
    /\ reply' = 550
    /\ UNCHANGED <<op, old, file, source, chunk, bytesSent, total, arrived, peer>>

(* The client has sent all and closes the data connection.                 *)
ClientFinishes ==
    /\ Running("STOR") /\ peer = "open" /\ source = <<>>
    /\ peer' = "done"
    /\ UNCHANGED <<op, old, file, source, chunk, bytesSent, total, arrived, reply>>

(* The client breaks off; what it had still to send is never sent.         *)
ClientAborts ==
    /\ reply = 0 /\ peer = "open"
    /\ peer' = "aborted"
    /\ source' = IF op = "STOR" THEN <<>> ELSE source
    /\ UNCHANGED <<op, old, file, chunk, bytesSent, total, arrived, reply>>

ServerMoves == ReadChunk \/ SendSome \/ SendFails \/ ReceiveSome \/ ReceiveEnds

Next == ServerMoves \/ ClientFinishes \/ ClientAborts

Spec == Init /\ [][Next]_vars

(* The network moves bytes, and a client that has sent all closes.         *)
FairSpec == Spec /\ WF_vars(ServerMoves) /\ WF_vars(ClientFinishes)

-----------------------------------------------------------------------------
IsPrefix(s, t) == Len(s) <= Len(t) /\ s = SubSeq(t, 1, Len(s))

(* RETR delivers the file as text mode reads it, in order, without gap or  *)
(* repetition however the sends split it, and its 226 means all of it.     *)
RetrDelivers ==
    op = "RETR" =>
        /\ IsPrefix(arrived, Decode(file))
        /\ reply = 226 => arrived = Decode(file) /\ total = Len(arrived)

(* STOR onto a file no longer than what is stored, then RETR, returns what *)
(* was stored: the two text conversions undo each other, but for Ctrl-Z.   *)
StorThenRetr ==
    /\ op = "STOR" /\ Len(old) <= Len(Encode(arrived))
    /\ \A i \in 1 .. Len(arrived) : arrived[i] # "sub"
    => Decode(file) = arrived

(* A transfer comes to an end.                                             *)
TransferEnds == <>(reply # 0)

-----------------------------------------------------------------------------
(* data_channel.cpp:197, "connection closed": the client closing the data  *)
(* connection is the normal end of STOR, not an error.                     *)
StorEndsWell == op = "STOR" /\ peer = "done" /\ reply # 0 => reply = 226
=============================================================================
