--------------------------- MODULE HttpConnection ---------------------------
(***************************************************************************)
(* One WebDAV connection: DavRequestHandler::handle_request with           *)
(* HttpParser::parse_request over the connection's streambuf.              *)
(*                                                                         *)
(* The client's requests lie one after the other in a stream of bytes; a   *)
(* byte is its position.  Request i is its head, which ends in the blank   *)
(* line, and its body.  Three positions move through the stream: what the  *)
(* client has sent, what was read into buffer_, and what was consumed from *)
(* it; buffer_ always holds consumed+1 .. received.  Bodies are opaque: no *)
(* body spells a request line or a blank line.                             *)
(***************************************************************************)
EXTENDS Integers, FiniteSets, Encodings

CONSTANTS Requests,   \* how many requests the client has to send
          HeadLen,    \* bytes of a head with its blank line
          ReadMax,    \* what one async_read_some may return (4096)
          Kind,       \* the requests a client may send
          NoLength    \* a Content-Length that is no number

Request == 1 .. Requests

ASSUME ConnectionAssumption ==
    /\ Requests \in Nat \ {0} /\ HeadLen \in Nat \ {0} /\ ReadMax \in Nat \ {0}
    /\ \A k \in Kind :
          /\ k.method \in {"GET", "HEAD", "PUT", "unknown"}
          /\ k.length \in Nat \cup {NoLength}
          /\ k.version \in {"1.0", "1.1", "missing"}
    /\ NoLength \notin Nat

VARIABLES client,    \* "waits" for each response, or "pipelines"
          script,    \* the requests it will send
          pc,        \* where handle_request is suspended, or why it ended
          request,   \* the request in hand, 0: none
          sent, received, consumed,
          body,      \* the bytes of the request's body so far
          heads,     \* how often the head of a response to i was written
          answered,  \* requests whose response is complete
          stored,    \* what each PUT wrote to its file
          torn,      \* a read ended in the middle of a head
          online     \* the client has not gone

vars == <<client, script, pc, request, sent, received, consumed, body,
          heads, answered, stored, torn, online>>

(* Where handle_request may be: "reading" a head, reading the "body",      *)
(* "handling" a request, "content" (after GET wrote its head), writing the *)
(* response ("responding"); or ended, for the reason given.                *)
Ended == {"malformed", "thrown", "version", "lost"}

PC == {"reading", "body", "handling", "content", "responding"} \cup Ended

Method(i) == script[i].method

Length(i) == IF script[i].length = NoLength THEN 0 ELSE script[i].length

(* The byte before request i.                                              *)
Begin ==
    LET before[i \in Request] ==
          IF i = 1 THEN 0 ELSE before[i - 1] + HeadLen + Length(i - 1)
    IN  before

HeadEnd(i) == Begin[i] + HeadLen

BodyEnd(i) == HeadEnd(i) + Length(i)

TypeOK ==
    /\ client \in {"waits", "pipelines"}
    /\ script \in [Request -> Kind]
    /\ pc \in PC
    /\ request \in Request \cup {0}
    /\ sent \in {0} \cup {BodyEnd(i) : i \in Request}
    /\ received \in 0 .. sent /\ consumed \in 0 .. received
    /\ body \subseteq 1 .. received
    /\ heads \in [Request -> 0 .. 2]
    /\ answered \subseteq Request
    /\ stored \in [Request -> SUBSET (1 .. received)]
    /\ torn \in BOOLEAN /\ online \in BOOLEAN

Init ==
    /\ client \in {"waits", "pipelines"}
    /\ script \in [Request -> Kind]
    /\ pc = "reading" /\ request = 0
    /\ sent = 0 /\ received = 0 /\ consumed = 0
    /\ body = {} /\ answered = {}
    /\ heads = [i \in Request |-> 0]
    /\ stored = [i \in Request |-> {}]
    /\ torn = FALSE /\ online = TRUE

-----------------------------------------------------------------------------
(* The client sends its next request; one that waits has its last answer.  *)
ClientSends ==
    /\ online
    /\ \E i \in Request :
          /\ sent = Begin[i]
          /\ client = "waits" => \A j \in 1 .. i - 1 : j \in answered
          /\ sent' = BodyEnd(i)
    /\ UNCHANGED <<client, script, pc, request, received, consumed, body,
                   heads, answered, stored, torn, online>>

ClientLeaves ==
    /\ online /\ online' = FALSE
    /\ UNCHANGED <<client, script, pc, request, sent, received, consumed, body,
                   heads, answered, stored, torn>>

(* A read that finds the stream at its end, or a write that fails (GET     *)
(* writes from its handler): the exception ends handle_request.            *)
ConnectionLost ==
    /\ ~online
    /\ \/ pc \in {"reading", "body"} /\ received = sent
       \/ pc = "handling" /\ Method(request) = "GET"
       \/ pc \in {"content", "responding"}
    /\ pc' = "lost"
    /\ UNCHANGED <<client, script, request, sent, received, consumed, body,
                   heads, answered, stored, torn, online>>

-----------------------------------------------------------------------------
(* parse_request.                                                          *)

(* The blank lines in the bytes lo+1 .. hi.                                *)
BlankLines(lo, hi) == {i \in Request : lo < HeadEnd(i) /\ HeadEnd(i) <= hi}

(* A slip of Consume: the head stays in the buffer.                        *)
ConsumeNothing(i) == consumed

(* buffer.consume(empty_line + 4): the head goes, the body stays.          *)
Consume(i) == HeadEnd(i)

(* cotent_sv: it begins with the oldest byte of the buffer, and has as many*)
(* bytes as the last read brought.                                         *)
InView(got) == consumed + got

(* The request line must be the first of the text before the blank line:   *)
(* after leftover body bytes no method is recognized.                      *)
Recognized(i) == Begin[i] = consumed /\ Method(i) # "unknown"

(* A slip of BodyComplete: it stops one byte early.                        *)
BodyCompleteButLast(i, b) == Cardinality(b) + 1 >= Length(i)

BodyComplete(i, b) == Cardinality(b) >= Length(i)

(* A slip of Unrecognized: without a request it reads again.               *)
UnrecognizedWaits == pc' = "reading"

(* An error result: handle_request logs it and returns, without a response.*)
Unrecognized == pc' = "malformed"

(* A head is recognized, and a body, if Content-Length promises one, is    *)
(* begun with what the view has after the head.                            *)
HeadParsed(i, viewEnd) ==
    /\ request' = i
    /\ consumed' = Consume(i)
    /\ IF script[i].length = NoLength
         THEN pc' = "thrown" /\ UNCHANGED body            \* stoul throws
         ELSE LET begun == IF Length(i) > 0 THEN HeadEnd(i) + 1 .. viewEnd ELSE {} IN
              /\ body' = begun
              /\ pc' = IF BodyComplete(i, begun) THEN "handling" ELSE "body"

(* The first read of parse_request and what it does until it suspends.     *)
ReadHead ==
    /\ pc = "reading"
    /\ \E got \in 1 .. ReadMax :
          /\ received + got <= sent
          /\ received' = received + got
          /\ torn' = (torn \/ \E i \in Request :
                                 Begin[i] < received + got /\ received + got < HeadEnd(i))
          /\ LET found == BlankLines(consumed, InView(got)) IN
             \/ /\ found = {}
                /\ Unrecognized /\ UNCHANGED <<request, consumed, body>>
             \/ \E i \in found :
                   /\ \A j \in found : i <= j
                   /\ IF Recognized(i)
                        THEN HeadParsed(i, InView(got))
                        ELSE /\ Unrecognized /\ consumed' = Consume(i)
                             /\ UNCHANGED <<request, body>>
    /\ UNCHANGED <<client, script, sent, heads, answered, stored, online>>

(* The loop that reads the rest of the body.  What it reads is committed   *)
(* to the buffer, and nothing consumes it.                                 *)
ReadBody ==
    /\ pc = "body"
    /\ \E got \in 1 .. ReadMax :
          /\ received + got <= sent
          /\ got <= Length(request) - Cardinality(body)
          /\ received' = received + got
          /\ body' = body \cup (received + 1 .. received + got)
          /\ pc' = IF BodyComplete(request, body') THEN "handling" ELSE "body"
    /\ UNCHANGED <<client, script, request, sent, consumed,
                   heads, answered, stored, torn, online>>

-----------------------------------------------------------------------------
(* handle_request, with the handler.                                       *)

(* DavFile::put copies content_length bytes of the body.                   *)
FirstBytes(b, n) == {p \in b : Cardinality({q \in b : q <= p}) <= n}

(* Handlers other than GET suspend nowhere: PUT has written its file.      *)
Handle ==
    /\ pc = "handling" /\ Method(request) # "GET"
    /\ pc' = "responding"
    /\ stored' = IF Method(request) = "PUT"
                   THEN [stored EXCEPT ![request] = FirstBytes(body, Length(request))]
                   ELSE stored
    /\ UNCHANGED <<client, script, request, sent, received, consumed, body,
                   heads, answered, torn, online>>

(* PUT cannot open its file; or what GET found is gone or does not open    *)
(* when it is read, with its head already written.                         *)
HandlerThrows ==
    /\ \/ pc = "handling" /\ Method(request) = "PUT"
       \/ pc = "content"
    /\ pc' = "thrown"
    /\ UNCHANGED <<client, script, request, sent, received, consumed, body,
                   heads, answered, stored, torn, online>>

HeadWritten == heads' = [heads EXCEPT ![request] = @ + 1]

(* process_get finds nothing, and its 404 is written like any response;    *)
(* or it writes the head of the resource itself.                           *)
HandleGet ==
    /\ pc = "handling" /\ Method(request) = "GET"
    /\ \/ pc' = "responding" /\ UNCHANGED heads
       \/ pc' = "content" /\ HeadWritten
    /\ UNCHANGED <<client, script, request, sent, received, consumed, body,
                   answered, stored, torn, online>>

(* process_get writes the content and returns its response, which          *)
(* handle_request will write again.                                        *)
ContentWritten ==
    /\ pc = "content"
    /\ pc' = "responding"
    /\ answered' = answered \cup {request}
    /\ UNCHANGED <<client, script, request, sent, received, consumed, body,
                   heads, stored, torn, online>>

(* A request line of two parts leaves version uninitialized.               *)
ClosesAfter(i) ==
    CASE script[i].version = "1.0" -> {TRUE}
      [] script[i].version = "1.1" -> {FALSE}
      [] OTHER                     -> {TRUE, FALSE}

Respond ==
    /\ pc = "responding"
    /\ HeadWritten
    /\ answered' = answered \cup {request}
    /\ \E close \in ClosesAfter(request) : pc' = IF close THEN "version" ELSE "reading"
    /\ body' = {} /\ request' = 0
    /\ UNCHANGED <<client, script, sent, received, consumed, stored, torn, online>>

ServerStep ==
    \/ ReadHead \/ ReadBody \/ Handle \/ HandleGet \/ HandlerThrows
    \/ ContentWritten \/ Respond \/ ConnectionLost

Next == ServerStep \/ ClientSends \/ ClientLeaves

Spec == Init /\ [][Next]_vars

(* The io_context completes every operation that can complete.             *)
FairSpec == Spec /\ WF_vars(ServerStep)

-----------------------------------------------------------------------------
(* Safety.                                                                 *)

(* Requests are taken in the order sent, each at most once, and nothing is *)
(* taken for a request that is none, whatever leftovers the buffer has:    *)
(* when one is in hand, all before it have their response, and only GET    *)
(* writes the head of its response twice (dav_handler.cpp:30-91).          *)
TakenInOrder ==
    /\ \A i \in answered : 1 .. i \subseteq answered
    /\ request # 0 => 1 .. request - 1 \subseteq answered
    /\ \A i \in Request : heads[i] > 0 => i \in answered \cup {request}
    /\ \A i \in Request : heads[i] = 2 => Method(i) = "GET"

(* A file that PUT wrote has the bytes of that request's body, all of them *)
(* and no others, in however many reads they came (http_parser.cpp:62-78): *)
(* for a client that waits, and for any client's first request.            *)
StoredIsSent ==
    \A i \in Request :
        (client = "waits" \/ i = 1) /\ i \in answered /\ Method(i) = "PUT"
            => stored[i] = HeadEnd(i) + 1 .. BodyEnd(i)

(* A client that waits is cut off without a response only when its head    *)
(* came in pieces, its method is unknown, or an earlier request on the     *)
(* connection had a body, whose bytes are still in the buffer.             *)
CutOffForCause ==
    client = "waits" /\ pc = "malformed" =>
        \/ torn
        \/ \E i \in Request : i \notin answered /\ sent = BodyEnd(i) /\ Method(i) = "unknown"
        \/ \E i \in answered : Length(i) > 0

(* When the next head is awaited, only bodies of answered requests are left*)
(* over in the buffer of a client that waits: no part of a head that is    *)
(* still to be parsed, and of the first body all of it.                    *)
LeftoverIsBody ==
    client = "waits" /\ pc = "reading" =>
        /\ received \in {0} \cup {BodyEnd(i) : i \in answered}
        /\ consumed # received => \E i \in answered : consumed = HeadEnd(i) /\ Length(i) > 0

(* Whichever href that PROPFIND lists is the target of the request in      *)
(* hand, resolve_path finds the file it was listed for: through            *)
(* encodeFilename, decode_url, the code page and decode_url again, for     *)
(* blanks, letters beyond ASCII and a bare '%', and for every name but     *)
(* those that hold an escape themselves (http_parser.cpp:101,              *)
(* dav_handler.cpp:108).                                                   *)
HrefsLeadBack == pc = "handling" => Misled = Escapes

-----------------------------------------------------------------------------
(* Liveness, under FairSpec.                                               *)

(* A request that a client which waits has sent is answered, unless the    *)
(* connection ends or the client goes.                                     *)
RequestsEnd ==
    \A i \in Request :
        client = "waits" /\ sent >= BodyEnd(i) ~> i \in answered \/ pc \in Ended \/ ~online

=============================================================================
