-------------------------- MODULE MCHttpConnection --------------------------
(***************************************************************************)
(* A small instance of HttpConnection: three requests of every useful      *)
(* kind.  With it, the encodings of the paths in them: names of up to four *)
(* characters from "%", " ", "-", "x", the digits "4" and "0", and two     *)
(* Chinese letters, one of whose bytes in the code page is an "A".         *)
(***************************************************************************)
EXTENDS HttpConnection

CONSTANT None

Of(method, length, version) == [method |-> method, length |-> length, version |-> version]

MCKind ==
    {Of("HEAD", 0, "1.1"), Of("GET", 0, "1.1"), Of("PUT", 2, "1.1"), Of("PUT", 3, "1.1"),
     Of("HEAD", 0, "1.0"), Of("GET", 0, "missing"), Of("unknown", 0, "1.1"),
     Of("HEAD", None, "1.1")}

MCWide ==
    {[acp |-> <<214, 208>>, utf8 |-> <<228, 184, 173>>],
     [acp |-> <<129, 65>>, utf8 |-> <<228, 184, 132>>]}

MCLetter == {37, 32, 45, 120, 52, 48, 65}
=============================================================================
