------------------------------ MODULE MCServer ------------------------------
(***************************************************************************)
(* A small instance of Server: three clients, pools of one to three        *)
(* threads, and sockets for two clients at a time.                         *)
(***************************************************************************)
EXTENDS Server

CONSTANTS c1, c2, c3

(* Two clients of one service, one of the other.                           *)
TwoAndOne ==
    {[c \in Conn |-> IF c = c1 THEN "ftp" ELSE IF c = c2 THEN s ELSE "webdav"] : s \in Service}
=============================================================================
