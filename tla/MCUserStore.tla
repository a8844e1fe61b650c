---------------------------- MODULE MCUserStore -----------------------------
(***************************************************************************)
(* A small instance of UserStore: one home directory has a colon in it, as *)
(* any with a drive letter, and one user has a permission that the file    *)
(* does not know.                                                          *)
(***************************************************************************)
EXTENDS UserStore

CONSTANTS t1, t2

HomeFields == [h \in {"", "d:/a", "d", "/a"} |-> IF h = "d:/a" THEN <<"d", "/a">> ELSE <<h>>]

TwoPaths == {<<"/a/x", "/a">>, <<"/a/x", SharedRoot>>, <<"/b", SharedRoot>>}

TwoInfos == {
    [password |-> "p", home |-> "/a", permission |-> "FULL", enabled |-> TRUE],
    [password |-> "q", home |-> "d:/a", permission |-> "ADMIN", enabled |-> FALSE]}

TwoCalls == {
    [op |-> "authenticate", user |-> "u", password |-> "q"],
    [op |-> "check", user |-> "u", path |-> "/a/x", required |-> "ADMIN"]}
=============================================================================
