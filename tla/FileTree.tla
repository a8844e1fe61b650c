------------------------------ MODULE FileTree ------------------------------
(***************************************************************************)
(* The directory tree the server publishes, as its commands see it:        *)
(* std::filesystem through core/async_fs.cpp, and PathResolver::resolve    *)
(* of ftp/ftp_command_processor.cpp.                                       *)
(*                                                                         *)
(* A node is a canonical path, whether something exists there or not.      *)
(* Operators take the disk (what each node is) and return what a call      *)
(* leaves; no operator keeps state.                                        *)
(***************************************************************************)
EXTENDS Naturals, FiniteSets

CONSTANTS Node,    \* the canonical paths in play
          Root,    \* FTPSessionState::root_directory
          NoNode,  \* the empty path
          Up,      \* Up[n]: what n/.. names
          Under,   \* pairs <<n, a>>: n is a, or lies below a
          Inside   \* the nodes whose path string starts with Root's

ASSUME TreeAssumption ==
    /\ Root \in Node /\ NoNode \notin Node
    /\ Up \in [Node -> Node]
    /\ Under \subseteq Node \X Node
    /\ \A n \in Node : <<n, n>> \in Under /\ <<n, Up[n]>> \in Under
    /\ \A k, m, n \in Node :
          <<k, m>> \in Under /\ <<m, n>> \in Under => <<k, n>> \in Under
    /\ \A n \in Node, A \in SUBSET Node :   \* nothing else is above a node
          n \in A /\ (\A m \in A : Up[m] \in A)
             => \A m \in Node : <<n, m>> \in Under => m \in A
    /\ Inside \subseteq Node
    /\ \A m, n \in Node : <<m, n>> \in Under /\ n \in Inside => m \in Inside
    /\ Root \in Inside

Kind == {"absent", "dir", "file"}

Disk == [Node -> Kind]

Exists(d, n) == d[n] # "absent"

(* What exists at n and below it. *)
Below(d, n) == {m \in Node : <<m, n>> \in Under /\ Exists(d, m)}

(* Every existing node lies in an existing directory. *)
WellFormed(d) == \A n \in Node : Exists(d, n) => d[Up[n]] = "dir"

Trees == {d \in Disk : WellFormed(d)}

(* What those who share the disk rely on in each other: a step leaves a    *)
(* tree, changes nothing outside the root, and spares the open files of    *)
(* the other side.                                                         *)
Respects(d, e, busy) ==
    /\ WellFormed(e)
    /\ \A n \in Node \ Inside : e[n] = d[n]
    /\ \A n \in busy : e[n] = "file"

(* A slip of Resolve: the test that the path lies under the root is gone. *)
ResolveAnywhere(d, n) ==
    IF Exists(d, n) /\ Exists(d, Root) THEN n ELSE NoNode

(* PathResolver::resolve on a path whose lexical form is n: canonical()    *)
(* fails on what does not exist, of the target and of the root alike.      *)
Resolve(d, n) ==
    IF Exists(d, n) /\ Exists(d, Root) /\ n \in Inside THEN n ELSE NoNode

Without(d, gone) == [n \in Node |-> IF n \in gone THEN "absent" ELSE d[n]]

(* Slips of PartialRemovals: a directory goes before what it holds; an     *)
(* open file goes too.                                                     *)
PartialRemovalsTopDown(d, n, busy) == {R \in SUBSET Below(d, n) : R \cap busy = {}}

PartialRemovalsForced(d, n, busy) == {Below(d, n)}

(* What remove_all may have removed when it meets an open file (Windows    *)
(* refuses to delete one): the directory order decides how far it got, but *)
(* a directory goes only after all it held.                                *)
PartialRemovals(d, n, busy) ==
    {R \in SUBSET Below(d, n) : R \cap busy = {} /\ \A m \in R : Below(d, m) \subseteq R}

(* create_directories succeeds unless a file is in the way.                *)
CanCreate(d, n) == \A m \in Node : <<n, m>> \in Under => d[m] # "file"

CreateDirectories(d, n) == [m \in Node |-> IF <<n, m>> \in Under THEN "dir" ELSE d[m]]

(* rename onto an existing node: MoveFileEx replaces a file by a file, and *)
(* leaves a node renamed to itself as it is; open files do not move.       *)
CanRename(d, from, to, busy) ==
    /\ Exists(d, from)
    /\ (Below(d, from) \cup {to}) \cap busy = {}
    /\ from = to \/ (d[from] = "file" /\ d[to] = "file")

Rename(d, from, to) == IF from = to THEN d ELSE [d EXCEPT ![from] = "absent"]
=============================================================================
