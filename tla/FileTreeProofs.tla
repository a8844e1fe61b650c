--------------------------- MODULE FileTreeProofs ---------------------------
(***************************************************************************)
(* What the calls of FileTree do to a well-formed disk: the lemmas that the*)
(* proofs about FTP sessions and about WebDAV handlers share.              *)
(***************************************************************************)
EXTENDS FileTree, TLAPS

(* Every directory above an existing node exists.                          *)
LEMMA AncestorsAreDirectories ==
    ASSUME NEW d \in Disk, WellFormed(d), NEW n \in Node, d[n] = "dir",
           NEW m \in Node, <<n, m>> \in Under
    PROVE  d[m] = "dir"
<1> DEFINE A == {k \in Node : d[k] = "dir"}
<1>1. \A k \in A : Up[k] \in A
  BY TreeAssumption DEF WellFormed, Exists
<1>2. n \in A /\ A \in SUBSET Node
  OBVIOUS
<1>3. \A k \in Node : <<n, k>> \in Under => k \in A
  <2> HIDE DEF A
  <2> QED  BY <1>1, <1>2, TreeAssumption
<1> QED  BY <1>3

(* create_directories of what exists changes nothing: it succeeds only on a*)
(* directory, and everything above one is a directory already.             *)
LEMMA CreatingWhatExists ==
    ASSUME NEW d \in Disk, WellFormed(d), NEW n \in Node, Exists(d, n), CanCreate(d, n)
    PROVE  CreateDirectories(d, n) = d
<1>1. d[n] = "dir"
  BY TreeAssumption DEF CanCreate, Exists, Disk, Kind
<1>2. \A m \in Node : <<n, m>> \in Under => d[m] = "dir"
  BY <1>1, AncestorsAreDirectories
<1> QED  BY <1>2 DEF CreateDirectories, Disk

(* A removal that takes with each node all that exists below it leaves a   *)
(* tree, wherever it stopped.                                              *)
LEMMA RemovalKeepsTree ==
    ASSUME NEW d \in Disk, WellFormed(d), NEW R \in SUBSET Node,
           \A m \in R : Below(d, m) \subseteq R
    PROVE  WellFormed(Without(d, R))
<1> SUFFICES ASSUME NEW n \in Node, n \notin R, Exists(d, n)
             PROVE  Up[n] \notin R /\ Up[n] \in Node /\ d[Up[n]] = "dir"
  BY TreeAssumption DEF WellFormed, Without, Exists
<1>1. Up[n] \in Node /\ <<n, Up[n]>> \in Under
  BY TreeAssumption
<1>2. d[Up[n]] = "dir"
  BY DEF WellFormed
<1>3. n \in Below(d, Up[n])
  BY <1>1 DEF Below
<1> QED  BY <1>1, <1>2, <1>3

(* What exists below an existing node is such a removal.                   *)
LEMMA BelowIsClosed ==
    ASSUME NEW d \in Disk, NEW n \in Node
    PROVE  /\ Below(d, n) \in SUBSET Node
           /\ \A m \in Below(d, n) : Below(d, m) \subseteq Below(d, n)
  BY TreeAssumption DEF Below

(* A removal below a node inside the root removes nothing outside.         *)
LEMMA BelowIsInside ==
    ASSUME NEW d \in Disk, NEW n \in Inside
    PROVE  Below(d, n) \subseteq Inside
  BY TreeAssumption DEF Below

(* A rename that succeeds removes a file, and nothing lies in a file.      *)
LEMMA RenameKeepsTree ==
    ASSUME NEW d \in Disk, WellFormed(d), NEW m \in Node, NEW n \in Node,
           NEW busy, CanRename(d, m, n, busy)
    PROVE  WellFormed(Rename(d, m, n))
  BY TreeAssumption DEF CanRename, Rename, WellFormed, Exists, Disk, Kind

(* An entry that appears in a directory, or is there already, keeps a tree.*)
LEMMA EntryKeepsTree ==
    ASSUME NEW d \in Disk, WellFormed(d), NEW n \in Node, NEW k \in {"dir", "file"},
           d[n] = k \/ (d[n] = "absent" /\ d[Up[n]] = "dir")
    PROVE  [d EXCEPT ![n] = k] \in Disk /\ WellFormed([d EXCEPT ![n] = k])
  BY TreeAssumption DEF WellFormed, Exists, Disk, Kind

(* A single node that nothing lies below can go.                           *)
LEMMA LeafRemovalKeepsTree ==
    ASSUME NEW d \in Disk, WellFormed(d), NEW n \in Node, Below(d, n) \subseteq {n}
    PROVE  Without(d, {n}) \in Disk /\ WellFormed(Without(d, {n}))
<1>1. WellFormed(Without(d, {n}))
  BY RemovalKeepsTree
<1> QED  BY <1>1 DEF Without, Disk, Kind

(* A file that moves to a free name in a directory, or onto a file.        *)
LEMMA MoveKeepsTree ==
    ASSUME NEW d \in Disk, WellFormed(d), NEW m \in Node, NEW n \in Node, m # n,
           d[m] = "file", d[n] = "file" \/ (d[n] = "absent" /\ d[Up[n]] = "dir")
    PROVE  /\ [d EXCEPT ![m] = "absent", ![n] = "file"] \in Disk
           /\ WellFormed([d EXCEPT ![m] = "absent", ![n] = "file"])
  BY TreeAssumption DEF WellFormed, Exists, Disk, Kind

(* What exists has nothing but directories above it.                       *)
LEMMA AboveIsDirectory ==
    ASSUME NEW d \in Disk, WellFormed(d), NEW n \in Node, Exists(d, n),
           NEW m \in Node, <<n, m>> \in Under, m # n
    PROVE  d[m] = "dir"
<1> DEFINE A == {k \in Node : d[k] = "dir"} \cup {n}
<1>1. \A k \in A : Up[k] \in A
  BY TreeAssumption DEF WellFormed, Exists
<1>2. n \in A /\ A \in SUBSET Node
  OBVIOUS
<1>3. \A k \in Node : <<n, k>> \in Under => k \in A
  <2> HIDE DEF A
  <2> QED  BY <1>1, <1>2, TreeAssumption
<1> QED  BY <1>3
=============================================================================
