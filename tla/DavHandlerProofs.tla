-------------------------- MODULE DavHandlerProofs --------------------------
(***************************************************************************)
(* Proofs about DavHandler: its types; that every step of a WebDAV handler,*)
(* whatever FTP does between its calls, is one that FtpSession allows other*)
(* programs; and that GET sends as much as it announced.                   *)
(***************************************************************************)
EXTENDS DavHandler, FileTreeProofs

-----------------------------------------------------------------------------
(* The inductive invariant.                                                *)

ConnOK ==
    /\ pc \in [Conn -> PC]
    /\ request \in [Conn -> Request]
    /\ code \in [Conn -> Code]

DiskOK ==
    /\ moved \in [Conn -> BOOLEAN]
    /\ disk \in Disk
    /\ content \in [Node -> Content]

TreeOK ==
    /\ WellFormed(disk)
    /\ ftpOpen \in SUBSET FtpOpens
    /\ \A n \in ftpOpen : disk[n] = "file"

Away == {"closed", "idle", "reply"}

(* A request names nodes, and once resolved, nodes inside the root whose   *)
(* way there from outside exists: what create_directories finds missing    *)
(* lies inside.                                                            *)
PathOK(place, r) ==
    /\ place \notin Away => r.node \in Node
    /\ place = "received" => r.todo = {}
    /\ place \notin Away \cup {"received"} =>
          /\ r.node \in Inside
          /\ r.method \in Transfers => r.dest \in Inside
          /\ r.todo \subseteq Inside
          /\ \A m \in Node \ Inside : <<r.node, m>> \in Under => disk[m] = "dir"

PathsOK == \A c \in Conn : PathOK(pc[c], request[c])

DavInv == ConnOK /\ DiskOK /\ TreeOK /\ PathsOK

(* The type invariant is part of the inductive one.                        *)
LEMMA TypeParts == DavInv => TypeOK
  BY DEF TypeOK, DavInv, ConnOK, DiskOK, TreeOK

-----------------------------------------------------------------------------
(* What a step of connection c does to the connections.                    *)

Becomes(c) ==
    \E place \in PC, r \in Request, status \in Code :
        /\ pc' = [pc EXCEPT ![c] = place]
        /\ request' = [request EXCEPT ![c] = r]
        /\ code' = [code EXCEPT ![c] = status]
        /\ PathOK(place, r)

(* A request that was read is a request.                                   *)
LEMMA NewRequestTypes ==
    ASSUME NEW m \in Method, NEW n \in Node \cup {NoNode}, NEW to \in Node \cup {NoNode},
           NEW keep \in BOOLEAN, NEW v \in Content
    PROVE  NewRequest(m, n, to, keep, v) \in Request
  BY HandlerAssumption DEF NewRequest, Request

(* So is what stands for none.                                             *)
LEMMA NoRequestTypes == NoRequest \in Request
  BY NewRequestTypes, HandlerAssumption DEF NoRequest, Method, Pathless

(* A handler that answers moves its own connection only.                   *)
LEMMA AnswerBecomes ==
    ASSUME ConnOK, NEW c \in Conn, NEW status \in Code, Answer(c, status)
    PROVE  Becomes(c)
<1>1. "reply" \in PC /\ PathOK("reply", NoRequest)
  BY DEF PC, PathOK, Away
<1> QED  BY <1>1, NoRequestTypes DEF Answer, Becomes

(* So does one that throws.                                                *)
LEMMA ThrowBecomes == ASSUME ConnOK, NEW c \in Conn, Throw(c) PROVE Becomes(c)
<1>1. "closed" \in PC /\ PathOK("closed", NoRequest)
  BY DEF PC, PathOK, Away
<1>2. code' = [code EXCEPT ![c] = code[c]] /\ code[c] \in Code
  BY DEF ConnOK, Throw, Go
<1> QED  BY <1>1, <1>2, NoRequestTypes DEF Throw, Go, Becomes

(* A handler that goes on, with its request changed to r.                  *)
LEMMA ChangeBecomes ==
    ASSUME ConnOK, NEW c \in Conn, NEW place \in PC, NEW r \in Request, PathOK(place, r),
           request' = [request EXCEPT ![c] = r], Go(c, place)
    PROVE  Becomes(c)
<1>1. code' = [code EXCEPT ![c] = code[c]] /\ code[c] \in Code
  BY DEF ConnOK, Go
<1> QED  BY <1>1 DEF Go, Becomes

(* So does one that goes on with the same request.                         *)
LEMMA GoBecomes ==
    ASSUME ConnOK, NEW c \in Conn, NEW place \in PC, PathOK(place, request[c]),
           Go(c, place), UNCHANGED request
    PROVE  Becomes(c)
<1>1. request' = [request EXCEPT ![c] = request[c]] /\ request[c] \in Request
  BY DEF ConnOK
<1> QED  BY <1>1, ChangeBecomes

(* A resolved request that goes on to visit nodes inside the root.         *)
LEMMA TodoBecomes ==
    ASSUME ConnOK, NEW c \in Conn, NEW place \in PC \ {"received"}, NEW todo \in SUBSET Inside,
           PathsOK, pc[c] \notin Away \cup {"received"},
           request' = [request EXCEPT ![c].todo = todo], Go(c, place)
    PROVE  Becomes(c)
<1> DEFINE r == [request[c] EXCEPT !.todo = todo]
<1>1. r \in Request
  <2>1. todo \in SUBSET Node
    BY TreeAssumption
  <2>2. request[c] \in Request
    BY DEF ConnOK
  <2> QED  BY <2>1, <2>2 DEF Request
<1>2. request' = [request EXCEPT ![c] = r]
  BY DEF ConnOK
<1>3. /\ request[c] \in Request
      /\ r.node = request[c].node /\ r.dest = request[c].dest
      /\ r.method = request[c].method /\ r.todo = todo
  BY DEF ConnOK, Request
<1>4. PathOK(pc[c], request[c])
  BY DEF PathsOK
<1>5. PathOK(place, r)
  BY <1>3, <1>4, TreeAssumption DEF PathOK
<1> HIDE DEF r
<1> QED  BY <1>1, <1>2, <1>5, ChangeBecomes

(* So does one that strikes an entry off its list.                         *)
LEMMA TodoShrinks ==
    ASSUME ConnOK, NEW c \in Conn, NEW n, PathsOK, pc[c] \notin Away \cup {"received"},
           request' = [request EXCEPT ![c].todo = @ \ {n}], UNCHANGED <<pc, code>>
    PROVE  Becomes(c)
<1>1. request[c].todo \ {n} \in SUBSET Inside
  BY DEF PathsOK, PathOK
<1>2. request' = [request EXCEPT ![c].todo = request[c].todo \ {n}]
  BY DEF ConnOK
<1>3. pc[c] \in PC \ {"received"} /\ Go(c, pc[c])
  BY DEF ConnOK, Go
<1> QED  BY <1>1, <1>2, <1>3, TodoBecomes

(* What holds of a request that has been resolved.                         *)
LEMMA Resolved ==
    ASSUME ConnOK, PathsOK, NEW c \in Conn, pc[c] \notin Away \cup {"received"}
    PROVE  /\ Target(c) \in Inside
           /\ request[c].method \in Transfers => Dest(c) \in Inside
           /\ request[c].todo \subseteq Inside
           /\ \A place \in PC \ {"received"} : PathOK(place, request[c])
  BY DEF PathsOK, PathOK, Target, Dest, ConnOK

(* What lies under a path inside the root is inside.                       *)
LEMMA UnderInside ==
    ASSUME NEW n \in Inside PROVE {m \in Node : <<m, n>> \in Under} \in SUBSET Inside
  BY TreeAssumption

(* The places and codes the actions name.                                  *)
LEMMA Places ==
    /\ "there" \in PC /\ "missing" \in PC /\ "made" \in PC /\ "resolved" \in PC
    /\ "moved" \in PC /\ "writing" \in PC /\ "removing" \in PC /\ "copying" \in PC
    /\ "head" \in PC /\ "content" \in PC /\ "received" \in PC /\ "idle" \in PC
    /\ "reply" \in PC /\ "closed" \in PC
    /\ 200 \in Code /\ 201 \in Code /\ 204 \in Code /\ 207 \in Code /\ 403 \in Code
    /\ 404 \in Code /\ 405 \in Code /\ 409 \in Code /\ 412 \in Code /\ NoCode \in Code
    /\ \A place \in Running \cup Reading : place \notin Away
  BY DEF PC, Running, Reading, Code, Away

(* Every handler moves its own connection only, to a typed request.        *)
LEMMA RunsBecome ==
    ASSUME DavInv, NEW c \in Conn, Runs(c)
    PROVE  Becomes(c)
<1>0. ConnOK /\ PathsOK /\ DiskOK /\ WellFormed(disk) /\ request[c] \in Request
  BY DEF DavInv, TreeOK, ConnOK
<1> USE <1>0, Places
<1> DEFINE Active == pc[c] \notin Away \cup {"received"}
<1>1. CASE ResolvePaths(c)
  <2>1. CASE Answer(c, 200) \/ Answer(c, 404) \/ Throw(c)
    BY <2>1, AnswerBecomes, ThrowBecomes
  <2>2. CASE /\ Go(c, "resolved") /\ UNCHANGED request
             /\ Resolve(disk, Target(c)) # NoNode
             /\ request[c].method \in Transfers => Dest(c) # NoNode /\ Resolve(disk, Dest(c)) # NoNode
    <3>1. Target(c) \in Node /\ Target(c) = request[c].node /\ Dest(c) = request[c].dest
      BY <1>1 DEF PathsOK, PathOK, ResolvePaths, Away, Target, Dest
    <3>2. Target(c) \in Inside /\ Exists(disk, Target(c))
      BY <2>2 DEF Resolve
    <3>3. request[c].method \in Transfers => Dest(c) \in Inside
      BY <2>2 DEF Resolve
    <3>4. \A m \in Node \ Inside : <<Target(c), m>> \in Under => disk[m] = "dir"
      BY <3>1, <3>2, AboveIsDirectory DEF DiskOK
    <3>5. request[c].todo = {}
      BY <1>1 DEF PathsOK, PathOK, ResolvePaths
    <3>6. PathOK("resolved", request[c])
      BY <3>1, <3>2, <3>3, <3>4, <3>5 DEF PathOK
    <3> QED  BY <2>2, <3>6, GoBecomes
  <2> QED  BY <1>1, <2>1, <2>2 DEF ResolvePaths
<1>2. CASE LookUp(c)
  <2>1. Active
    BY <1>2 DEF LookUp, Away
  <2>2. CASE Does(c, "MKCOL") /\ ~Exists(disk, Target(c))
    <3> DEFINE todo == {m \in Above(Target(c)) : ~Exists(disk, m)}
    <3>1. todo \in SUBSET Inside
      BY <2>1, Resolved DEF Above, PathOK, Exists, Target, PathsOK
    <3>2. Go(c, "missing") /\ request' = [request EXCEPT ![c].todo = todo]
      BY <1>2, <2>2 DEF LookUp, Does
    <3> HIDE DEF todo
    <3> QED  BY <2>1, <3>1, <3>2, TodoBecomes
  <2>3. CASE ~(Does(c, "MKCOL") /\ ~Exists(disk, Target(c)))
    <3>1. \/ Answer(c, 405) \/ Answer(c, 404) \/ Answer(c, 207)
          \/ Go(c, "there") /\ UNCHANGED request
          \/ Go(c, "missing") /\ UNCHANGED request
      BY <1>2, <2>3 DEF LookUp
    <3> QED  BY <2>1, <3>1, AnswerBecomes, GoBecomes, Resolved
  <2> QED  BY <2>2, <2>3
<1>3. CASE IsDirectory(c)
  <2>1. Active
    BY <1>3 DEF IsDirectory, Away
  <2>2. CASE Answer(c, 405)
    BY <2>2, AnswerBecomes
  <2>3. CASE /\ Go(c, "made")
             /\ request' = [request EXCEPT ![c].collection = (disk[Target(c)] = "dir")]
    <3>0. PICK isDirectory \in BOOLEAN : isDirectory = (disk[Target(c)] = "dir")
      OBVIOUS
    <3> DEFINE r == [request[c] EXCEPT !.collection = isDirectory]
    <3>1. r \in Request /\ request' = [request EXCEPT ![c] = r]
      <4>1. request' = [request EXCEPT ![c].collection = isDirectory]
        BY <2>3, <3>0, Zenon
      <4> QED  BY <4>1 DEF Request, ConnOK
    <3>2. /\ r.node = request[c].node /\ r.dest = request[c].dest
          /\ r.method = request[c].method /\ r.todo = request[c].todo
      BY DEF Request
    <3>3. PathOK("made", r)
      BY <2>1, <3>2, Resolved DEF PathOK
    <3> HIDE DEF r
    <3> QED  BY <2>3, <3>1, <3>3, ChangeBecomes
  <2> QED  BY <1>3, <2>2, <2>3 DEF IsDirectory
<1>4. CASE PutCreates(c)
  <2>1. Active
    BY <1>4 DEF PutCreates, Away
  <2> QED  BY <2>1, <1>4, AnswerBecomes, GoBecomes, Resolved DEF PutCreates
<1>5. CASE MkcolCreates(c)
  <2>1. Active
    BY <1>5 DEF MkcolCreates, Away
  <2>2. CASE Answer(c, 201) \/ Answer(c, 409)
    BY <2>2, AnswerBecomes
  <2>3. CASE \E n \in NextMissing(c) :
               /\ request' = [request EXCEPT ![c].todo = @ \ {n}]
               /\ UNCHANGED <<pc, code>>
    BY <2>1, <2>3, TodoShrinks
  <2> QED  BY <1>5, <2>2, <2>3 DEF MkcolCreates
<1>6. CASE GetHead(c)
  <2>1. Active
    BY <1>6 DEF GetHead, Away
  <2>2. CASE Answer(c, 200)
    BY <2>2, AnswerBecomes
  <2>3. CASE Go(c, "head") /\ request' = [request EXCEPT ![c].announced = Size(c)]
    <3> DEFINE r == [request[c] EXCEPT !.announced = Size(c)]
    <3>1. Size(c) \in Content \cup {NoSize}
      BY <2>1, Resolved, HandlerAssumption, TreeAssumption DEF Size, DiskOK
    <3>2. r \in Request /\ request' = [request EXCEPT ![c] = r]
      BY <2>3, <3>1 DEF Request, ConnOK
    <3>3. /\ r.node = request[c].node /\ r.dest = request[c].dest
          /\ r.method = request[c].method /\ r.todo = request[c].todo
      BY DEF Request
    <3>4. PathOK("head", r)
      BY <2>1, <3>3, Resolved DEF PathOK
    <3> HIDE DEF r
    <3> QED  BY <2>3, <3>2, <3>4, ChangeBecomes
  <2> QED  BY <1>6, <2>2, <2>3 DEF GetHead
<1>7. CASE Propfind(c)
  BY <1>7, AnswerBecomes, ThrowBecomes DEF Propfind
<1>8. CASE PutOpens(c)
  <2>1. Active
    BY <1>8 DEF PutOpens, Away
  <2> QED  BY <2>1, <1>8, GoBecomes, ThrowBecomes, Resolved DEF PutOpens
<1>9. CASE PutWrites(c)
  BY <1>9, AnswerBecomes DEF PutWrites
<1>10. CASE DeleteFile(c)
  BY <1>10, AnswerBecomes, ThrowBecomes DEF DeleteFile
<1>11. CASE DeleteCollection(c)
  <2>1. Active
    BY <1>11 DEF DeleteCollection, Away
  <2>2. {n \in Node : <<n, Target(c)>> \in Under} \in SUBSET Inside
    BY <2>1, Resolved, UnderInside
  <2> QED  BY <1>11, <2>1, <2>2, TodoBecomes DEF DeleteCollection
<1>12. CASE RemoveEntry(c)
  <2>1. Active
    BY <1>12 DEF RemoveEntry, Away
  <2>2. CASE Answer(c, 204) \/ Throw(c)
    BY <2>2, AnswerBecomes, ThrowBecomes
  <2>3. CASE \E n \in NextEntry(c) :
               /\ request' = [request EXCEPT ![c].todo = @ \ {n}]
               /\ UNCHANGED <<pc, code>>
    BY <2>1, <2>3, TodoShrinks
  <2> QED  BY <1>12, <2>2, <2>3 DEF RemoveEntry
<1>13. CASE Copy(c)
  <2>1. Active /\ request[c].method \in Transfers
    BY <1>13 DEF Copy, Away, Does, Transfers
  <2>2. CASE (Go(c, "moved") /\ UNCHANGED request) \/ Throw(c)
    BY <2>1, <2>2, GoBecomes, ThrowBecomes, Resolved
  <2>3. CASE /\ Go(c, "copying")
             /\ request' = [request EXCEPT ![c].todo = {n \in Node : <<n, Dest(c)>> \in Under}]
    <3>1. {n \in Node : <<n, Dest(c)>> \in Under} \in SUBSET Inside
      BY <2>1, Resolved, UnderInside
    <3> QED  BY <2>1, <2>3, <3>1, TodoBecomes
  <2> QED  BY <1>13, <2>2, <2>3 DEF Copy
<1>14. CASE CopyEntry(c)
  <2>1. Active
    BY <1>14 DEF CopyEntry, Away
  <2>2. \E n \in request[c].todo :
               /\ request' = [request EXCEPT ![c].todo = @ \ {n}]
               /\ UNCHANGED <<pc, code>>
    BY <1>14 DEF CopyEntry
  <2> QED  BY <2>1, <2>2, TodoShrinks
<1>15. CASE CopyEnds(c)
  <2>1. Active
    BY <1>15 DEF CopyEnds, Away
  <2> QED  BY <2>1, <1>15, GoBecomes, ThrowBecomes, Resolved DEF CopyEnds
<1>16. CASE Move(c)
  <2>1. Active
    BY <1>16 DEF Move, Away
  <2> QED  BY <2>1, <1>16, GoBecomes, ThrowBecomes, Resolved DEF Move
<1>17. CASE CheckOverwrite(c)
  BY <1>17, AnswerBecomes DEF CheckOverwrite
<1>18. CASE LockOrUnlock(c)
  BY <1>18, AnswerBecomes DEF LockOrUnlock
<1> QED
  BY <1>1, <1>2, <1>3, <1>4, <1>5, <1>6, <1>7, <1>8, <1>9, <1>10, <1>11, <1>12, <1>13,
     <1>14, <1>15, <1>16, <1>17, <1>18 DEF Runs


-----------------------------------------------------------------------------
(* What a step does to the disk: what FtpSession allows other programs.    *)

Safe ==
    \E d \in Disk, k \in [Node -> Content] :
        Respects(disk, d, ftpOpen) /\ DiskBecomes(d, k)

(* A step that leaves the disk alone is safe.                              *)
LEMMA StaysSafe == ASSUME DavInv, DiskStays PROVE Safe
<1>1. {n \in Node : disk[n] # disk[n] \/ content[n] # content[n]} = {}
  OBVIOUS
<1>2. DiskBecomes(disk, content)
  BY <1>1, Zenon DEF DiskStays, DiskBecomes
<1>3. Respects(disk, disk, ftpOpen)
  BY DEF DavInv, TreeOK, Respects
<1> QED  BY <1>2, <1>3 DEF DavInv, DiskOK, Safe

(* Writing a file respects what FTP sessions rely on.                      *)
LEMMA WritingSafe ==
    ASSUME DavInv, NEW n \in Inside, NEW v \in Content, Writable(n), WrittenFile(n, v)
    PROVE  Safe
<1> DEFINE d == [disk EXCEPT ![n] = "file"]
           k == [content EXCEPT ![n] = v]
<1>1. n \in Node
  BY TreeAssumption
<1>2. d \in Disk /\ WellFormed(d)
  BY <1>1, EntryKeepsTree DEF DavInv, DiskOK, TreeOK, Writable
<1>3. k \in [Node -> Content]
  BY <1>1 DEF DavInv, DiskOK
<1>4. Respects(disk, d, ftpOpen)
  <2>1. ftpOpen \in SUBSET Node /\ \A m \in ftpOpen : d[m] = "file"
    BY HandlerAssumption, TreeAssumption DEF DavInv, DiskOK, TreeOK, Disk
  <2>2. \A m \in Node \ Inside : d[m] = disk[m]
    BY DEF DavInv, DiskOK, Disk
  <2> QED  BY <1>2, <2>1, <2>2 DEF Respects
<1>5. DiskBecomes(d, k)
  BY DEF WrittenFile
<1> HIDE DEF d, k
<1> QED  BY <1>2, <1>3, <1>4, <1>5 DEF Safe

(* A directory that is made, or is there.                                  *)
LEMMA DirectorySafe ==
    ASSUME DavInv, NEW n \in Inside,
           disk[n] = "dir" \/ (disk[n] = "absent" /\ disk[Up[n]] = "dir"),
           DiskBecomes([disk EXCEPT ![n] = "dir"], content)
    PROVE  Safe
<1> DEFINE d == [disk EXCEPT ![n] = "dir"]
<1>1. n \in Node
  BY TreeAssumption
<1>2. d \in Disk /\ WellFormed(d)
  BY <1>1, EntryKeepsTree DEF DavInv, DiskOK, TreeOK
<1>3. Respects(disk, d, ftpOpen)
  <2>1. ftpOpen \in SUBSET Node /\ \A m \in ftpOpen : d[m] = "file"
    BY HandlerAssumption, TreeAssumption DEF DavInv, DiskOK, TreeOK, Disk
  <2>2. \A m \in Node \ Inside : d[m] = disk[m]
    BY DEF DavInv, DiskOK, Disk
  <2> QED  BY <1>2, <2>1, <2>2 DEF Respects
<1> HIDE DEF d
<1> QED  BY <1>2, <1>3 DEF DavInv, DiskOK, Safe, d

(* Removed files hold contents.                                            *)
LEMMA ClearedTypes ==
    ASSUME DavInv, NEW gone PROVE Cleared(gone) \in [Node -> Content]
  BY HandlerAssumption DEF Cleared, DavInv, DiskOK

(* Removing one entry that Windows lets go respects what FTP relies on.    *)
LEMMA RemovalSafe ==
    ASSUME DavInv, NEW n \in Inside, Removable(n), Removed(n)
    PROVE  Safe
<1> DEFINE d == Without(disk, {n})
<1>1. n \in Node
  BY TreeAssumption
<1>2. d \in Disk /\ WellFormed(d)
  BY <1>1, LeafRemovalKeepsTree DEF DavInv, DiskOK, TreeOK, Removable
<1>3. Respects(disk, d, ftpOpen)
  <2>1. ftpOpen \in SUBSET Node
    BY HandlerAssumption, TreeAssumption DEF DavInv, TreeOK
  <2>2. \A m \in Node : m # n => d[m] = disk[m]
    BY DEF Without
  <2>3. n \notin ftpOpen
    BY DEF Removable
  <2> HIDE DEF d
  <2> QED  BY <1>2, <2>1, <2>2, <2>3 DEF Respects, DavInv, TreeOK
<1>4. DiskBecomes(d, Cleared({n})) /\ Cleared({n}) \in [Node -> Content]
  BY ClearedTypes DEF Removed
<1> HIDE DEF d
<1> QED  BY <1>2, <1>3, <1>4 DEF Safe

(* So does moving a file onto one that nobody has open.                    *)
LEMMA MoveFileSafe ==
    ASSUME DavInv, NEW m \in Inside, NEW n \in Inside, m # n, disk[m] = "file", Writable(n),
           ftpOpen \cap {m, n} = {}, MoveFile(m, n)
    PROVE  Safe
<1> DEFINE d == [disk EXCEPT ![m] = "absent", ![n] = "file"]
           k == MovedContent(m, n)
<1>1. m \in Node /\ n \in Node
  BY TreeAssumption
<1>2. d \in Disk /\ WellFormed(d)
  BY <1>1, MoveKeepsTree DEF DavInv, DiskOK, TreeOK, Writable
<1>3. k \in [Node -> Content]
  BY <1>1, ClearedTypes DEF MovedContent, DavInv, DiskOK
<1>4. Respects(disk, d, ftpOpen)
  <2>1. ftpOpen \in SUBSET Node /\ \A o \in ftpOpen : d[o] = "file"
    BY HandlerAssumption, TreeAssumption DEF DavInv, DiskOK, TreeOK, Disk
  <2>2. \A o \in Node \ Inside : d[o] = disk[o]
    BY DEF DavInv, DiskOK, Disk
  <2> QED  BY <1>2, <2>1, <2>2 DEF Respects
<1>5. DiskBecomes(d, k)
  BY DEF MoveFile
<1> HIDE DEF d, k
<1> QED  BY <1>2, <1>3, <1>4, <1>5 DEF Safe

(* Nothing that exists, and so no open file, lies under a name that is     *)
(* free; and what is under the moved collection is not open.               *)
LEMMA MoveTreeSafe ==
    ASSUME DavInv, NEW m \in Inside, NEW n \in Inside, disk[n] = "absent",
           ftpOpen \cap Below(disk, m) = {}, MoveTree(m, n)
    PROVE  Safe
<1>1. PICK d \in Trees :
        /\ \A o \in Node :
              <<o, n>> \notin Under => d[o] = IF <<o, m>> \in Under THEN "absent" ELSE disk[o]
        /\ DiskBecomes(d, Cleared({o \in Node : d[o] # disk[o]}))
  BY DEF MoveTree
<1>2. d \in Disk /\ WellFormed(d)
  BY DEF Trees
<1>3. \A o \in Node \ Inside : d[o] = disk[o]
  BY <1>1, TreeAssumption
<1>4. ASSUME NEW o \in ftpOpen PROVE d[o] = "file"
  <2>1. o \in Node /\ disk[o] = "file" /\ n \in Node
    BY HandlerAssumption, TreeAssumption DEF DavInv, TreeOK
  <2>2. <<o, n>> \notin Under
    BY <2>1, AboveIsDirectory DEF DavInv, DiskOK, TreeOK, Exists
  <2>3. <<o, m>> \notin Under
    BY <2>1 DEF Below, Exists
  <2> QED  BY <1>1, <2>1, <2>2, <2>3
<1>5. Respects(disk, d, ftpOpen)
  BY <1>2, <1>3, <1>4 DEF Respects
<1> QED  BY <1>1, <1>2, <1>5, ClearedTypes DEF Safe

(* Every handler changes the disk only in such ways.                       *)
LEMMA RunsSafe ==
    ASSUME DavInv, NEW c \in Conn, Runs(c)
    PROVE  Safe
<1>0. ConnOK /\ PathsOK
  BY DEF DavInv
<1> USE <1>0, Places
<1>1. CASE DiskStays
  BY <1>1, StaysSafe
<1>2. CASE PutCreates(c)
  <2>1. Target(c) \in Inside
    BY <1>2, Resolved DEF PutCreates, Away
  <2>2. 0 \in Content
    BY HandlerAssumption
  <2> QED  BY <1>2, <1>1, <2>1, <2>2, WritingSafe DEF PutCreates
<1>3. CASE MkcolCreates(c)
  <2>1. request[c].todo \subseteq Inside
    BY <1>3, Resolved DEF MkcolCreates, Away
  <2> QED  BY <1>3, <1>1, <2>1, DirectorySafe DEF MkcolCreates, NextMissing
<1>4. CASE PutOpens(c)
  <2>1. Target(c) \in Inside
    BY <1>4, Resolved DEF PutOpens, Away
  <2>2. 0 \in Content
    BY HandlerAssumption
  <2> QED  BY <1>4, <1>1, <2>1, <2>2, WritingSafe DEF PutOpens
<1>5. CASE PutWrites(c)
  <2>1. Target(c) \in Inside /\ Target(c) \in Node
    BY <1>5, Resolved, TreeAssumption DEF PutWrites, Away
  <2>2. request[c].value \in Content
    BY DEF ConnOK, Request
  <2>3. CASE disk[Target(c)] = "file"
    <3>1. disk = [disk EXCEPT ![Target(c)] = "file"]
      BY <2>1, <2>3 DEF DavInv, DiskOK, Disk
    <3>2. WrittenFile(Target(c), request[c].value)
      BY <1>5, <2>3, <3>1 DEF PutWrites, WrittenFile
    <3> QED  BY <2>1, <2>2, <2>3, <3>2, WritingSafe DEF Writable
  <2> QED  BY <1>5, <1>1, <2>3 DEF PutWrites
<1>6. CASE DeleteFile(c)
  <2>1. Target(c) \in Inside
    BY <1>6, Resolved DEF DeleteFile, Away
  <2> QED  BY <1>6, <1>1, <2>1, RemovalSafe DEF DeleteFile
<1>7. CASE RemoveEntry(c)
  <2>1. request[c].todo \subseteq Inside
    BY <1>7, Resolved DEF RemoveEntry, Away
  <2> QED  BY <1>7, <1>1, <2>1, RemovalSafe DEF RemoveEntry, NextEntry
<1>8. CASE Copy(c)
  <2>1. Target(c) \in Inside /\ Dest(c) \in Inside
    BY <1>8, Resolved DEF Copy, Does, Transfers, Away
  <2>2. content[Target(c)] \in Content
    BY <2>1, TreeAssumption DEF DavInv, DiskOK
  <2> QED  BY <1>8, <1>1, <2>1, <2>2, WritingSafe DEF Copy
<1>9. CASE CopyEntry(c)
  <2>1. request[c].todo \subseteq Inside
    BY <1>9, Resolved DEF CopyEntry, Away
  <2>2. PICK n \in request[c].todo :
          \/ Writable(n) /\ \E v \in Content : WrittenFile(n, v)
          \/ /\ disk[n] = "absent" /\ disk[Up[n]] = "dir"
             /\ DiskBecomes([disk EXCEPT ![n] = "dir"], content)
    BY <1>9 DEF CopyEntry
  <2> QED  BY <2>1, <2>2, WritingSafe, DirectorySafe
<1>10. CASE Move(c)
  <2>1. Target(c) \in Inside /\ Dest(c) \in Inside
    BY <1>10, Resolved DEF Move, Does, Transfers, Away
  <2> QED  BY <1>10, <1>1, <2>1, MoveFileSafe, MoveTreeSafe DEF Move
<1> QED
  BY <1>1, <1>2, <1>3, <1>4, <1>5, <1>6, <1>7, <1>8, <1>9, <1>10
  DEF Runs, ResolvePaths, LookUp, IsDirectory, GetHead, Propfind, DeleteCollection,
      CopyEnds, CheckOverwrite, LockOrUnlock

-----------------------------------------------------------------------------
(* The invariant is kept.                                                  *)

(* A change in such ways keeps the tree, and its paths in the root.        *)
LEMMA SafeKeeps ==
    ASSUME DavInv, Safe
    PROVE  /\ DiskOK' /\ WellFormed(disk)' /\ Respects(disk, disk', ftpOpen)
           /\ \A n \in Node \ Inside : disk'[n] = disk[n]
<1>1. PICK d \in Disk, k \in [Node -> Content] : Respects(disk, d, ftpOpen) /\ DiskBecomes(d, k)
  BY DEF Safe
<1>2. disk' = d /\ content' = k
  BY <1>1 DEF DiskBecomes
<1>3. moved' \in [Conn -> BOOLEAN]
  BY <1>1, Zenon DEF DiskBecomes, NoteChanges
<1> QED  BY <1>1, <1>2, <1>3 DEF DiskOK, Respects

(* What a request remembers of its paths stays true.                       *)
LEMMA PathKept ==
    ASSUME DavInv, \A n \in Node \ Inside : disk'[n] = disk[n], NEW place, NEW r, PathOK(place, r)
    PROVE  PathOK(place, r)'
  BY DEF PathOK

(* A step of one connection that is safe keeps the inductive invariant.    *)
LEMMA StepKeeps ==
    ASSUME DavInv, NEW c \in Conn, Becomes(c), Safe, FtpRests
    PROVE  DavInv'
<1>1. PICK place \in PC, r \in Request, status \in Code :
        /\ pc' = [pc EXCEPT ![c] = place]
        /\ request' = [request EXCEPT ![c] = r]
        /\ code' = [code EXCEPT ![c] = status]
        /\ PathOK(place, r)
  BY DEF Becomes
<1>2. ConnOK'
  BY <1>1 DEF DavInv, ConnOK
<1>3. DiskOK' /\ TreeOK'
  BY SafeKeeps DEF DavInv, TreeOK, FtpRests, Respects
<1>4. ASSUME NEW d \in Conn PROVE PathOK(pc[d], request[d])'
  <2>1. CASE d = c
    <3>1. pc'[d] = place /\ request'[d] = r
      BY <1>1, <2>1 DEF DavInv, ConnOK
    <3> QED  BY <1>1, <3>1, SafeKeeps, PathKept
  <2>2. CASE d # c
    <3>1. pc'[d] = pc[d] /\ request'[d] = request[d] /\ PathOK(pc[d], request[d])
      BY <1>1, <2>2 DEF DavInv, ConnOK, PathsOK
    <3> QED  BY <3>1, SafeKeeps, PathKept
  <2> QED  BY <2>1, <2>2
<1> QED  BY <1>2, <1>3, <1>4 DEF DavInv, PathsOK

(* Reading and writing on the socket change no disk.                       *)
LEMMA ResumesBecome ==
    ASSUME DavInv, NEW c \in Conn, Resumes(c)
    PROVE  Becomes(c) /\ Safe /\ FtpRests
<1>0. ConnOK /\ PathsOK /\ DiskOK
  BY DEF DavInv
<1> USE <1>0, Places
<1>1. CASE GetContent(c)
  <2>1. Target(c) \in Inside /\ PathOK("content", request[c])
    BY <1>1, Resolved DEF GetContent, Away
  <2>0. Safe /\ FtpRests
    BY <1>1, StaysSafe DEF GetContent
  <2>2. CASE Go(c, "content") /\ UNCHANGED request
    BY <2>1, <2>2, <2>0, GoBecomes
  <2>3. CASE Go(c, "content") /\ request' = [request EXCEPT ![c].value = content[Target(c)]]
    <3> DEFINE r == [request[c] EXCEPT !.value = content[Target(c)]]
    <3>1. content[Target(c)] \in Content
      BY <2>1, TreeAssumption DEF DiskOK
    <3>2. request[c] \in Request
      BY DEF ConnOK
    <3>3. r \in Request /\ request' = [request EXCEPT ![c] = r]
      BY <2>3, <3>1, <3>2 DEF ConnOK, Request
    <3>4. /\ r.node = request[c].node /\ r.dest = request[c].dest
          /\ r.method = request[c].method /\ r.todo = request[c].todo
      BY <3>2 DEF Request
    <3>5. PathOK("content", r)
      BY <2>1, <3>4 DEF PathOK
    <3> HIDE DEF r
    <3> QED  BY <2>3, <2>0, <3>3, <3>5, ChangeBecomes
  <2>4. CASE Throw(c)
    BY <2>4, <2>0, ThrowBecomes
  <2> QED  BY <1>1, <2>2, <2>3, <2>4 DEF GetContent
<1>2. CASE ContentWritten(c)
  BY <1>2, AnswerBecomes, StaysSafe DEF ContentWritten
<1>3. CASE Respond(c)
  <2>1. request' = [request EXCEPT ![c] = request[c]] /\ request[c] \in Request
    BY <1>3 DEF Respond, ConnOK
  <2>2. PathOK("idle", request[c])
    BY DEF PathOK, Away
  <2> QED  BY <1>3, <2>1, <2>2, StaysSafe DEF Respond, Becomes
<1> QED  BY <1>1, <1>2, <1>3 DEF Resumes

(* Nor do the clients.                                                     *)
LEMMA ClientBecomes ==
    ASSUME DavInv, NEW c \in Conn, ClientActs(c)
    PROVE  Becomes(c) /\ Safe /\ FtpRests
<1>0. ConnOK /\ PathsOK
  BY DEF DavInv
<1> USE <1>0, Places
<1>1. CASE Connect(c)
  <2>1. PathOK("idle", request[c])
    BY DEF PathOK, Away
  <2> QED  BY <1>1, <2>1, GoBecomes, StaysSafe DEF Connect
<1>2. CASE Disconnect(c)
  <2>1. PathOK("closed", NoRequest)
    BY DEF PathOK, Away
  <2> QED  BY <1>2, <2>1, NoRequestTypes, StaysSafe DEF Disconnect, Becomes
<1>3. CASE Receive(c)
  <2>1. PICK m \in Methods[c], n \in Node, to \in Node \cup {NoNode}, keep \in BOOLEAN, v \in Content :
          request' = [request EXCEPT ![c] = NewRequest(m, n, to, keep, v)]
    BY <1>3 DEF Receive
  <2>2. NewRequest(m, n, to, keep, v) \in Request
    BY NewRequestTypes, HandlerAssumption
  <2>3. PathOK("received", NewRequest(m, n, to, keep, v))
    BY DEF PathOK, Away, NewRequest
  <2> QED  BY <1>3, <2>1, <2>2, <2>3, ChangeBecomes, StaysSafe DEF Receive
<1> QED  BY <1>1, <1>2, <1>3 DEF ClientActs

(* A handler that runs leaves the files FTP has open to FTP.               *)
LEMMA RunsRest == ASSUME NEW c \in Conn, Runs(c) PROVE FtpRests
  BY DEF Runs, ResolvePaths, LookUp, IsDirectory, PutCreates, MkcolCreates, GetHead, Propfind,
         PutOpens, PutWrites, DeleteFile, DeleteCollection, RemoveEntry, Copy, CopyEntry,
         CopyEnds, Move, CheckOverwrite, LockOrUnlock

(* What other threads do to the disk is safe as well.                      *)
LEMMA OtherSafe ==
    ASSUME DavInv, FtpChangesTree \/ FtpWrites
    PROVE  Safe
<1>1. CASE FtpChangesTree
  <2>1. PICK d \in Trees :
          /\ Respects(disk, d, ftpOpen)
          /\ DiskBecomes(d, Cleared({n \in Node : d[n] # disk[n]}))
    BY <1>1 DEF FtpChangesTree
  <2> QED  BY <2>1, ClearedTypes DEF Trees, Safe
<1>2. CASE FtpWrites
  <2>1. PICK n \in Inside, v \in Content :
          disk[n] = "file" /\ DiskBecomes(disk, [content EXCEPT ![n] = v])
    BY <1>2 DEF FtpWrites
  <2>2. disk = [disk EXCEPT ![n] = "file"]
    BY <2>1, TreeAssumption DEF DavInv, DiskOK, Disk
  <2> QED  BY <2>1, <2>2, WritingSafe DEF WrittenFile, Writable
<1> QED  BY <1>1, <1>2

(* What the FTP thread does keeps the invariant.                           *)
LEMMA OtherKeeps ==
    ASSUME DavInv, OtherThread
    PROVE  DavInv'
<1>1. UNCHANGED <<pc, request, code>>
  BY DEF OtherThread, FtpChangesTree, FtpWrites, FtpOpensOrCloses
<1>2. CASE FtpChangesTree \/ FtpWrites
  <2>1. DiskOK' /\ TreeOK' /\ \A n \in Node \ Inside : disk'[n] = disk[n]
    BY <1>2, OtherSafe, SafeKeeps
    DEF DavInv, TreeOK, Respects, FtpChangesTree, FtpWrites
  <2>2. \A c \in Conn : PathOK(pc[c], request[c])'
    BY <1>1, <2>1, PathKept DEF DavInv, PathsOK
  <2> QED  BY <1>1, <2>1, <2>2 DEF DavInv, ConnOK, PathsOK
<1>3. CASE FtpOpensOrCloses
  BY <1>3 DEF FtpOpensOrCloses, DavInv, ConnOK, DiskOK, TreeOK, PathsOK, PathOK
<1> QED  BY <1>2, <1>3 DEF OtherThread

(* Every step keeps it.                                                    *)
LEMMA DavStep == ASSUME DavInv, [Next]_vars PROVE DavInv'
<1>1. CASE UNCHANGED vars
  BY <1>1 DEF vars, DavInv, ConnOK, DiskOK, TreeOK, PathsOK, PathOK
<1>2. ASSUME NEW c \in Conn, ClientActs(c) \/ Runs(c) \/ Resumes(c) PROVE DavInv'
  BY <1>2, RunsBecome, RunsSafe, RunsRest, ResumesBecome, ClientBecomes, StepKeeps
<1>3. CASE OtherThread
  BY <1>3, OtherKeeps
<1> QED  BY <1>1, <1>2, <1>3 DEF Next

(* It holds initially.                                                     *)
LEMMA DavStart == Init => DavInv
<1> SUFFICES ASSUME Init PROVE DavInv
  OBVIOUS
<1>1. ConnOK
  BY NoRequestTypes, Places DEF Init, ConnOK
<1>2. DiskOK /\ TreeOK
  BY HandlerAssumption DEF Init, DiskOK, TreeOK, Trees
<1>3. PathsOK
  BY DEF Init, PathsOK, PathOK, Away
<1> QED  BY <1>1, <1>2, <1>3 DEF DavInv

(* It always holds.                                                        *)
LEMMA DavInvariant == Spec => []DavInv
  BY DavStart, DavStep, PTL DEF Spec

(* Type correctness of the handlers (dav_handler.cpp:22-565), for any      *)
(* connections, tree and contents.                                         *)
THEOREM Typing == Spec => []TypeOK
  BY DavInvariant, TypeParts, PTL

(* Of every step: WebDAV leaves a tree, changes nothing outside the root,  *)
(* and spares what FTP has open, whatever FTP does between its calls of the*)
(* file system: it is one of the programs that FtpSession's proofs allow   *)
(* for as OtherProgram.                                                    *)
THEOREM DavRespectsFtp == Spec => RespectsFtp
<1>1. ASSUME DavInv, [Next]_vars PROVE [Respects(disk, disk', ftpOpen)]_disk
  <2>1. CASE UNCHANGED disk
    BY <2>1
  <2>2. CASE Safe
    BY <1>1, <2>2, SafeKeeps
  <2>3. Safe \/ UNCHANGED disk
    BY <1>1, RunsSafe, ResumesBecome, ClientBecomes, OtherSafe
    DEF Next, OtherThread, FtpOpensOrCloses, vars
  <2> QED  BY <2>1, <2>2, <2>3
<1> QED  BY <1>1, DavInvariant, PTL DEF Spec, RespectsFtp

-----------------------------------------------------------------------------
(* Lengths.                                                                *)

(* What is known of the lengths of one request: no body but PUT's, and as  *)
(* long as nobody touched the file, the length that was announced.         *)
LenOK(c) ==
    /\ pc[c] \in {"received", "resolved", "there", "made"} /\ ~Does(c, "PUT")
          => request[c].value = 0
    /\ pc[c] = "head" /\ request[c].collection
          => request[c].value = 0 /\ request[c].announced = 0
    /\ pc[c] = "head" /\ ~request[c].collection /\ ~moved[c] /\ disk[Target(c)] = "file"
          => request[c].announced = content[Target(c)]
    /\ pc[c] = "content" /\ ~moved[c] => request[c].value = request[c].announced

LensOK == \A c \in Conn : LenOK(c)

(* moved tells every reader whose file changed.                            *)
LEMMA MovedTells ==
    ASSUME DavInv, Safe, NEW c \in Conn, pc[c] \in Reading, ~moved'[c], pc'[c] \in Reading
    PROVE  ~moved[c] /\ disk'[Target(c)] = disk[Target(c)] /\ content'[Target(c)] = content[Target(c)]
<1>1. PICK d \in Disk, k \in [Node -> Content] : DiskBecomes(d, k)
  BY DEF Safe
<1> DEFINE changed == {n \in Node : d[n] # disk[n] \/ k[n] # content[n]}
<1>2. disk' = d /\ content' = k /\ NoteChanges(changed)
  BY <1>1 DEF DiskBecomes
<1>3. Target(c) \in Node
  BY DEF DavInv, PathsOK, PathOK, Away, Reading, Target
<1>4. ~moved[c] /\ Target(c) \notin changed
  <2> HIDE DEF changed
  <2> QED  BY <1>2 DEF NoteChanges
<1> QED  BY <1>2, <1>3, <1>4

(* A connection that does not act.                                         *)
LEMMA LenOfOthers ==
    ASSUME DavInv, Safe, NEW c \in Conn, LenOK(c), pc'[c] = pc[c], request'[c] = request[c]
    PROVE  LenOK(c)'
<1>1. CASE pc[c] \notin Reading
  BY <1>1 DEF LenOK, Does, Reading
<1>2. CASE pc[c] \in Reading /\ ~moved'[c]
  BY <1>2, MovedTells DEF LenOK, Does, Target, Reading
<1>3. CASE pc[c] \in Reading /\ moved'[c]
  BY <1>3 DEF LenOK, Does, Reading
<1> QED  BY <1>1, <1>2, <1>3

(* The connection that acts.                                               *)
LEMMA LenOfActor ==
    ASSUME DavInv, NEW c \in Conn, LenOK(c), ClientActs(c) \/ Runs(c) \/ Resumes(c)
    PROVE  LenOK(c)'
<1>0. /\ ConnOK /\ PathsOK /\ DiskOK /\ request[c] \in Request
      /\ pc \in [Conn -> PC] /\ request \in [Conn -> Request]
  BY DEF DavInv, ConnOK
<1> USE <1>0
<1> DEFINE Counts == {"received", "resolved", "there", "made", "head", "content"}
<1>1. CASE pc'[c] \notin Counts
  BY <1>1 DEF LenOK
<1>2. CASE Receive(c)
  <2>1. PICK m \in Methods[c], n \in Node, to \in Node \cup {NoNode}, keep \in BOOLEAN, v \in Content :
          /\ m # "PUT" => v = 0
          /\ request' = [request EXCEPT ![c] = NewRequest(m, n, to, keep, v)]
    BY <1>2 DEF Receive
  <2>2. pc'[c] = "received" /\ request'[c] = NewRequest(m, n, to, keep, v)
    BY <1>2, <2>1 DEF Receive, Go
  <2>3. request'[c].method = m /\ request'[c].value = v
    BY <2>2 DEF NewRequest
  <2> QED  BY <2>1, <2>2, <2>3 DEF LenOK, Does
<1>3. CASE GetHead(c) /\ pc'[c] = "head"
  <2>1. Does(c, "GET") /\ pc[c] = "made" /\ request' = [request EXCEPT ![c].announced = Size(c)]
    BY <1>3 DEF GetHead, Answer
  <2>2. request'[c] = [request[c] EXCEPT !.announced = Size(c)]
    BY <2>1
  <2>3. /\ request'[c].announced = Size(c) /\ request'[c].value = request[c].value
        /\ request'[c].collection = request[c].collection /\ request'[c].node = request[c].node
    BY <2>2 DEF Request
  <2>4. request[c].value = 0
    BY <2>1 DEF LenOK, Does
  <2>5. UNCHANGED <<disk, content>>
    BY <1>3 DEF GetHead, DiskStays
  <2> QED  BY <1>3, <2>3, <2>4, <2>5 DEF LenOK, Size, Target
<1>4. CASE GetContent(c) /\ pc'[c] = "content"
  <2>1. pc[c] = "head" /\ DiskStays
    BY <1>4 DEF GetContent
  <2>2. ~moved'[c] => ~moved[c]
    BY <1>4, <2>1, StaysSafe, MovedTells DEF Reading
  <2>3. CASE request[c].collection /\ UNCHANGED request
    BY <1>4, <2>1, <2>2, <2>3 DEF LenOK
  <2>4. CASE /\ ~request[c].collection /\ disk[Target(c)] = "file"
             /\ request' = [request EXCEPT ![c].value = content[Target(c)]]
    <3>1. request'[c] = [request[c] EXCEPT !.value = content[Target(c)]]
      BY <2>4
    <3>2. request'[c].value = content[Target(c)] /\ request'[c].announced = request[c].announced
      BY <3>1 DEF Request
    <3> QED  BY <1>4, <2>1, <2>2, <2>4, <3>2 DEF LenOK
  <2>5. ~Throw(c)
    BY <1>4 DEF Throw, Go
  <2> QED  BY <1>4, <2>3, <2>4, <2>5 DEF GetContent
<1>5. CASE /\ pc[c] \in {"received", "resolved", "there"} /\ UNCHANGED request
           /\ pc'[c] \in {"resolved", "there"}
  BY <1>5 DEF LenOK, Does
<1>6. CASE IsDirectory(c) /\ pc'[c] = "made"
  <2>1. PICK b \in BOOLEAN : request' = [request EXCEPT ![c].collection = b]
    <3>1. (disk[Target(c)] = "dir") \in BOOLEAN
      OBVIOUS
    <3>2. request' = [request EXCEPT ![c].collection = (disk[Target(c)] = "dir")]
      BY <1>6 DEF IsDirectory, Answer
    <3> QED  BY <3>1, <3>2, Zenon
  <2>2. request'[c] = [request[c] EXCEPT !.collection = b]
    BY <2>1
  <2>3. request'[c].method = request[c].method /\ request'[c].value = request[c].value
    BY <2>2 DEF Request
  <2> QED  BY <1>6, <2>3 DEF LenOK, Does, IsDirectory
<1>7. CASE PutCreates(c) /\ pc'[c] = "there"
  <2>1. Does(c, "PUT") /\ UNCHANGED request
    BY <1>7 DEF PutCreates, Answer
  <2> QED  BY <1>7, <2>1 DEF LenOK, Does
<1>8. ASSUME pc'[c] \in Counts
      PROVE  \/ Receive(c) \/ GetHead(c) \/ GetContent(c) \/ IsDirectory(c) \/ PutCreates(c)
             \/ ResolvePaths(c) \/ LookUp(c)
             \/ (RemoveEntry(c) \/ MkcolCreates(c) \/ CopyEntry(c)) /\ UNCHANGED pc
  <2>1. ~Connect(c) /\ ~Disconnect(c)
    BY <1>8 DEF Connect, Disconnect, Go
  <2>2. ~ContentWritten(c) /\ ~Respond(c)
    BY <1>8 DEF ContentWritten, Respond, Answer
  <2>3. ~Propfind(c) /\ ~PutOpens(c) /\ ~PutWrites(c)
    BY <1>8 DEF Propfind, PutOpens, PutWrites, Go, Answer, Throw
  <2>4. ~DeleteFile(c) /\ ~DeleteCollection(c)
    BY <1>8 DEF DeleteFile, DeleteCollection, Go, Answer, Throw
  <2>5. ~Copy(c) /\ ~CopyEnds(c) /\ ~Move(c)
    BY <1>8 DEF Copy, CopyEnds, Move, Go, Answer, Throw
  <2>6. ~CheckOverwrite(c) /\ ~LockOrUnlock(c)
    BY <1>8 DEF CheckOverwrite, LockOrUnlock, Go, Answer, Throw
  <2>0. Throw(c) \/ (\E k \in Code : Answer(c, k)) => FALSE
    BY <1>8 DEF Go, Answer, Throw
  <2>7. RemoveEntry(c) => UNCHANGED pc
    BY <2>0, Places DEF RemoveEntry
  <2>8. MkcolCreates(c) => UNCHANGED pc
    BY <2>0, Places DEF MkcolCreates
  <2>9. CopyEntry(c) => UNCHANGED pc
    BY DEF CopyEntry
  <2> QED  BY <2>1, <2>2, <2>3, <2>4, <2>5, <2>6, <2>7, <2>8, <2>9 DEF ClientActs, Runs, Resumes
<1>9. ASSUME pc'[c] \in Counts, ResolvePaths(c) \/ LookUp(c)
      PROVE  /\ pc[c] \in {"received", "resolved", "there"} /\ UNCHANGED request
             /\ pc'[c] \in {"resolved", "there"}
  BY <1>9 DEF ResolvePaths, LookUp, Go, Answer, Throw
<1>10. ASSUME pc'[c] \in Counts
       PROVE  ~((RemoveEntry(c) \/ MkcolCreates(c) \/ CopyEntry(c)) /\ UNCHANGED pc)
  BY <1>10 DEF RemoveEntry, MkcolCreates, CopyEntry
<1>11. ASSUME pc'[c] \in Counts
       PROVE  /\ GetHead(c) => pc'[c] = "head"
              /\ GetContent(c) => pc'[c] = "content"
              /\ IsDirectory(c) => pc'[c] = "made"
              /\ PutCreates(c) => pc'[c] = "there"
  BY <1>11 DEF GetHead, GetContent, IsDirectory, PutCreates, Go, Answer, Throw
<1> QED
  BY <1>1, <1>2, <1>3, <1>4, <1>5, <1>6, <1>7, <1>8, <1>9, <1>10, <1>11

(* A length that was taken true stays true while the file is not written.  *)
LEMMA LengthStep == ASSUME DavInv, LensOK, [Next]_vars PROVE LensOK'
<1>1. CASE UNCHANGED vars
  BY <1>1 DEF vars, LensOK, LenOK, Does, Target
<1>2. ASSUME NEW c \in Conn, ClientActs(c) \/ Runs(c) \/ Resumes(c) PROVE LensOK'
  <2>1. Becomes(c) /\ Safe
    BY <1>2, RunsBecome, RunsSafe, ResumesBecome, ClientBecomes
  <2>2. ASSUME NEW d \in Conn, d # c PROVE LenOK(d)'
    <3>1. pc'[d] = pc[d] /\ request'[d] = request[d]
      BY <2>1, <2>2 DEF Becomes, DavInv, ConnOK
    <3> QED  BY <2>1, <3>1, LenOfOthers DEF LensOK
  <2>3. LenOK(c)'
    BY <1>2, LenOfActor DEF LensOK
  <2> QED  BY <2>2, <2>3 DEF LensOK
<1>3. CASE OtherThread
  <2>1. CASE FtpChangesTree \/ FtpWrites
    <3>1. Safe /\ UNCHANGED <<pc, request>>
      BY <2>1, OtherSafe DEF FtpChangesTree, FtpWrites
    <3> QED  BY <3>1, LenOfOthers DEF LensOK
  <2>2. CASE FtpOpensOrCloses
    BY <2>2 DEF FtpOpensOrCloses, LensOK, LenOK, Does, Target
  <2> QED  BY <1>3, <2>1, <2>2 DEF OtherThread
<1> QED  BY <1>1, <1>2, <1>3 DEF Next

(* GET sends as many bytes as it announced unless the file was changed     *)
(* while the head was written; a collection announces none and sends none. *)
THEOREM LengthsAreTrue == Spec => []LengthTrue
<1>1. Init => LensOK
  BY DEF Init, LensOK, LenOK
<1>2. LensOK => LengthTrue
  BY DEF LensOK, LenOK, LengthTrue
<1> QED  BY <1>1, <1>2, LengthStep, DavInvariant, PTL DEF Spec
=============================================================================
