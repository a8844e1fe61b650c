----------------------------- MODULE DavHandler -----------------------------
(***************************************************************************)
(* The WebDAV methods: DavRequestHandler of webdav/dav_handler.cpp with    *)
(* DavFile, DavCollection and DavResourceFactory of webdav/dav_resource.cpp*)
(* over the directory tree that FTP serves too.                            *)
(*                                                                         *)
(* All connections are coroutines of one thread: a handler that has begun  *)
(* runs until it writes to its socket.  FTP sessions and other programs run*)
(* on other threads and may act between any two calls of the file system,  *)
(* so each such call is a step.  pc says which comes next:                 *)
(*    "closed"   no connection              "idle"     reading a request   *)
(*    "received" resolving its path         "resolved" exists              *)
(*    "there"    is_directory               "made"     the method's call   *)
(*    "missing"  PUT or MKCOL of what was gone                             *)
(*    "writing"  PUT has opened its file    "removing" inside remove_all   *)
(*    "copying"  inside a recursive copy    "moved"    copy or rename done *)
(*    "head"     GET writes its head        "content"  GET writes content  *)
(*    "reply"    writing the response                                      *)
(* How requests are parsed is HttpConnection's matter.                     *)
(***************************************************************************)
EXTENDS FileTree, Integers

CONSTANTS Conn,         \* WebDAV connections
          Content,      \* what a file may hold: its size stands for it
          Methods,      \* Methods[c]: what the client of c asks for
          InitialDisk,  \* what the disk may hold when the server starts
          FtpOpens      \* files that FTP transfers may have open

Transfers == {"COPY", "MOVE"}

Pathless == {"OPTIONS", "PROPPATCH"}   \* answered without a look at the path

Method == {"GET", "HEAD", "PUT", "DELETE", "MKCOL", "PROPFIND", "LOCK", "UNLOCK"}
              \cup Transfers \cup Pathless

(* file_size of what is gone, as the unsigned number get_size returns.     *)
NoSize == -1

NoCode == 0

Code == {200, 201, 204, 207, 403, 404, 405, 409, 412, NoCode}

ASSUME HandlerAssumption ==
    /\ 0 \in Content /\ Content \subseteq Nat
    /\ Methods \in [Conn -> SUBSET Method]
    /\ InitialDisk \subseteq Trees
    /\ FtpOpens \subseteq Inside

VARIABLES pc, request, code,
          moved,      \* somebody changed the file since GET announced its size
          disk, content,
          ftpOpen     \* files FTP transfers have open

vars == <<pc, request, code, moved, disk, content, ftpOpen>>

Running == {"received", "resolved", "there", "missing", "made", "writing", "removing", "copying", "moved"}

Reading == {"head", "content"}

PC == {"closed", "idle", "reply"} \cup Running \cup Reading

(* keep is Overwrite: F of COPY and MOVE, and PROPFIND's Depth: 1; value   *)
(* is the body of PUT, and what GET read; todo is what a call over a tree  *)
(* has yet to visit.                                                       *)
Request ==
    [method : Method, node : Node \cup {NoNode}, dest : Node \cup {NoNode},
     keep : BOOLEAN, value : Content, announced : Content \cup {NoSize},
     collection : BOOLEAN, todo : SUBSET Node]

NewRequest(m, n, to, keep, v) ==
    [method |-> m, node |-> n, dest |-> to, keep |-> keep, value |-> v,
     announced |-> 0, collection |-> FALSE, todo |-> {}]

NoRequest == NewRequest("OPTIONS", NoNode, NoNode, FALSE, 0)

TypeOK ==
    /\ pc \in [Conn -> PC]
    /\ request \in [Conn -> Request]
    /\ code \in [Conn -> Code]
    /\ moved \in [Conn -> BOOLEAN]
    /\ disk \in Disk
    /\ content \in [Node -> Content]
    /\ ftpOpen \in SUBSET FtpOpens

Init ==
    /\ pc = [c \in Conn |-> "closed"]
    /\ request = [c \in Conn |-> NoRequest]
    /\ code = [c \in Conn |-> NoCode]
    /\ moved = [c \in Conn |-> FALSE]
    /\ disk \in InitialDisk
    /\ content = [n \in Node |-> 0]
    /\ ftpOpen = {}

-----------------------------------------------------------------------------
Does(c, m) == request[c].method = m

Target(c) == request[c].node

Dest(c) == request[c].dest

(* No other handler is between its first call and its next write.          *)
HasThread(c) == \A d \in Conn : pc[d] \in Running => d = c

(* Readers of n must know that n changed.  Follows pc' in every action.    *)
NoteChanges(changed) ==
    moved' = [c \in Conn |->
                pc[c] \in Reading /\ pc'[c] \in Reading
                    /\ (moved[c] \/ Target(c) \in changed)]

(* The whole of a step that touches the disk.                              *)
DiskBecomes(d, k) ==
    /\ disk' = d /\ content' = k
    /\ NoteChanges({n \in Node : d[n] # disk[n] \/ k[n] # content[n]})

DiskStays == UNCHANGED <<disk, content>> /\ NoteChanges({})

Go(c, place) == pc' = [pc EXCEPT ![c] = place] /\ UNCHANGED code

Answer(c, status) ==
    /\ pc' = [pc EXCEPT ![c] = "reply"]
    /\ code' = [code EXCEPT ![c] = status]
    /\ request' = [request EXCEPT ![c] = NoRequest]

(* Any exception of a handler ends handle_request without a response.      *)
Throw(c) == Go(c, "closed") /\ request' = [request EXCEPT ![c] = NoRequest]

FtpRests == UNCHANGED ftpOpen

(* What is gone holds nothing.                                             *)
Cleared(gone) == [n \in Node |-> IF n \in gone THEN 0 ELSE content[n]]

Connect(c) ==
    /\ pc[c] = "closed" /\ Go(c, "idle") /\ UNCHANGED request
    /\ DiskStays /\ FtpRests

(* The client goes, or its connection breaks.                              *)
Disconnect(c) ==
    /\ pc[c] \in {"idle", "reply"} \cup Reading
    /\ pc' = [pc EXCEPT ![c] = "closed"]
    /\ request' = [request EXCEPT ![c] = NoRequest]
    /\ code' = [code EXCEPT ![c] = NoCode]
    /\ DiskStays /\ FtpRests

-----------------------------------------------------------------------------
(* A request comes in and its paths resolve.                               *)

Receive(c) ==
    /\ pc[c] = "idle" /\ HasThread(c)
    /\ \E m \in Methods[c], n \in Node, to \in Node \cup {NoNode}, keep \in BOOLEAN, v \in Content :
          /\ m \notin Transfers => to = NoNode
          /\ m \notin Transfers \cup {"PROPFIND"} => ~keep
          /\ m # "PUT" => v = 0
          /\ request' = [request EXCEPT ![c] = NewRequest(m, n, to, keep, v)]
    /\ Go(c, "received")
    /\ DiskStays /\ FtpRests

(* resolve_path, and resolve_destination for COPY and MOVE: what does not  *)
(* exist does not resolve.  A missing Destination header throws.           *)
ResolvePaths(c) ==
    /\ pc[c] = "received"
    /\ LET resolved ==
              /\ Resolve(disk, Target(c)) # NoNode
              /\ request[c].method \in Transfers => Resolve(disk, Dest(c)) # NoNode
       IN
       \/ request[c].method \in Pathless /\ Answer(c, 200)
       \/ request[c].method \in Transfers /\ Dest(c) = NoNode /\ Throw(c)
       \/ /\ request[c].method \notin Pathless
          /\ request[c].method \in Transfers => Dest(c) # NoNode
          /\ \/ resolved /\ Go(c, "resolved") /\ UNCHANGED request
             \/ ~resolved /\ Answer(c, 404)
    /\ DiskStays /\ FtpRests

(* A slip of Writable: a directory can be opened like a file.              *)
WritableAnything(n) == disk[n] # "absent" \/ disk[Up[n]] = "dir"

(* Opening n for writing creates it in an existing directory.              *)
Writable(n) == disk[n] = "file" \/ (disk[n] = "absent" /\ disk[Up[n]] = "dir")

WrittenFile(n, v) ==
    DiskBecomes([disk EXCEPT ![n] = "file"], [content EXCEPT ![n] = v])

Above(n) == {m \in Node : <<n, m>> \in Under}

(* exists() of resource_factory_.create, or of MKCOL.  PUT and MKCOL make  *)
(* what resolved and is gone by now; PROPFIND answers without it.          *)
LookUp(c) ==
    /\ pc[c] = "resolved"
    /\ IF Exists(disk, Target(c))
         THEN IF Does(c, "MKCOL") THEN Answer(c, 405) ELSE Go(c, "there") /\ UNCHANGED request
         ELSE CASE Does(c, "PUT") -> Go(c, "missing") /\ UNCHANGED request
                [] Does(c, "MKCOL") ->
                     /\ Go(c, "missing")
                     /\ request' = [request EXCEPT ![c].todo =
                                      {m \in Above(Target(c)) : ~Exists(disk, m)}]
                [] Does(c, "PROPFIND") -> Answer(c, 207)
                [] OTHER -> Answer(c, 404)
    /\ DiskStays /\ FtpRests

(* is_directory() decides, for the rest of the request, what the resource  *)
(* is.                                                                     *)
IsDirectory(c) ==
    /\ pc[c] = "there"
    /\ LET isDirectory == disk[Target(c)] = "dir" IN
       IF Does(c, "PUT") /\ isDirectory
         THEN Answer(c, 405)
         ELSE /\ Go(c, "made")
              /\ request' = [request EXCEPT ![c].collection = isDirectory]
    /\ DiskStays /\ FtpRests

(* PUT opens and closes the missing file, and looks for it again.          *)
PutCreates(c) ==
    /\ pc[c] = "missing" /\ Does(c, "PUT")
    /\ \/ Go(c, "there") /\ UNCHANGED request
          /\ IF Writable(Target(c))
               THEN WrittenFile(Target(c), 0)
               ELSE disk[Target(c)] = "dir" /\ DiskStays
       \/ Answer(c, 403) /\ DiskStays
    /\ FtpRests

(* What create_directories makes next: from the top down.                  *)
NextMissing(c) == {n \in request[c].todo : request[c].todo \cap Above(n) = {n}}

(* create_directories of MKCOL makes what was missing, also above the      *)
(* target; what somebody else made is as good.                             *)
MkcolCreates(c) ==
    /\ pc[c] = "missing" /\ Does(c, "MKCOL")
    /\ \/ \E n \in NextMissing(c) :
             /\ disk[n] = "dir" \/ (disk[n] = "absent" /\ disk[Up[n]] = "dir")
             /\ IF n = Target(c)
                  THEN Answer(c, 201)
                  ELSE /\ request' = [request EXCEPT ![c].todo = @ \ {n}]
                       /\ UNCHANGED <<pc, code>>
             /\ DiskBecomes([disk EXCEPT ![n] = "dir"], content)
       \/ Answer(c, 409) /\ DiskStays
    /\ FtpRests

-----------------------------------------------------------------------------
(* Reading.                                                                *)

(* A slip of Size: a collection has the size its entry has on the disk.    *)
SizeOfEntry(c) == IF disk[Target(c)] = "file" THEN content[Target(c)] ELSE NoSize

(* get_size of the resource.                                               *)
Size(c) ==
    CASE request[c].collection         -> 0
      [] ~request[c].collection /\ disk[Target(c)] = "file" -> content[Target(c)]
      [] OTHER                         -> NoSize

(* The head of GET and HEAD carries the size of this moment.               *)
GetHead(c) ==
    /\ pc[c] = "made"
    /\ \/ Does(c, "HEAD") /\ Answer(c, 200)
       \/ /\ Does(c, "GET") /\ Go(c, "head")
          /\ request' = [request EXCEPT ![c].announced = Size(c)]
    /\ DiskStays /\ FtpRests

(* A slip of GetContent: the file is taken to be what it was.              *)
GetContentUnchecked(c) ==
    /\ pc[c] = "head" /\ HasThread(c)
    /\ Go(c, "content")
    /\ request' = [request EXCEPT ![c].value = Size(c)]
    /\ DiskStays /\ FtpRests

(* With the head written, the content is read whole: what is there now.    *)
(* A file that is gone or does not open throws; a collection has none.     *)
GetContent(c) ==
    /\ pc[c] = "head" /\ HasThread(c)
    /\ \/ request[c].collection /\ Go(c, "content") /\ UNCHANGED request
       \/ /\ ~request[c].collection /\ disk[Target(c)] = "file"
          /\ Go(c, "content")
          /\ request' = [request EXCEPT ![c].value = content[Target(c)]]
       \/ ~request[c].collection /\ Throw(c)
    /\ DiskStays /\ FtpRests

(* The content is written; then handle_request writes the head once more.  *)
ContentWritten(c) ==
    /\ pc[c] = "content" /\ HasThread(c)
    /\ Answer(c, 200)
    /\ DiskStays /\ FtpRests

(* PROPFIND: for Depth: 1 the entries of a collection are listed; if it is *)
(* gone by then, that throws.                                              *)
Propfind(c) ==
    /\ pc[c] = "made" /\ Does(c, "PROPFIND")
    /\ \/ ~(request[c].keep /\ request[c].collection /\ disk[Target(c)] # "dir") /\ Answer(c, 207)
       \/ request[c].keep /\ request[c].collection /\ disk[Target(c)] # "dir" /\ Throw(c)
    /\ DiskStays /\ FtpRests

-----------------------------------------------------------------------------
(* Writing.                                                                *)

(* DavFile::put truncates the file, and creates it if it went meanwhile;   *)
(* if it cannot it throws.                                                 *)
PutOpens(c) ==
    /\ pc[c] = "made" /\ Does(c, "PUT")
    /\ \/ Go(c, "writing") /\ UNCHANGED request /\ Writable(Target(c)) /\ WrittenFile(Target(c), 0)
       \/ Throw(c) /\ DiskStays
    /\ FtpRests

(* What was sent is written, to a file somebody may have unlinked.         *)
PutWrites(c) ==
    /\ pc[c] = "writing"
    /\ Answer(c, 201)
    /\ IF disk[Target(c)] = "file"
         THEN DiskBecomes(disk, [content EXCEPT ![Target(c)] = request[c].value])
         ELSE DiskStays
    /\ FtpRests

(* A slip of Removable: an open file goes too.                             *)
RemovableOpen(n) == Below(disk, n) \subseteq {n}

(* What one call may remove: neither open nor with anything in it.         *)
Removable(n) == n \notin ftpOpen /\ Below(disk, n) \subseteq {n}

Removed(n) == DiskBecomes(Without(disk, {n}), Cleared({n}))

(* DELETE of a file, by one call, which succeeds on what is gone.          *)
DeleteFile(c) ==
    /\ pc[c] = "made" /\ Does(c, "DELETE") /\ ~request[c].collection
    /\ \/ Removable(Target(c)) /\ Answer(c, 204) /\ Removed(Target(c))
       \/ ~Removable(Target(c)) /\ Throw(c) /\ DiskStays
    /\ FtpRests

(* DELETE of a collection, by remove_all: it visits what is below.         *)
DeleteCollection(c) ==
    /\ pc[c] = "made" /\ Does(c, "DELETE") /\ request[c].collection
    /\ Go(c, "removing")
    /\ request' = [request EXCEPT ![c].todo = {n \in Node : <<n, Target(c)>> \in Under}]
    /\ DiskStays /\ FtpRests

(* What remove_all visits next: a directory after what is in it.           *)
NextEntry(c) ==
    {n \in request[c].todo : \A m \in request[c].todo : <<m, n>> \in Under => m = n}

(* A slip of RemoveEntry: it waits until an entry can be removed.          *)
RemoveEntryWaits(c) ==
    /\ pc[c] = "removing"
    /\ \E n \in NextEntry(c) :
          /\ Removable(n)
          /\ IF n = Target(c)
               THEN Answer(c, 204)
               ELSE /\ request' = [request EXCEPT ![c].todo = @ \ {n}]
                    /\ UNCHANGED <<pc, code>>
          /\ Removed(n)
    /\ FtpRests

(* One entry goes, if it is there; or the removal stops: at an open file,  *)
(* or at a directory that got an entry after its entries were visited.     *)
RemoveEntry(c) ==
    /\ pc[c] = "removing"
    /\ \E n \in NextEntry(c) :
          \/ /\ Removable(n)
             /\ IF n = Target(c)
                  THEN Answer(c, 204)
                  ELSE /\ request' = [request EXCEPT ![c].todo = @ \ {n}]
                       /\ UNCHANGED <<pc, code>>
             /\ Removed(n)
          \/ ~Removable(n) /\ Throw(c) /\ DiskStays
    /\ FtpRests

(* COPY: copy_file replaces a file, or creates one in the place of what    *)
(* went since it resolved; a recursive copy creates and replaces entries   *)
(* of the destination.  Nothing is copied onto itself.                     *)
Copy(c) ==
    /\ pc[c] = "made" /\ Does(c, "COPY")
    /\ \/ /\ disk[Target(c)] = "file" /\ Dest(c) # Target(c) /\ Writable(Dest(c))
          /\ Go(c, "moved") /\ UNCHANGED request
          /\ WrittenFile(Dest(c), content[Target(c)])
       \/ /\ request[c].collection /\ disk[Target(c)] = "dir"
          /\ disk[Dest(c)] # "file" /\ Dest(c) # Target(c)
          /\ Go(c, "copying")
          /\ request' = [request EXCEPT ![c].todo = {n \in Node : <<n, Dest(c)>> \in Under}]
          /\ DiskStays
       \/ Throw(c) /\ DiskStays
    /\ FtpRests

(* Names are not modelled, so that any entry of the destination may be     *)
(* next, and any copy may be the last.                                     *)
CopyEntry(c) ==
    /\ pc[c] = "copying"
    /\ \E n \in request[c].todo :
          /\ request' = [request EXCEPT ![c].todo = @ \ {n}]
          /\ UNCHANGED <<pc, code>>
          /\ \/ Writable(n) /\ \E v \in Content : WrittenFile(n, v)
             \/ /\ disk[n] = "absent" /\ disk[Up[n]] = "dir"
                /\ DiskBecomes([disk EXCEPT ![n] = "dir"], content)
    /\ FtpRests

CopyEnds(c) ==
    /\ pc[c] = "copying"
    /\ (Go(c, "moved") /\ UNCHANGED request) \/ Throw(c)
    /\ DiskStays /\ FtpRests

(* A slip of MovedContent: the content stays behind.                       *)
MovedContentLost(from, to) == Cleared({from, to})

(* A file's content goes with its name.                                    *)
MovedContent(from, to) == [Cleared({from}) EXCEPT ![to] = content[from]]

(* rename of a file, onto a file or a free name.                           *)
MoveFile(from, to) ==
    DiskBecomes([disk EXCEPT ![from] = "absent", ![to] = "file"], MovedContent(from, to))

(* rename of a collection, to a name that went since it resolved.          *)
MoveTree(from, to) ==
    \E d \in Trees :
        /\ d[to] = "dir" /\ d[from] = "absent"
        /\ \A n \in Node :
              <<n, to>> \notin Under => d[n] = IF <<n, from>> \in Under THEN "absent" ELSE disk[n]
        /\ DiskBecomes(d, Cleared({n \in Node : d[n] # disk[n]}))

(* MOVE: a file replaces a file, anything takes a free name, a rename to   *)
(* itself does nothing; the rest, and what is open, is refused.            *)
Move(c) ==
    /\ pc[c] = "made" /\ Does(c, "MOVE")
    /\ \/ /\ Go(c, "moved") /\ UNCHANGED request
          /\ \/ Exists(disk, Target(c)) /\ Target(c) = Dest(c) /\ DiskStays
             \/ /\ disk[Target(c)] = "file" /\ Writable(Dest(c)) /\ Target(c) # Dest(c)
                /\ ftpOpen \cap {Target(c), Dest(c)} = {}
                /\ MoveFile(Target(c), Dest(c))
             \/ /\ disk[Target(c)] = "dir" /\ disk[Dest(c)] = "absent" /\ disk[Up[Dest(c)]] = "dir"
                /\ <<Dest(c), Target(c)>> \notin Under
                /\ ftpOpen \cap Below(disk, Target(c)) = {}
                /\ MoveTree(Target(c), Dest(c))
       \/ Throw(c) /\ DiskStays
    /\ FtpRests

(* Only now is Overwrite looked at, and whether the destination exists.    *)
CheckOverwrite(c) ==
    /\ pc[c] = "moved"
    /\ Answer(c, IF request[c].keep /\ Exists(disk, Dest(c)) THEN 412 ELSE 201)
    /\ DiskStays /\ FtpRests

-----------------------------------------------------------------------------
(* Locks.                                                                  *)

(* LOCK puts the lock, and UNLOCK looks for one, in the list of a resource *)
(* that was made for the request and goes with it: every lock is granted   *)
(* and no token is known.                                                  *)
LockOrUnlock(c) ==
    /\ pc[c] = "made"
    /\ \/ Does(c, "LOCK") /\ Answer(c, 200)
       \/ Does(c, "UNLOCK") /\ Answer(c, 409)
    /\ DiskStays /\ FtpRests

(* The response is written, and the next request is read.                  *)
Respond(c) ==
    /\ pc[c] = "reply" /\ HasThread(c)
    /\ pc' = [pc EXCEPT ![c] = "idle"]
    /\ code' = [code EXCEPT ![c] = NoCode]
    /\ UNCHANGED request /\ DiskStays /\ FtpRests

-----------------------------------------------------------------------------
(* The other threads.                                                      *)

(* FTP sessions and other programs change the tree within what FtpSession  *)
(* promises, and write to files.                                           *)
FtpChangesTree ==
    /\ UNCHANGED <<pc, request, code, ftpOpen>>
    /\ \E d \in Trees :
          /\ Respects(disk, d, ftpOpen)
          /\ DiskBecomes(d, Cleared({n \in Node : d[n] # disk[n]}))

FtpWrites ==
    /\ UNCHANGED <<pc, request, code, ftpOpen>>
    /\ \E n \in Inside, v \in Content :
          disk[n] = "file" /\ DiskBecomes(disk, [content EXCEPT ![n] = v])

FtpOpensOrCloses ==
    /\ UNCHANGED <<pc, request, code, moved, disk, content>>
    /\ \E open \in SUBSET FtpOpens :
          (\A n \in open : disk[n] = "file") /\ ftpOpen' = open

OtherThread == FtpChangesTree \/ FtpWrites \/ FtpOpensOrCloses

-----------------------------------------------------------------------------
(* What the thread does without a pause.                                   *)
Runs(c) ==
    \/ ResolvePaths(c) \/ LookUp(c) \/ IsDirectory(c) \/ PutCreates(c) \/ MkcolCreates(c)
    \/ GetHead(c) \/ Propfind(c) \/ PutOpens(c) \/ PutWrites(c)
    \/ DeleteFile(c) \/ DeleteCollection(c) \/ RemoveEntry(c)
    \/ Copy(c) \/ CopyEntry(c) \/ CopyEnds(c)
    \/ Move(c) \/ CheckOverwrite(c) \/ LockOrUnlock(c)

(* Its turn comes after a write of its own.                                *)
Resumes(c) == GetContent(c) \/ ContentWritten(c) \/ Respond(c)

ClientActs(c) == Connect(c) \/ Disconnect(c) \/ Receive(c)

Next == (\E c \in Conn : ClientActs(c) \/ Runs(c) \/ Resumes(c)) \/ OtherThread

Spec == Init /\ [][Next]_vars

(* The thread goes on with what it has begun; the io_context queues every  *)
(* connection whose write has completed, so that its turn comes.           *)
FairSpec == Spec /\ \A c \in Conn : WF_vars(Runs(c)) /\ SF_vars(Resumes(c))

-----------------------------------------------------------------------------
(* Safety.                                                                 *)

(* The content GET sends is as long as the head before it announced, unless*)
(* somebody changed the file while the head was written, the only pause in *)
(* between (dav_handler.cpp:186-201); a collection announces and sends 0.  *)
LengthTrue ==
    \A c \in Conn :
        pc[c] = "content" /\ ~moved[c] => request[c].value = request[c].announced

(* What FtpSession assumes of other programs, of WebDAV's steps: whatever  *)
(* FTP does between its calls, a WebDAV step leaves a tree, changes nothing*)
(* outside the root, and spares the files that FTP transfers have open.    *)
RespectsFtp == [][Respects(disk, disk', ftpOpen)]_disk

-----------------------------------------------------------------------------
(* Liveness, under FairSpec.                                               *)

(* Every request that has come in ends, with a response written or the     *)
(* connection closed, though FTP may undo each of its steps.               *)
RequestsEnd ==
    \A c \in Conn : pc[c] \notin {"idle", "closed"} ~> pc[c] \in {"idle", "closed"}

-----------------------------------------------------------------------------
(* What a comment of the source says.                                      *)

(* dav_handler.cpp:238, "try to create a new file": a PUT to a new name in *)
(* an existing collection is not answered 404.                             *)
UploadCreates ==
    [][\A c \in Conn :
          (/\ pc[c] = "received" /\ Does(c, "PUT")
           /\ Target(c) \in Inside /\ disk[Target(c)] = "absent" /\ disk[Up[Target(c)]] = "dir")
             => code'[c] # 404]_code
=============================================================================
