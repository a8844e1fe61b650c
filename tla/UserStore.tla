----------------------------- MODULE UserStore ------------------------------
(***************************************************************************)
(* The user store and the access controller of security/access_control.cpp:*)
(* users kept in memory under a mutex and in a text file of one line each. *)
(* Threads authenticate users, ask for permissions and add users; a call   *)
(* takes the mutex once or twice, and add_user keeps it while it rewrites  *)
(* the file.  The process may die at any moment and start again with what  *)
(* the file holds.  pc says where the call of a thread is:                 *)
(*    "idle"      no call, or it has answered    "called"    about to lock *)
(*    "saving"    add_user opens the file        "writing"   its lines     *)
(*    "comparing" the password                   "locating"  path and home *)
(*    "judging"   the path and the permission                              *)
(***************************************************************************)
EXTENDS Integers, Sequences

CONSTANTS Thread,       \* the threads that share the store
          User,         \* user names
          Password,
          Home,         \* home directories, "" for none
          Fields,       \* Fields[h]: what h is split into at its colon
          Path,         \* paths that permissions are asked for
          Covers,       \* <<p, h>> when path p begins with directory h
          Infos,        \* what add_user is given
          Calls,        \* the other calls
          NoUser, Nobody,
          MaxAdds, MaxCrashes

Permission == {"NONE", "READ", "WRITE", "EXECUTE", "ADMIN", "FULL"}

UserInfo == [password : Password, home : Home, permission : Permission, enabled : BOOLEAN]

Question ==
    [op : {"authenticate"}, user : User, password : Password]
    \cup [op : {"check"}, user : User, path : Path, required : Permission]

(* The directory that all users share, the controller's root_directory_.   *)
SharedRoot == "root"

Words == {"read", "write", "admin", "none"}

ASSUME StoreAssumption ==
    /\ "" \in Home /\ Home \cap (Words \cup {SharedRoot}) = {}
    /\ Fields \in [Home -> {<<h>> : h \in Home} \cup (Home \X Home)]
    /\ \A h \in Home : Fields[h] = <<h>> \/ Fields[h] \in Home \X Home
    /\ \A h \in Home : Fields[Fields[h][1]] = <<Fields[h][1]>>
    /\ Covers \subseteq Path \X (Home \cup {SharedRoot})
    /\ Infos \subseteq UserInfo /\ Calls \subseteq Question /\ Calls # {}
    /\ NoUser \notin UserInfo /\ Nobody \notin Thread
    /\ MaxAdds \in Nat /\ MaxCrashes \in Nat

VARIABLES up,           \* the process runs
          users,        \* users[u]: the entry of u, or NoUser
          file,         \* the lines of the file
          mutex,        \* who holds it
          pc, call,
          copy,         \* the UserInfo a call took out of the store
          root,         \* the directory a call to check_permission allows
          todo,         \* users whose lines are not written yet
          answer,
          right,        \* answers that were right at some time of the call
          saved,        \* the last add_user of this process could save
          added,        \* all that add_user was ever given
          adds, crashes

store == <<users, mutex>>

disk == <<file, todo, saved>>

history == <<added, adds, crashes>>

vars == <<up, store, disk, pc, call, copy, root, answer, right, history>>

PC == {"idle", "called", "saving", "writing", "comparing", "locating", "judging"}

Call == Question \cup [op : {"add"}, user : User, info : Infos]

Answer == {"none", "added", "SUCCESS", "NO_SUCH_USER", "WRONG_PASSWORD", "ACCOUNT_DISABLED",
           "granted", "refused", "throws"}

-----------------------------------------------------------------------------
(* The lines of the file.                                                  *)

(* Slip: whoever is not a reader or a writer is written as an admin.       *)
WordAdmin(p) == IF p = "READ" THEN "read" ELSE IF p = "WRITE" THEN "write" ELSE "admin"

(* The file knows three permissions.                                       *)
Word(p) ==
    CASE p = "READ" -> "read" [] p = "WRITE" -> "write" [] p = "ADMIN" -> "admin"
      [] OTHER -> "none"

(* A colon in the home directory moves the fields behind it.               *)
Line(u, i) ==
    LET end == IF i.enabled THEN "1" ELSE "0"
        f   == Fields[i.home]
    IN  IF f = <<i.home>> THEN <<u, i.password, i.home, Word(i.permission), end>>
        ELSE <<u, i.password, f[1], f[2], Word(i.permission), end>>

Lines(entries, names) == {Line(u, entries[u]) : u \in {n \in names : entries[n] # NoUser}}

Permitted(word) ==
    CASE word = "read" -> "READ" [] word = "write" -> "WRITE" [] word = "admin" -> "ADMIN"
      [] OTHER -> "NONE"

Parsed(line) ==
    [password |-> line[2], home |-> line[3], permission |-> Permitted(line[4]),
     enabled |-> line[5] \in {"1", "true"}]

(* A line of fewer than five fields is passed over.                        *)
LinesOf(u, lines) == {l \in lines : Len(l) >= 5 /\ l[1] = u}

Loaded(lines) ==
    [u \in User |-> IF LinesOf(u, lines) = {} THEN NoUser
                    ELSE Parsed(CHOOSE l \in LinesOf(u, lines) : TRUE)]

(* What a torn write leaves of a line.                                     *)
Prefixes(line) == {SubSeq(line, 1, k) : k \in 1 .. Len(line)}

-----------------------------------------------------------------------------
(* What the calls decide.                                                  *)

Permits(has, required) ==
    \/ required = "NONE"
    \/ required = "READ" /\ has \in {"READ", "WRITE", "ADMIN", "FULL"}
    \/ required = "WRITE" /\ has \in {"WRITE", "ADMIN", "FULL"}
    \/ required = "ADMIN" /\ has = "ADMIN"

(* The answers that are right for q while the store holds entries.  Whether*)
(* paths and homes exist is not the store's matter, so it may refuse.      *)
RightAnswers(entries, q) ==
    LET i == entries[q.user]
    IN  IF q.op = "add" THEN {"added"}
        ELSE IF q.op = "check"
        THEN {"refused", "throws"} \cup
             {a \in {"granted"} : /\ i # NoUser /\ Permits(i.permission, q.required)
                                  /\ \E h \in {i.home, SharedRoot} : <<q.path, h>> \in Covers}
        ELSE IF i = NoUser THEN {"NO_SUCH_USER"}
        ELSE IF ~i.enabled THEN {"ACCOUNT_DISABLED"}
        ELSE IF i.password = q.password THEN {"SUCCESS"} ELSE {"WRONG_PASSWORD"}

-----------------------------------------------------------------------------
Init ==
    /\ up = TRUE /\ users = [u \in User |-> NoUser] /\ file = {}
    /\ mutex = Nobody /\ todo = {} /\ saved = FALSE
    /\ pc = [t \in Thread |-> "idle"]
    /\ call = [t \in Thread |-> CHOOSE c \in Calls : TRUE]
    /\ copy = [t \in Thread |-> NoUser]
    /\ root = [t \in Thread |-> SharedRoot]
    /\ answer = [t \in Thread |-> "none"]
    /\ right = [t \in Thread |-> {}]
    /\ added = {} /\ adds = 0 /\ crashes = 0

At(t, place) == up /\ pc[t] = place

Goto(t, place) == pc' = [pc EXCEPT ![t] = place]

Answers(t, a) == answer' = [answer EXCEPT ![t] = a] /\ Goto(t, "idle")

-----------------------------------------------------------------------------
(* Calls.                                                                  *)

Asks(t, c) ==
    /\ At(t, "idle")
    /\ call' = [call EXCEPT ![t] = c]
    /\ answer' = [answer EXCEPT ![t] = "none"]
    /\ right' = [right EXCEPT ![t] = RightAnswers(users, c)]
    /\ Goto(t, "called")
    /\ UNCHANGED <<up, store, disk, copy, root>>

AskStore(t) == (\E c \in Calls : Asks(t, c)) /\ UNCHANGED history

AskToAdd(t) ==
    /\ adds < MaxAdds /\ adds' = adds + 1
    /\ \E u \in User, i \in Infos : Asks(t, [op |-> "add", user |-> u, info |-> i])
    /\ UNCHANGED <<added, crashes>>

(* get_user copies the entry; the mutex is free again.                     *)
GetUser(t) ==
    LET i == users[call[t].user]
    IN  /\ At(t, "called") /\ call[t].op # "add" /\ mutex = Nobody
        /\ copy' = [copy EXCEPT ![t] = i]
        /\ IF i = NoUser
           THEN Answers(t, IF call[t].op = "check" THEN "refused" ELSE "NO_SUCH_USER")
           ELSE IF call[t].op = "check" THEN Goto(t, "locating") /\ UNCHANGED answer
           ELSE IF ~i.enabled THEN Answers(t, "ACCOUNT_DISABLED")
           ELSE Goto(t, "comparing") /\ UNCHANGED answer
        /\ UNCHANGED <<up, store, disk, call, root, right, history>>

(* Slip: the password is that of the store by now.                         *)
ComparedStored(t) == users[call[t].user]

Compared(t) == copy[t]

ValidatePassword(t) ==
    /\ At(t, "comparing") /\ mutex = Nobody
    /\ Answers(t, IF Compared(t).password = call[t].password THEN "SUCCESS" ELSE "WRONG_PASSWORD")
    /\ UNCHANGED <<up, store, disk, call, copy, root, right, history>>

(* canonical of the path may fail; the home directory may not exist.       *)
FindRoot(t) ==
    /\ At(t, "locating")
    /\ \/ Answers(t, "refused") /\ UNCHANGED root
       \/ /\ \E h \in {SharedRoot} \cup ({copy[t].home} \ {""}) : root' = [root EXCEPT ![t] = h]
          /\ Goto(t, "judging") /\ UNCHANGED answer
    /\ UNCHANGED <<up, store, disk, call, copy, right, history>>

(* canonical of a directory that is gone by now throws.                    *)
Judge(t) ==
    LET granted == <<call[t].path, root[t]>> \in Covers
                       /\ Permits(copy[t].permission, call[t].required)
    IN  /\ At(t, "judging")
        /\ \E a \in {"throws", IF granted THEN "granted" ELSE "refused"} : Answers(t, a)
        /\ UNCHANGED <<up, store, disk, call, copy, root, right, history>>

(* Slip: add_user lets go of the mutex before it saves.                    *)
HeldToSave(t) == Nobody

HolderWhileSaving(t) == t

AddUser(t) ==
    LET c == call[t]
    IN  /\ At(t, "called") /\ c.op = "add" /\ mutex = Nobody
        /\ mutex' = HolderWhileSaving(t)
        /\ users' = [users EXCEPT ![c.user] = c.info]
        /\ right' = [u \in Thread |-> right[u] \cup RightAnswers(users', call[u])]
        /\ added' = added \cup {<<c.user, c.info>>}
        /\ Goto(t, "saving")
        /\ UNCHANGED <<up, disk, call, copy, root, answer, adds, crashes>>

(* Slip: save_users takes the mutex of its caller.                         *)
MayOpenAlone(t) == mutex = Nobody

MayOpen(t) == TRUE

(* save_users: opening truncates the file, or fails and changes nothing.   *)
OpenFile(t) ==
    /\ At(t, "saving") /\ MayOpen(t)
    /\ \/ /\ file' = {} /\ saved' = TRUE
          /\ todo' = {u \in User : users[u] # NoUser}
       \/ UNCHANGED file /\ saved' = FALSE /\ todo' = {}
    /\ Goto(t, "writing")
    /\ UNCHANGED <<up, store, call, copy, root, answer, right, history>>

(* Nobody looks at the stream: when the disk is full, the rest is lost.    *)
WriteLine(t) ==
    /\ At(t, "writing")
    /\ \E u \in todo :
          \/ /\ file' = file \cup {Line(u, users[u])} /\ todo' = todo \ {u}
             /\ UNCHANGED saved
          \/ /\ \E part \in Prefixes(Line(u, users[u])) : file' = file \cup {part}
             /\ todo' = {} /\ saved' = FALSE
    /\ UNCHANGED <<up, store, pc, call, copy, root, answer, right, history>>

CloseFile(t) ==
    /\ At(t, "writing") /\ todo = {}
    /\ mutex' = Nobody
    /\ Answers(t, "added")
    /\ UNCHANGED <<up, users, disk, call, copy, root, right, history>>

-----------------------------------------------------------------------------
(* The process dies, and with it what was not written: of the lines of a   *)
(* save some are there, one of them in part.                               *)
Crash ==
    /\ up /\ crashes < MaxCrashes
    /\ up' = FALSE /\ crashes' = crashes + 1
    /\ \/ UNCHANGED file
       \/ /\ \E t \in Thread : pc[t] = "writing" /\ saved
          /\ \E kept \in SUBSET file :
                \/ file' = kept
                \/ \E l \in file \ kept : \E part \in Prefixes(l) : file' = kept \cup {part}
    /\ UNCHANGED <<store, pc, call, copy, root, answer, right, todo, saved, added, adds>>

(* The constructor loads the file, before there are threads.               *)
Restart ==
    /\ ~up /\ up' = TRUE
    /\ users' = Loaded(file)
    /\ mutex' = Nobody /\ todo' = {} /\ saved' = FALSE
    /\ pc' = [t \in Thread |-> "idle"]
    /\ copy' = [t \in Thread |-> NoUser]
    /\ root' = [t \in Thread |-> SharedRoot]
    /\ answer' = [t \in Thread |-> "none"]
    /\ right' = [t \in Thread |-> {}]
    /\ UNCHANGED <<file, call, history>>

-----------------------------------------------------------------------------
Works(t) ==
    \/ GetUser(t) \/ ValidatePassword(t) \/ FindRoot(t) \/ Judge(t)
    \/ AddUser(t) \/ OpenFile(t) \/ WriteLine(t) \/ CloseFile(t)

Next == (\E t \in Thread : AskStore(t) \/ AskToAdd(t) \/ Works(t)) \/ Crash \/ Restart

Spec == Init /\ [][Next]_vars

(* Every thread runs, and gets the mutex if it stays free.                 *)
FairSpec == Spec /\ \A t \in Thread : WF_vars(Works(t))

-----------------------------------------------------------------------------
(* Safety.                                                                 *)

TypeOK ==
    /\ up \in BOOLEAN
    /\ users \in [User -> UserInfo \cup {NoUser}]
    /\ mutex \in Thread \cup {Nobody}
    /\ pc \in [Thread -> PC] /\ call \in [Thread -> Call]
    /\ copy \in [Thread -> UserInfo \cup {NoUser}]
    /\ root \in [Thread -> Home \cup {SharedRoot}]
    /\ todo \subseteq User
    /\ answer \in [Thread -> Answer] /\ right \in [Thread -> SUBSET Answer]
    /\ saved \in BOOLEAN
    /\ added \subseteq User \X Infos
    /\ adds \in 0 .. MaxAdds /\ crashes \in 0 .. MaxCrashes

(* Although a call takes the mutex twice and others add users in between,  *)
(* its answer was the right one for the store as it was at one moment of   *)
(* the call (access_control.cpp:130-149, 151-206).                         *)
AnswersRight ==
    \A t \in Thread : up /\ pc[t] = "idle" /\ answer[t] # "none" => answer[t] \in right[t]

(* Whatever the order in which threads add users, the file holds what the  *)
(* store holds whenever nobody is in it, unless the file could not be      *)
(* opened (access_control.cpp:93-119).                                     *)
FileIsCurrent == up /\ mutex = Nobody /\ saved => file = Lines(users, User)

Weaker(i, j) ==
    /\ i.password = j.password /\ i.home \in {j.home, Fields[j.home][1]}
    /\ i.permission \in {j.permission, "NONE"} /\ (i.enabled => j.enabled)

(* Crashes in the middle of a save and reloads may lose users, but nobody  *)
(* comes out of them with a password, a permission or an account that      *)
(* add_user had not been given (access_control.cpp:18-67, 99-119).         *)
NothingInvented ==
    \A u \in User : users[u] # NoUser => \E j \in Infos : <<u, j>> \in added /\ Weaker(users[u], j)

-----------------------------------------------------------------------------
(* Liveness, under FairSpec.                                               *)

(* Every call answers unless the process dies: no call waits for a mutex   *)
(* that its own thread holds (access_control.cpp:93).                      *)
CallsAnswer == \A t \in Thread : At(t, "called") ~> (~up \/ pc[t] = "idle")
=============================================================================
