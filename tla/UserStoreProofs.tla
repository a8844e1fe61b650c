-------------------------- MODULE UserStoreProofs ---------------------------
(***************************************************************************)
(* Proofs about UserStore: whatever the calls of other threads, an answer  *)
(* was right at one moment of its call; the file follows the store; and    *)
(* crashes and reloads invent nothing.                                     *)
(***************************************************************************)
EXTENDS UserStore, TLAPS

Field == User \cup Password \cup Home \cup Words \cup {"0", "1"}

-----------------------------------------------------------------------------
(* Lines and what is read back from them.                                  *)

(* A home directory is one field of a line, or two with a drive letter.    *)
LEMMA FieldsOfHomes ==
    ASSUME NEW h \in Home
    PROVE  /\ Fields[h] = <<h>> \/ Fields[h] \in Home \X Home
           /\ Fields[h][1] \in Home
           /\ Fields[Fields[h][1]][1] = Fields[h][1]
<1>1. Fields[h] = <<h>> \/ Fields[h] \in Home \X Home
  BY StoreAssumption
<1>2. Fields[h][1] \in Home
  BY <1>1
<1>3. Fields[Fields[h][1]] = <<Fields[h][1]>>
  BY StoreAssumption
<1> QED
  BY <1>1, <1>2, <1>3

(* Less and less of a user stays less.                                     *)
LEMMA WeakerTransitive ==
    ASSUME NEW i \in UserInfo, NEW j \in UserInfo, NEW k \in UserInfo,
           Weaker(i, j), Weaker(j, k)
    PROVE  Weaker(i, k)
<1>1. Fields[Fields[k.home][1]][1] = Fields[k.home][1]
  BY FieldsOfHomes DEF UserInfo
<1> QED
  BY <1>1 DEF Weaker

(* A user is no less than itself.                                          *)
LEMMA WeakerReflexive ==
    ASSUME NEW i \in UserInfo
    PROVE  Weaker(i, i)
BY DEF Weaker

(* What the line of a user consists of.                                    *)
LEMMA LineOfFields ==
    ASSUME NEW u \in User, NEW i \in UserInfo
    PROVE  /\ Line(u, i) \in Seq(Field) /\ Len(Line(u, i)) >= 5
           /\ \/ Line(u, i) = <<u, i.password, i.home, Word(i.permission),
                                IF i.enabled THEN "1" ELSE "0">>
              \/ /\ Fields[i.home] \in Home \X Home
                 /\ Line(u, i) = <<u, i.password, Fields[i.home][1], Fields[i.home][2],
                                   Word(i.permission), IF i.enabled THEN "1" ELSE "0">>
<1> DEFINE w == Word(i.permission)
           e == IF i.enabled THEN "1" ELSE "0"
           f == Fields[i.home]
<1>1. w \in Field /\ e \in Field /\ u \in Field /\ i.password \in Field /\ i.home \in Field
  BY DEF Word, Words, Field, UserInfo
<1>2. CASE f = <<i.home>>
  <2>1. Line(u, i) = <<u, i.password, i.home, w, e>>
    BY <1>2 DEF Line
  <2> HIDE DEF w, e
  <2> QED
    BY <1>1, <2>1 DEF w, e
<1>3. CASE f # <<i.home>>
  <2>1. f \in Home \X Home
    BY <1>3, FieldsOfHomes DEF UserInfo
  <2>2. f[1] \in Field /\ f[2] \in Field
    BY <2>1 DEF Field
  <2>3. Line(u, i) = <<u, i.password, f[1], f[2], w, e>>
    BY <1>3 DEF Line
  <2> HIDE DEF w, e
  <2> QED
    BY <1>1, <2>1, <2>2, <2>3 DEF w, e
<1> QED
  BY <1>2, <1>3

(* The beginning of a line agrees with it.                                 *)
LEMMA PrefixOf ==
    ASSUME NEW u \in User, NEW i \in UserInfo, NEW l \in Prefixes(Line(u, i))
    PROVE  /\ l \in Seq(Field) /\ Len(l) <= Len(Line(u, i))
           /\ \A n \in 1 .. Len(l) : l[n] = Line(u, i)[n]
<1> DEFINE line == Line(u, i)
<1>1. line \in Seq(Field)
  BY LineOfFields
<1>2. PICK k \in 1 .. Len(line) : l = SubSeq(line, 1, k)
  BY DEF Prefixes
<1> HIDE DEF line
<1>3. Len(l) = k /\ l \in Seq(Field) /\ \A n \in 1 .. k : l[n] = line[n]
  BY <1>1, <1>2
<1> QED
  BY <1>1, <1>3 DEF line

(* The beginning of a beginning of a line is one of the line.              *)
LEMMA PrefixesOfPrefixes ==
    ASSUME NEW u \in User, NEW i \in UserInfo, NEW l \in Prefixes(Line(u, i)),
           NEW p \in Prefixes(l)
    PROVE  p \in Prefixes(Line(u, i))
<1> DEFINE line == Line(u, i)
<1>1. line \in Seq(Field)
  BY LineOfFields
<1>2. PICK k \in 1 .. Len(line) : l = SubSeq(line, 1, k)
  BY DEF Prefixes
<1>3. PICK m \in 1 .. Len(l) : p = SubSeq(l, 1, m)
  BY DEF Prefixes
<1> HIDE DEF line
<1>4. l \in Seq(Field) /\ Len(l) = k /\ \A n \in 1 .. k : l[n] = line[n]
  BY <1>1, <1>2
<1>5. m \in 1 .. Len(line)
  BY <1>1, <1>4
<1>6. SubSeq(line, 1, m) = p
  BY <1>1, <1>3, <1>4, <1>5
<1> QED
  BY <1>5, <1>6 DEF Prefixes, line

(* So is the whole line.                                                   *)
LEMMA WholeIsPrefix ==
    ASSUME NEW u \in User, NEW i \in UserInfo
    PROVE  Line(u, i) \in Prefixes(Line(u, i))
<1> DEFINE line == Line(u, i)
<1>1. line \in Seq(Field) /\ Len(line) >= 5
  BY LineOfFields
<1> HIDE DEF line
<1>2. SubSeq(line, 1, Len(line)) = line
  BY <1>1
<1>3. Len(line) \in 1 .. Len(line)
  BY <1>1
<1> QED
  BY <1>2, <1>3 DEF Prefixes, line

(* What is read back of a line, torn or not, was its user's, and no more.  *)
LEMMA ReadBack ==
    ASSUME NEW u \in User, NEW i \in UserInfo, NEW l \in Prefixes(Line(u, i)), Len(l) >= 5
    PROVE  l[1] = u /\ Parsed(l) \in UserInfo /\ Weaker(Parsed(l), i)
<1> DEFINE w == Word(i.permission)
           e == IF i.enabled THEN "1" ELSE "0"
           line == Line(u, i)
<1>1. Len(l) \in Nat /\ l[1] = line[1] /\ l[2] = line[2] /\ l[3] = line[3] /\ l[4] = line[4] /\ l[5] = line[5]
  BY PrefixOf
<1>2. i.password \in Password /\ i.home \in Home /\ i.permission \in Permission /\ i.enabled \in BOOLEAN
  BY DEF UserInfo
<1>3. CASE line = <<u, i.password, i.home, w, e>>
  <2>1. l[1] = u /\ l[2] = i.password /\ l[3] = i.home /\ l[4] = w /\ l[5] = e
    BY <1>1, <1>3
  <2>2. Permitted(w) \in {i.permission, "NONE"} /\ Permitted(w) \in Permission
    BY <1>2 DEF Word, Permitted, Permission
  <2>3. (e \in {"1", "true"}) = i.enabled
    BY <1>2
  <2> HIDE DEF w, e, line
  <2>4. Parsed(l) = [password |-> i.password, home |-> i.home, permission |-> Permitted(w),
                     enabled |-> i.enabled]
    BY <2>1, <2>3 DEF Parsed
  <2> QED
    BY <1>2, <2>1, <2>2, <2>4 DEF Weaker, UserInfo
<1>4. CASE /\ Fields[i.home] \in Home \X Home
           /\ line = <<u, i.password, Fields[i.home][1], Fields[i.home][2], w, e>>
  <2>1. l[1] = u /\ l[2] = i.password /\ l[3] = Fields[i.home][1] /\ l[4] = Fields[i.home][2] /\ l[5] = w
    BY <1>1, <1>4
  <2>2. Fields[i.home][1] \in Home /\ Fields[i.home][2] \in Home
    BY <1>4
  <2>3. Permitted(Fields[i.home][2]) = "NONE"
    <3> DEFINE rest == Fields[i.home][2]
    <3>1. rest \notin {"read", "write", "admin"}
      BY <2>2, StoreAssumption DEF Words
    <3> HIDE DEF rest
    <3>2. Permitted(rest) = "NONE"
      BY <3>1 DEF Permitted
    <3> QED
      BY <3>2 DEF rest
  <2>4. (w \in {"1", "true"}) = FALSE
    BY DEF Word
  <2> HIDE DEF w, e, line
  <2>5. Parsed(l) = [password |-> i.password, home |-> Fields[i.home][1], permission |-> "NONE",
                     enabled |-> FALSE]
    BY <2>1, <2>3, <2>4, Zenon DEF Parsed
  <2> QED
    BY <1>2, <2>1, <2>2, <2>5 DEF Weaker, UserInfo, Permission
<1> QED
  BY <1>3, <1>4, LineOfFields

-----------------------------------------------------------------------------
(* The inductive invariant of types and lines: every line is one, or the   *)
(* beginning of one, of somebody whom add_user was given.                  *)

GivenBy(given, u, i) == \E j \in Infos : <<u, j>> \in given /\ Weaker(i, j)

Given(u, i) == GivenBy(added, u, i)

FileOK ==
    \A l \in file : \E u \in User, i \in UserInfo : Given(u, i) /\ l \in Prefixes(Line(u, i))

UsersOK == \A u \in User : users[u] # NoUser => Given(u, users[u])

(* Loading gives what was given.                                           *)
LEMMA Loading ==
    ASSUME FileOK, NEW u \in User
    PROVE  \/ Loaded(file)[u] = NoUser
           \/ Loaded(file)[u] \in UserInfo /\ Given(u, Loaded(file)[u])
<1>1. CASE LinesOf(u, file) = {}
  BY <1>1 DEF Loaded
<1>2. CASE LinesOf(u, file) # {}
  <2> DEFINE l == CHOOSE x \in LinesOf(u, file) : TRUE
  <2>1. l \in LinesOf(u, file)
    BY <1>2
  <2>2. Loaded(file)[u] = Parsed(l)
    BY <1>2 DEF Loaded
  <2> HIDE DEF l
  <2>3. l \in file /\ Len(l) >= 5 /\ l[1] = u
    BY <2>1 DEF LinesOf
  <2>4. PICK v \in User, i \in UserInfo : Given(v, i) /\ l \in Prefixes(Line(v, i))
    BY <2>3 DEF FileOK
  <2>5. l[1] = v /\ Parsed(l) \in UserInfo /\ Weaker(Parsed(l), i)
    BY <2>3, <2>4, ReadBack
  <2>6. PICK j \in Infos : <<u, j>> \in added /\ Weaker(i, j)
    BY <2>3, <2>4, <2>5 DEF Given, GivenBy
  <2>7. Weaker(Parsed(l), j)
    BY <2>5, <2>6, WeakerTransitive, StoreAssumption
  <2> QED
    BY <2>2, <2>5, <2>6, <2>7 DEF Given, GivenBy
<1> QED
  BY <1>1, <1>2

-----------------------------------------------------------------------------
(* Types.                                                                  *)

(* Right answers are answers.                                              *)
LEMMA RightTyped ==
    ASSUME NEW entries \in [User -> UserInfo \cup {NoUser}], NEW q \in Call
    PROVE  RightAnswers(entries, q) \in SUBSET Answer
BY DEF RightAnswers, Answer

(* A call that looks for the home directory has found its user.            *)
CopyOK == \A t \in Thread : pc[t] \in {"comparing", "locating", "judging"} => copy[t] # NoUser

(* Every step keeps what is true of the copies callers hold.               *)
LEMMA CopyKept ==
    ASSUME TypeOK, CopyOK, [Next]_vars
    PROVE  CopyOK'
<1>1. TypeOK /\ CopyOK
  OBVIOUS
<1>2. CASE UNCHANGED vars
  BY <1>1, <1>2 DEF vars, store, disk, history, CopyOK, TypeOK
<1>3. ASSUME NEW t \in Thread, AskStore(t)
      PROVE  CopyOK'
  BY <1>1, <1>3
     DEF AskStore, Asks, Goto, At, store, disk, history, CopyOK, TypeOK
<1>4. ASSUME NEW t \in Thread, AskToAdd(t)
      PROVE  CopyOK'
  BY <1>1, <1>4
     DEF AskToAdd, Asks, Goto, At, store, disk, history, CopyOK, TypeOK
<1>5. ASSUME NEW t \in Thread, GetUser(t)
      PROVE  CopyOK'
  BY <1>1, <1>5
     DEF GetUser, Answers, Goto, At, store, disk, history, CopyOK, TypeOK
<1>6. ASSUME NEW t \in Thread, ValidatePassword(t)
      PROVE  CopyOK'
  BY <1>1, <1>6
     DEF ValidatePassword, Answers, Goto, At, Compared, store, disk,
         history, CopyOK, TypeOK
<1>7. ASSUME NEW t \in Thread, FindRoot(t)
      PROVE  CopyOK'
  BY <1>1, <1>7
     DEF FindRoot, Answers, Goto, At, store, disk, history, CopyOK, TypeOK
<1>8. ASSUME NEW t \in Thread, Judge(t)
      PROVE  CopyOK'
  BY <1>1, <1>8
     DEF Judge, Answers, Goto, At, store, disk, history, CopyOK, TypeOK
<1>9. ASSUME NEW t \in Thread, AddUser(t)
      PROVE  CopyOK'
  BY <1>1, <1>9
     DEF AddUser, Goto, At, HolderWhileSaving, store, disk, history, CopyOK,
         TypeOK
<1>10. ASSUME NEW t \in Thread, OpenFile(t)
      PROVE  CopyOK'
  BY <1>1, <1>10
     DEF OpenFile, Goto, At, MayOpen, store, disk, history, CopyOK, TypeOK
<1>11. ASSUME NEW t \in Thread, WriteLine(t)
      PROVE  CopyOK'
  BY <1>1, <1>11
     DEF WriteLine, At, store, disk, history, CopyOK, TypeOK
<1>12. ASSUME NEW t \in Thread, CloseFile(t)
      PROVE  CopyOK'
  BY <1>1, <1>12
     DEF CloseFile, Answers, Goto, At, store, disk, history, CopyOK, TypeOK
<1>13. ASSUME Crash
      PROVE  CopyOK'
  BY <1>1, <1>13
     DEF Crash, store, disk, history, CopyOK, TypeOK
<1>14. ASSUME Restart
      PROVE  CopyOK'
  BY <1>1, <1>14
     DEF Restart, store, disk, history, CopyOK, TypeOK
<1> QED
  BY <1>2, <1>3, <1>4, <1>5, <1>6, <1>7, <1>8, <1>9, <1>10, <1>11, <1>12,
         <1>13, <1>14 DEF Next, Works

(* Every step keeps the types.                                             *)
LEMMA TypesKept ==
    ASSUME TypeOK, CopyOK, FileOK, [Next]_vars
    PROVE  TypeOK'
<1>1. TypeOK /\ CopyOK /\ FileOK
  OBVIOUS
<1>2. CASE UNCHANGED vars
  BY <1>1, <1>2 DEF vars, store, disk, history, TypeOK, PC, Answer
<1>3. ASSUME NEW t \in Thread, AskStore(t)
      PROVE  TypeOK'
  <2>1. PICK c \in Call : Asks(t, c)
    BY <1>3, StoreAssumption DEF AskStore, Call
  <2>2. RightAnswers(users, c) \in SUBSET Answer
    BY <1>1, <2>1, RightTyped DEF TypeOK
  <2> QED
    BY <1>1, <1>3, <2>1, <2>2, StoreAssumption
       DEF AskStore, Asks, Goto, At, TypeOK, PC, Answer, store, disk, history
<1>4. ASSUME NEW t \in Thread, AskToAdd(t)
      PROVE  TypeOK'
  <2>1. PICK c \in Call : Asks(t, c)
    BY <1>4, StoreAssumption DEF AskToAdd, Call
  <2>2. RightAnswers(users, c) \in SUBSET Answer
    BY <1>1, <2>1, RightTyped DEF TypeOK
  <2>3. adds' \in 0 .. MaxAdds /\ UNCHANGED <<added, crashes>>
    <3>1. adds \in 0 .. MaxAdds /\ MaxAdds \in Nat
      BY <1>1, StoreAssumption DEF TypeOK
    <3>2. adds < MaxAdds /\ adds' = adds + 1 /\ UNCHANGED <<added, crashes>>
      BY <1>4 DEF AskToAdd
    <3> QED
      BY <3>1, <3>2
  <2>4. /\ pc' \in [Thread -> PC] /\ call' \in [Thread -> Call]
        /\ answer' \in [Thread -> Answer] /\ right' \in [Thread -> SUBSET Answer]
    BY <1>1, <2>1, <2>2 DEF Asks, Goto, TypeOK, PC, Answer
  <2>5. UNCHANGED <<up, store, disk, copy, root>>
    BY <2>1 DEF Asks
  <2> QED
    BY <1>1, <2>3, <2>4, <2>5 DEF TypeOK, store, disk
<1>5. ASSUME NEW t \in Thread, GetUser(t)
      PROVE  TypeOK'
  <2>1. call[t] \in Question /\ call[t].user \in User
    BY <1>1, <1>5 DEF GetUser, TypeOK, Call, Question
  <2>2. copy' \in [Thread -> UserInfo \cup {NoUser}]
    BY <1>1, <1>5, <2>1 DEF GetUser, TypeOK
  <2>3. pc' \in [Thread -> PC] /\ answer' \in [Thread -> Answer]
    BY <1>1, <1>5 DEF GetUser, Answers, Goto, TypeOK, PC, Answer
  <2> QED
    BY <1>1, <1>5, <2>2, <2>3 DEF GetUser, TypeOK, store, disk, history
<1>6. ASSUME NEW t \in Thread, ValidatePassword(t)
      PROVE  TypeOK'
  BY <1>1, <1>6, StoreAssumption
     DEF ValidatePassword, Answers, Goto, At, Compared, store, disk,
         history, TypeOK, PC, Answer
<1>7. ASSUME NEW t \in Thread, FindRoot(t)
      PROVE  TypeOK'
  <2>1. pc' \in [Thread -> PC] /\ answer' \in [Thread -> Answer]
    BY <1>1, <1>7 DEF FindRoot, Answers, Goto, TypeOK, PC, Answer
  <2>2. root' \in [Thread -> Home \cup {SharedRoot}]
    BY <1>1, <1>7 DEF FindRoot, TypeOK, At, CopyOK, UserInfo
  <2> QED
    BY <1>1, <1>7, <2>1, <2>2 DEF FindRoot, TypeOK, store, disk, history
<1>8. ASSUME NEW t \in Thread, Judge(t)
      PROVE  TypeOK'
  <2>1. PICK a \in {"throws", "granted", "refused"} : Answers(t, a)
    BY <1>8 DEF Judge
  <2>2. pc' \in [Thread -> PC] /\ answer' \in [Thread -> Answer]
    BY <1>1, <2>1 DEF Answers, Goto, TypeOK, PC, Answer
  <2> QED
    BY <1>1, <1>8, <2>2 DEF Judge, TypeOK, store, disk, history
<1>9. ASSUME NEW t \in Thread, AddUser(t)
      PROVE  TypeOK'
  <2> DEFINE c == call[t]
  <2>1. c.user \in User /\ c.info \in Infos /\ c.info \in UserInfo
    BY <1>1, <1>9, StoreAssumption DEF AddUser, TypeOK, Call, Question
  <2>2. users' \in [User -> UserInfo \cup {NoUser}]
    BY <1>1, <1>9, <2>1 DEF AddUser, TypeOK
  <2>3. \A u \in Thread : RightAnswers(users', call[u]) \in SUBSET Answer
    BY <1>1, <2>2, RightTyped DEF TypeOK
  <2>4. right' \in [Thread -> SUBSET Answer]
    BY <1>1, <1>9, <2>3 DEF AddUser, TypeOK
  <2>5. added' \subseteq User \X Infos
    BY <1>1, <1>9, <2>1 DEF AddUser, TypeOK
  <2> QED
    BY <1>1, <1>9, <2>2, <2>4, <2>5
       DEF AddUser, HolderWhileSaving, Goto, TypeOK, PC, disk
<1>10. ASSUME NEW t \in Thread, OpenFile(t)
      PROVE  TypeOK'
  BY <1>1, <1>10, StoreAssumption
     DEF OpenFile, Goto, At, MayOpen, store, disk, history, TypeOK, PC,
         Answer
<1>11. ASSUME NEW t \in Thread, WriteLine(t)
      PROVE  TypeOK'
  BY <1>1, <1>11, StoreAssumption
     DEF WriteLine, At, store, disk, history, TypeOK, PC, Answer
<1>12. ASSUME NEW t \in Thread, CloseFile(t)
      PROVE  TypeOK'
  BY <1>1, <1>12, StoreAssumption
     DEF CloseFile, Answers, Goto, At, store, disk, history, TypeOK, PC,
         Answer
<1>13. ASSUME Crash
      PROVE  TypeOK'
  <2>1. crashes \in 0 .. MaxCrashes /\ crashes < MaxCrashes /\ crashes' = crashes + 1 /\ up' = FALSE
    BY <1>1, <1>13 DEF Crash, TypeOK
  <2> MaxCrashes \in Nat
    BY StoreAssumption
  <2>2. crashes' \in 0 .. MaxCrashes
    BY <2>1
  <2>3. UNCHANGED <<store, pc, call, copy, root, answer, right, todo, saved, added, adds>>
    BY <1>13 DEF Crash
  <2> QED
    BY <1>1, <2>1, <2>2, <2>3 DEF TypeOK, store
<1>14. ASSUME Restart
      PROVE  TypeOK'
  <2>1. users' \in [User -> UserInfo \cup {NoUser}]
    BY <1>1, <1>14, Loading DEF Restart, Loaded
  <2> QED
    BY <1>1, <1>14, <2>1, StoreAssumption DEF Restart, TypeOK, PC, Answer, history
<1> QED
  BY <1>2, <1>3, <1>4, <1>5, <1>6, <1>7, <1>8, <1>9, <1>10, <1>11, <1>12,
         <1>13, <1>14 DEF Next, Works

(* Only users that exist are waiting to be written.                        *)
TodoOK == \A u \in todo : users[u] # NoUser

(* Every step keeps what is still to be written.                           *)
LEMMA TodoKept ==
    ASSUME TypeOK, TodoOK, [Next]_vars
    PROVE  TodoOK'
<1>1. TypeOK /\ TodoOK
  OBVIOUS
<1>2. CASE UNCHANGED vars
  BY <1>1, <1>2 DEF vars, store, disk, history, TodoOK, TypeOK
<1>3. ASSUME NEW t \in Thread, AskStore(t)
      PROVE  TodoOK'
  BY <1>1, <1>3
     DEF AskStore, Asks, Goto, At, store, disk, history, TodoOK, TypeOK
<1>4. ASSUME NEW t \in Thread, AskToAdd(t)
      PROVE  TodoOK'
  BY <1>1, <1>4
     DEF AskToAdd, Asks, Goto, At, store, disk, history, TodoOK, TypeOK
<1>5. ASSUME NEW t \in Thread, GetUser(t)
      PROVE  TodoOK'
  BY <1>1, <1>5
     DEF GetUser, Answers, Goto, At, store, disk, history, TodoOK, TypeOK
<1>6. ASSUME NEW t \in Thread, ValidatePassword(t)
      PROVE  TodoOK'
  BY <1>1, <1>6
     DEF ValidatePassword, Answers, Goto, At, Compared, store, disk,
         history, TodoOK, TypeOK
<1>7. ASSUME NEW t \in Thread, FindRoot(t)
      PROVE  TodoOK'
  BY <1>1, <1>7
     DEF FindRoot, Answers, Goto, At, store, disk, history, TodoOK, TypeOK
<1>8. ASSUME NEW t \in Thread, Judge(t)
      PROVE  TodoOK'
  BY <1>1, <1>8
     DEF Judge, Answers, Goto, At, store, disk, history, TodoOK, TypeOK
<1>9. ASSUME NEW t \in Thread, AddUser(t)
      PROVE  TodoOK'
  <2> DEFINE c == call[t]
  <2>1. c.info # NoUser /\ c.user \in User
    BY <1>1, <1>9, StoreAssumption DEF AddUser, TypeOK, Call, Question
  <2>2. \A u \in User : users'[u] = (IF u = c.user THEN c.info ELSE users[u])
    BY <1>1, <1>9, <2>1 DEF AddUser, TypeOK
  <2>3. todo' = todo /\ todo \subseteq User
    BY <1>1, <1>9 DEF AddUser, TypeOK, disk
  <2> HIDE DEF c
  <2> QED
    BY <1>1, <2>1, <2>2, <2>3 DEF TodoOK
<1>10. ASSUME NEW t \in Thread, OpenFile(t)
      PROVE  TodoOK'
  BY <1>1, <1>10
     DEF OpenFile, Goto, At, MayOpen, store, disk, history, TodoOK, TypeOK
<1>11. ASSUME NEW t \in Thread, WriteLine(t)
      PROVE  TodoOK'
  BY <1>1, <1>11
     DEF WriteLine, At, store, disk, history, TodoOK, TypeOK
<1>12. ASSUME NEW t \in Thread, CloseFile(t)
      PROVE  TodoOK'
  BY <1>1, <1>12
     DEF CloseFile, Answers, Goto, At, store, disk, history, TodoOK, TypeOK
<1>13. ASSUME Crash
      PROVE  TodoOK'
  BY <1>1, <1>13
     DEF Crash, store, disk, history, TodoOK, TypeOK
<1>14. ASSUME Restart
      PROVE  TodoOK'
  BY <1>1, <1>14
     DEF Restart, store, disk, history, TodoOK, TypeOK
<1> QED
  BY <1>2, <1>3, <1>4, <1>5, <1>6, <1>7, <1>8, <1>9, <1>10, <1>11, <1>12,
         <1>13, <1>14 DEF Next, Works

(* Every step keeps what is true of the lines of the file.                 *)
LEMMA LinesKept ==
    ASSUME TypeOK, TodoOK, UsersOK, FileOK, [Next]_vars
    PROVE  FileOK'
<1>1. TypeOK /\ TodoOK /\ UsersOK /\ FileOK
  OBVIOUS
<1>2. CASE UNCHANGED vars
  BY <1>1, <1>2 DEF vars, store, disk, history, FileOK, Given, GivenBy
<1>3. ASSUME NEW t \in Thread, AskStore(t)
      PROVE  FileOK'
  BY <1>1, <1>3
     DEF AskStore, Asks, Goto, At, store, disk, history, FileOK, Given,
         GivenBy
<1>4. ASSUME NEW t \in Thread, AskToAdd(t)
      PROVE  FileOK'
  BY <1>1, <1>4
     DEF AskToAdd, Asks, Goto, At, store, disk, history, FileOK, Given,
         GivenBy
<1>5. ASSUME NEW t \in Thread, GetUser(t)
      PROVE  FileOK'
  BY <1>1, <1>5
     DEF GetUser, Answers, Goto, At, store, disk, history, FileOK, Given,
         GivenBy
<1>6. ASSUME NEW t \in Thread, ValidatePassword(t)
      PROVE  FileOK'
  BY <1>1, <1>6
     DEF ValidatePassword, Answers, Goto, At, Compared, store, disk,
         history, FileOK, Given, GivenBy
<1>7. ASSUME NEW t \in Thread, FindRoot(t)
      PROVE  FileOK'
  BY <1>1, <1>7
     DEF FindRoot, Answers, Goto, At, store, disk, history, FileOK, Given,
         GivenBy
<1>8. ASSUME NEW t \in Thread, Judge(t)
      PROVE  FileOK'
  BY <1>1, <1>8
     DEF Judge, Answers, Goto, At, store, disk, history, FileOK, Given,
         GivenBy
<1>9. ASSUME NEW t \in Thread, AddUser(t)
      PROVE  FileOK'
  BY <1>1, <1>9
     DEF AddUser, Goto, At, HolderWhileSaving, store, disk, history, FileOK,
         Given, GivenBy
<1>10. ASSUME NEW t \in Thread, OpenFile(t)
      PROVE  FileOK'
  BY <1>1, <1>10
     DEF OpenFile, Goto, At, MayOpen, store, disk, history, FileOK, Given,
         GivenBy
<1>11. ASSUME NEW t \in Thread, WriteLine(t)
      PROVE  FileOK'
  <2>1. added' = added
    BY <1>11 DEF WriteLine, history
  <2>2. PICK u \in todo : \E part \in Prefixes(Line(u, users[u])) : file' = file \cup {part}
    <3>1. \A u \in todo : u \in User /\ users[u] \in UserInfo
      BY <1>1 DEF TypeOK, TodoOK
    <3>2. \A u \in todo : Line(u, users[u]) \in Prefixes(Line(u, users[u]))
      BY <3>1, WholeIsPrefix
    <3> QED
      BY <1>11, <3>2 DEF WriteLine
  <2>3. u \in User /\ users[u] \in UserInfo /\ Given(u, users[u])
    BY <1>1, <2>2 DEF TypeOK, TodoOK, UsersOK
  <2> QED
    BY <1>1, <2>1, <2>2, <2>3 DEF FileOK, Given, GivenBy
<1>12. ASSUME NEW t \in Thread, CloseFile(t)
      PROVE  FileOK'
  BY <1>1, <1>12
     DEF CloseFile, Answers, Goto, At, store, disk, history, FileOK, Given,
         GivenBy
<1>13. ASSUME Crash
      PROVE  FileOK'
  <2>1. added' = added
    BY <1>13 DEF Crash
  <2>2. \A p \in file' : p \in file \/ \E l \in file : p \in Prefixes(l)
    BY <1>13 DEF Crash
  <2>3. ASSUME NEW p \in file', NEW l \in file, p \in Prefixes(l)
        PROVE  \E u \in User, i \in UserInfo : Given(u, i) /\ p \in Prefixes(Line(u, i))
    BY <1>1, <2>3, PrefixesOfPrefixes DEF FileOK
  <2> QED
    BY <1>1, <2>1, <2>2, <2>3 DEF FileOK, Given, GivenBy
<1>14. ASSUME Restart
      PROVE  FileOK'
  BY <1>1, <1>14
     DEF Restart, store, disk, history, FileOK, Given, GivenBy
<1> QED
  BY <1>2, <1>3, <1>4, <1>5, <1>6, <1>7, <1>8, <1>9, <1>10, <1>11, <1>12,
         <1>13, <1>14 DEF Next, Works

(* Every step keeps what is true of the users in memory.                   *)
LEMMA UsersKept ==
    ASSUME TypeOK, FileOK, UsersOK, [Next]_vars
    PROVE  UsersOK'
<1>1. TypeOK /\ FileOK /\ UsersOK
  OBVIOUS
<1>2. CASE UNCHANGED vars
  BY <1>1, <1>2 DEF vars, store, disk, history, UsersOK, Given, GivenBy
<1>3. ASSUME NEW t \in Thread, AskStore(t)
      PROVE  UsersOK'
  BY <1>1, <1>3
     DEF AskStore, Asks, Goto, At, store, disk, history, UsersOK, Given,
         GivenBy
<1>4. ASSUME NEW t \in Thread, AskToAdd(t)
      PROVE  UsersOK'
  BY <1>1, <1>4
     DEF AskToAdd, Asks, Goto, At, store, disk, history, UsersOK, Given,
         GivenBy
<1>5. ASSUME NEW t \in Thread, GetUser(t)
      PROVE  UsersOK'
  BY <1>1, <1>5
     DEF GetUser, Answers, Goto, At, store, disk, history, UsersOK, Given,
         GivenBy
<1>6. ASSUME NEW t \in Thread, ValidatePassword(t)
      PROVE  UsersOK'
  BY <1>1, <1>6
     DEF ValidatePassword, Answers, Goto, At, Compared, store, disk,
         history, UsersOK, Given, GivenBy
<1>7. ASSUME NEW t \in Thread, FindRoot(t)
      PROVE  UsersOK'
  BY <1>1, <1>7
     DEF FindRoot, Answers, Goto, At, store, disk, history, UsersOK, Given,
         GivenBy
<1>8. ASSUME NEW t \in Thread, Judge(t)
      PROVE  UsersOK'
  BY <1>1, <1>8
     DEF Judge, Answers, Goto, At, store, disk, history, UsersOK, Given,
         GivenBy
<1>9. ASSUME NEW t \in Thread, AddUser(t)
      PROVE  UsersOK'
  <2> DEFINE c == call[t]
  <2>1. c.user \in User /\ c.info \in Infos /\ c.info \in UserInfo
    BY <1>1, <1>9, StoreAssumption DEF AddUser, TypeOK, Call, Question
  <2>2. added' = added \cup {<<c.user, c.info>>} /\ users' = [users EXCEPT ![c.user] = c.info]
    BY <1>9 DEF AddUser
  <2>3. GivenBy(added', c.user, c.info)
    BY <2>1, <2>2, WeakerReflexive DEF GivenBy
  <2>4. \A u \in User, i \in UserInfo : Given(u, i) => GivenBy(added', u, i)
    BY <2>2 DEF Given, GivenBy
  <2> HIDE DEF c
  <2>5. \A u \in User : users'[u] = (IF u = c.user THEN c.info ELSE users[u])
    BY <1>1, <2>1, <2>2 DEF TypeOK
  <2>6. ASSUME NEW u \in User, users'[u] # NoUser
        PROVE  GivenBy(added', u, users'[u])
    <3>1. CASE u = c.user
      BY <2>3, <2>5, <3>1
    <3>2. CASE u # c.user
      BY <1>1, <2>4, <2>5, <2>6, <3>2 DEF UsersOK, TypeOK
    <3> QED
      BY <3>1, <3>2
  <2> QED
    BY <2>6 DEF UsersOK, Given, GivenBy
<1>10. ASSUME NEW t \in Thread, OpenFile(t)
      PROVE  UsersOK'
  BY <1>1, <1>10
     DEF OpenFile, Goto, At, MayOpen, store, disk, history, UsersOK, Given,
         GivenBy
<1>11. ASSUME NEW t \in Thread, WriteLine(t)
      PROVE  UsersOK'
  BY <1>1, <1>11
     DEF WriteLine, At, store, disk, history, UsersOK, Given, GivenBy
<1>12. ASSUME NEW t \in Thread, CloseFile(t)
      PROVE  UsersOK'
  BY <1>1, <1>12
     DEF CloseFile, Answers, Goto, At, store, disk, history, UsersOK, Given,
         GivenBy
<1>13. ASSUME Crash
      PROVE  UsersOK'
  BY <1>1, <1>13
     DEF Crash, store, disk, history, UsersOK, Given, GivenBy
<1>14. ASSUME Restart
      PROVE  UsersOK'
  <2>1. added' = added /\ users' = Loaded(file)
    BY <1>14 DEF Restart, history
  <2> QED
    BY <1>1, <2>1, Loading DEF UsersOK, Given, GivenBy
<1> QED
  BY <1>2, <1>3, <1>4, <1>5, <1>6, <1>7, <1>8, <1>9, <1>10, <1>11, <1>12,
         <1>13, <1>14 DEF Next, Works

(* What the store, the file and the calls hold stays in its type: what is  *)
(* loaded from a torn file too.                                            *)
THEOREM Typing == Spec => [](TypeOK /\ CopyOK /\ FileOK /\ UsersOK /\ TodoOK)
<1> DEFINE Inv == TypeOK /\ CopyOK /\ FileOK /\ UsersOK /\ TodoOK
<1>1. ASSUME Init
      PROVE  Inv
  <2>1. (CHOOSE c \in Calls : TRUE) \in Call
    BY StoreAssumption DEF Call
  <2>2. call \in [Thread -> Call]
    BY <1>1, <2>1 DEF Init
  <2> MaxAdds \in Nat /\ MaxCrashes \in Nat
    BY StoreAssumption
  <2>3. adds \in 0 .. MaxAdds /\ crashes \in 0 .. MaxCrashes
    BY <1>1 DEF Init
  <2>4. TypeOK
    BY <1>1, <2>2, <2>3 DEF Init, TypeOK, PC, Answer
  <2> QED
    BY <1>1, <2>4 DEF Init, CopyOK, FileOK, UsersOK, TodoOK
<1>2. Inv /\ [Next]_vars => Inv'
  BY TypesKept, CopyKept, LinesKept, UsersKept, TodoKept
<1> QED
  BY <1>1, <1>2, PTL DEF Spec

(* The types alone (access_control.cpp:12-149).                            *)
THEOREM Types == Spec => []TypeOK
BY Typing, PTL

(* No crash in the middle of a save, and no reload of what it left, gives  *)
(* anybody what add_user was not given, for every number of threads, users,*)
(* additions and crashes (access_control.cpp:18-67, 99-119).               *)
THEOREM NothingIsInvented == Spec => []NothingInvented
<1>1. UsersOK => NothingInvented
  BY DEF UsersOK, Given, GivenBy, NothingInvented
<1> QED
  BY <1>1, Typing, PTL

-----------------------------------------------------------------------------
(* The file follows the store.                                             *)

(* Who saves holds the mutex.                                              *)
MutexInv == \A t \in Thread : pc[t] \in {"saving", "writing"} => mutex = t

(* A thread that asks, or goes on with an answer, leaves the store, its    *)
(* mutex and its file alone, and does not save.                            *)
OnlyReads(t) ==
    /\ UNCHANGED <<up, store, disk, history>>
    /\ \E place \in {"idle", "comparing", "locating", "judging"} : Goto(t, place)

LEMMA QuestionsOnlyRead ==
    ASSUME NEW t \in Thread, GetUser(t) \/ ValidatePassword(t) \/ FindRoot(t) \/ Judge(t)
    PROVE  OnlyReads(t)
<1>1. CASE GetUser(t)
  BY <1>1 DEF GetUser, Answers, OnlyReads
<1>2. CASE ValidatePassword(t)
  BY <1>2 DEF ValidatePassword, Answers, OnlyReads
<1>3. CASE FindRoot(t)
  BY <1>3 DEF FindRoot, Answers, OnlyReads
<1>4. CASE Judge(t)
  BY <1>4 DEF Judge, Answers, OnlyReads
<1> QED
  BY <1>1, <1>2, <1>3, <1>4

(* Every step keeps what is true of the mutex.                             *)
LEMMA MutexKept ==
    ASSUME TypeOK, MutexInv, [Next]_vars
    PROVE  MutexInv'
<1>1. TypeOK /\ MutexInv
  OBVIOUS
<1>2. CASE UNCHANGED vars
  BY <1>1, <1>2 DEF vars, store, disk, history, MutexInv, TypeOK
<1>3. ASSUME NEW t \in Thread, AskStore(t)
      PROVE  MutexInv'
  <2>1. UNCHANGED <<up, store, disk, copy, root>> /\ pc' = [pc EXCEPT ![t] = "called"]
    BY <1>3 DEF AskStore, Asks, Goto
  <2> QED
    BY <1>1, <2>1 DEF TypeOK, store, disk, MutexInv
<1>4. ASSUME NEW t \in Thread, AskToAdd(t)
      PROVE  MutexInv'
  <2>1. UNCHANGED <<up, store, disk, copy, root>> /\ pc' = [pc EXCEPT ![t] = "called"]
    BY <1>4 DEF AskToAdd, Asks, Goto
  <2> QED
    BY <1>1, <2>1 DEF TypeOK, store, disk, MutexInv
<1>5. ASSUME NEW t \in Thread, GetUser(t)
      PROVE  MutexInv'
  BY <1>1, <1>5, QuestionsOnlyRead DEF OnlyReads, Goto, store, disk, MutexInv, TypeOK
<1>6. ASSUME NEW t \in Thread, ValidatePassword(t)
      PROVE  MutexInv'
  BY <1>1, <1>6, QuestionsOnlyRead DEF OnlyReads, Goto, store, disk, MutexInv, TypeOK
<1>7. ASSUME NEW t \in Thread, FindRoot(t)
      PROVE  MutexInv'
  BY <1>1, <1>7, QuestionsOnlyRead DEF OnlyReads, Goto, store, disk, MutexInv, TypeOK
<1>8. ASSUME NEW t \in Thread, Judge(t)
      PROVE  MutexInv'
  BY <1>1, <1>8, QuestionsOnlyRead DEF OnlyReads, Goto, store, disk, MutexInv, TypeOK
<1>9. ASSUME NEW t \in Thread, AddUser(t)
      PROVE  MutexInv'
  BY <1>1, <1>9, StoreAssumption
     DEF AddUser, Goto, At, HolderWhileSaving, store, disk, history,
         MutexInv, TypeOK
<1>10. ASSUME NEW t \in Thread, OpenFile(t)
      PROVE  MutexInv'
  BY <1>1, <1>10, StoreAssumption
     DEF OpenFile, Goto, At, MayOpen, store, disk, history, MutexInv, TypeOK
<1>11. ASSUME NEW t \in Thread, WriteLine(t)
      PROVE  MutexInv'
  BY <1>1, <1>11, StoreAssumption
     DEF WriteLine, At, store, disk, history, MutexInv, TypeOK
<1>12. ASSUME NEW t \in Thread, CloseFile(t)
      PROVE  MutexInv'
  BY <1>1, <1>12, StoreAssumption
     DEF CloseFile, Answers, Goto, At, store, disk, history, MutexInv,
         TypeOK
<1>13. ASSUME Crash
      PROVE  MutexInv'
  BY <1>1, <1>13, StoreAssumption
     DEF Crash, store, disk, history, MutexInv, TypeOK
<1>14. ASSUME Restart
      PROVE  MutexInv'
  BY <1>1, <1>14, StoreAssumption
     DEF Restart, store, disk, history, MutexInv, TypeOK
<1> QED
  BY <1>2, <1>3, <1>4, <1>5, <1>6, <1>7, <1>8, <1>9, <1>10, <1>11, <1>12,
         <1>13, <1>14 DEF Next, Works

(* The file holds the lines of all users, but for those still to be written*)
(* by the thread that saves.                                               *)
FileInv ==
    up /\ saved =>
        /\ mutex = Nobody => file = Lines(users, User)
        /\ \A t \in Thread : pc[t] = "writing" => file = Lines(users, User \ todo)

(* Every step keeps the file between what was and what is to be.           *)
LEMMA FileKept ==
    ASSUME TypeOK, TodoOK, MutexInv, FileInv, [Next]_vars
    PROVE  FileInv'
<1>1. TypeOK /\ TodoOK /\ MutexInv /\ FileInv
  OBVIOUS
<1>2. CASE UNCHANGED vars
  BY <1>1, <1>2 DEF vars, store, disk, history, FileInv, MutexInv, TypeOK
<1>3. ASSUME NEW t \in Thread, AskStore(t)
      PROVE  FileInv'
  <2>1. UNCHANGED <<up, store, disk, copy, root>> /\ pc' = [pc EXCEPT ![t] = "called"]
    BY <1>3 DEF AskStore, Asks, Goto
  <2> QED
    BY <1>1, <2>1 DEF TypeOK, store, disk, FileInv
<1>4. ASSUME NEW t \in Thread, AskToAdd(t)
      PROVE  FileInv'
  <2>1. UNCHANGED <<up, store, disk, copy, root>> /\ pc' = [pc EXCEPT ![t] = "called"]
    BY <1>4 DEF AskToAdd, Asks, Goto
  <2> QED
    BY <1>1, <2>1 DEF TypeOK, store, disk, FileInv
<1>5. ASSUME NEW t \in Thread, GetUser(t)
      PROVE  FileInv'
  BY <1>1, <1>5, QuestionsOnlyRead DEF OnlyReads, Goto, store, disk, FileInv, TypeOK
<1>6. ASSUME NEW t \in Thread, ValidatePassword(t)
      PROVE  FileInv'
  BY <1>1, <1>6, QuestionsOnlyRead DEF OnlyReads, Goto, store, disk, FileInv, TypeOK
<1>7. ASSUME NEW t \in Thread, FindRoot(t)
      PROVE  FileInv'
  BY <1>1, <1>7, QuestionsOnlyRead DEF OnlyReads, Goto, store, disk, FileInv, TypeOK
<1>8. ASSUME NEW t \in Thread, Judge(t)
      PROVE  FileInv'
  BY <1>1, <1>8, QuestionsOnlyRead DEF OnlyReads, Goto, store, disk, FileInv, TypeOK
<1>9. ASSUME NEW t \in Thread, AddUser(t)
      PROVE  FileInv'
  BY <1>1, <1>9, StoreAssumption
     DEF AddUser, Goto, At, HolderWhileSaving, store, disk, history,
         FileInv, MutexInv, TypeOK
<1>10. ASSUME NEW t \in Thread, OpenFile(t)
      PROVE  FileInv'
  <2>1. mutex = t /\ t # Nobody /\ mutex' = mutex /\ users' = users
    BY <1>1, <1>10, StoreAssumption DEF OpenFile, At, MutexInv, store
  <2>2. CASE saved' = FALSE
    BY <2>2 DEF FileInv
  <2>3. CASE file' = {} /\ todo' = {u \in User : users[u] # NoUser}
    <3>1. Lines(users', User \ todo') = {}
      BY <2>1, <2>3 DEF Lines
    <3> QED
      BY <2>1, <2>3, <3>1 DEF FileInv
  <2> QED
    BY <1>10, <2>2, <2>3 DEF OpenFile
<1>11. ASSUME NEW t \in Thread, WriteLine(t)
      PROVE  FileInv'
  <2>1. /\ mutex = t /\ t # Nobody /\ mutex' = mutex /\ users' = users /\ up' = up /\ up
        /\ pc[t] = "writing" /\ pc' = pc
    BY <1>1, <1>11, StoreAssumption DEF WriteLine, At, MutexInv, store
  <2>2. CASE saved' = FALSE
    BY <2>2 DEF FileInv
  <2>3. ASSUME NEW u \in todo, file' = file \cup {Line(u, users[u])}, todo' = todo \ {u}, saved' = saved,
               saved
        PROVE  file' = Lines(users', User \ todo')
    <3>1. file = Lines(users, User \ todo)
      BY <1>1, <2>1, <2>3 DEF FileInv
    <3>2. u \in User /\ users[u] # NoUser /\ todo \subseteq User
      BY <1>1, <2>3 DEF TypeOK, TodoOK
    <3>3. {n \in User \ todo' : users[n] # NoUser} = {n \in User \ todo : users[n] # NoUser} \cup {u}
      BY <2>3, <3>2
    <3> QED
      BY <2>1, <2>3, <3>1, <3>3 DEF Lines
  <2> QED
    BY <1>11, <2>1, <2>2, <2>3 DEF WriteLine, FileInv
<1>12. ASSUME NEW t \in Thread, CloseFile(t)
      PROVE  FileInv'
  <2>1. mutex = t /\ users' = users /\ up' = up /\ up /\ file' = file /\ saved' = saved /\ todo = {}
    BY <1>1, <1>12 DEF CloseFile, At, MutexInv, disk
  <2>2. saved => file = Lines(users, User)
    <3>1. User \ todo = User
      BY <2>1
    <3> QED
      BY <1>1, <1>12, <2>1, <3>1 DEF CloseFile, At, FileInv
  <2>3. \A u \in Thread : pc'[u] # "writing"
    BY <1>1, <1>12, <2>1 DEF CloseFile, Answers, Goto, TypeOK, MutexInv
  <2> QED
    BY <2>1, <2>2, <2>3 DEF FileInv
<1>13. ASSUME Crash
      PROVE  FileInv'
  BY <1>1, <1>13, StoreAssumption
     DEF Crash, store, disk, history, FileInv, MutexInv, TypeOK
<1>14. ASSUME Restart
      PROVE  FileInv'
  BY <1>1, <1>14, StoreAssumption
     DEF Restart, store, disk, history, FileInv, MutexInv, TypeOK
<1> QED
  BY <1>2, <1>3, <1>4, <1>5, <1>6, <1>7, <1>8, <1>9, <1>10, <1>11, <1>12,
         <1>13, <1>14 DEF Next, Works

(* The mutex belongs to who changes or saves the users.                    *)
LEMMA MutexAlways == Spec => []MutexInv
<1>1. Init => MutexInv
  BY DEF Init, MutexInv
<1>2. TypeOK /\ MutexInv /\ [Next]_vars => MutexInv'
  BY MutexKept
<1> QED
  BY <1>1, <1>2, Typing, PTL DEF Spec

(* Whatever the order in which threads add users, nobody finds the store   *)
(* and the file different, unless the file could not be written, for every *)
(* number of threads and users (access_control.cpp:93-119).                *)
THEOREM FileFollows == Spec => []FileIsCurrent
<1>1. Init => FileInv
  BY DEF Init, FileInv
<1>2. TypeOK /\ TodoOK /\ MutexInv /\ FileInv /\ [Next]_vars => FileInv'
  BY FileKept
<1>3. FileInv => FileIsCurrent
  BY DEF FileInv, FileIsCurrent
<1> QED
  BY <1>1, <1>2, <1>3, Typing, MutexAlways, PTL DEF Spec

-----------------------------------------------------------------------------
(* Answers.                                                                *)

(* What a call has seen so far makes the answer it is about to give right. *)
AnswerOK(t) ==
    up =>
        /\ pc[t] = "called" => RightAnswers(users, call[t]) \subseteq right[t]
        /\ pc[t] \in {"saving", "writing"} => "added" \in right[t]
        /\ pc[t] = "comparing" =>
              (IF copy[t].password = call[t].password THEN "SUCCESS" ELSE "WRONG_PASSWORD")
                  \in right[t]
        /\ pc[t] \in {"locating", "judging"} =>
              /\ {"refused", "throws"} \subseteq right[t]
              /\ Permits(copy[t].permission, call[t].required)
                     /\ (\E h \in {copy[t].home, SharedRoot} : <<call[t].path, h>> \in Covers)
                 => "granted" \in right[t]
        /\ pc[t] = "judging" => root[t] \in {copy[t].home, SharedRoot}
        /\ pc[t] = "idle" => answer[t] = "none" \/ answer[t] \in right[t]

AnswersInv == \A t \in Thread : AnswerOK(t)

(* A step of another thread that leaves the store alone.                   *)
Same(u) ==
    /\ pc'[u] = pc[u] /\ call'[u] = call[u] /\ copy'[u] = copy[u] /\ root'[u] = root[u]
    /\ answer'[u] = answer[u] /\ right'[u] = right[u]

(* A call that does nothing keeps its right answers.                       *)
LEMMA OthersKeep ==
    ASSUME up, users' = users, NEW u \in Thread, AnswerOK(u), Same(u)
    PROVE  AnswerOK(u)'
BY DEF AnswerOK, Same

(* Every step keeps every call to its right answers.                       *)
LEMMA AnswersKept ==
    ASSUME TypeOK, AnswersInv, [Next]_vars
    PROVE  AnswersInv'
<1>1. TypeOK /\ AnswersInv
  OBVIOUS
<1>2. CASE UNCHANGED vars
  BY <1>1, <1>2 DEF vars, store, disk, history, AnswersInv, AnswerOK
<1>3. ASSUME NEW t \in Thread, AskStore(t)
      PROVE  AnswersInv'
  <2>1. /\ up /\ up' /\ users' = users
        /\ \A u \in Thread \ {t} : Same(u)
    BY <1>1, <1>3 DEF AskStore, Asks, Goto, At, TypeOK, Same, store
  <2>2. \A u \in Thread \ {t} : AnswerOK(u)'
    BY <1>1, <2>1, OthersKeep DEF AnswersInv
  <2>3. AnswerOK(t)'
    <3>1. PICK c \in Calls : Asks(t, c)
      BY <1>3 DEF AskStore
    <3> QED
      BY <1>1, <2>1, <3>1 DEF Asks, Goto, TypeOK, AnswerOK
  <2> QED
    BY <2>2, <2>3 DEF AnswersInv
<1>4. ASSUME NEW t \in Thread, AskToAdd(t)
      PROVE  AnswersInv'
  <2>1. /\ up /\ up' /\ users' = users
        /\ \A u \in Thread \ {t} : Same(u)
    BY <1>1, <1>4 DEF AskToAdd, Asks, Goto, At, TypeOK, Same, store
  <2>2. \A u \in Thread \ {t} : AnswerOK(u)'
    BY <1>1, <2>1, OthersKeep DEF AnswersInv
  <2>3. AnswerOK(t)'
    <3>1. PICK u \in User, i \in Infos : Asks(t, [op |-> "add", user |-> u, info |-> i])
      BY <1>4 DEF AskToAdd
    <3> DEFINE c == [op |-> "add", user |-> u, info |-> i]
    <3>2. Asks(t, c)
      BY <3>1
    <3> HIDE DEF c
    <3> QED
      BY <1>1, <2>1, <3>2 DEF Asks, Goto, TypeOK, AnswerOK
  <2> QED
    BY <2>2, <2>3 DEF AnswersInv
<1>5. ASSUME NEW t \in Thread, GetUser(t)
      PROVE  AnswersInv'
  <2>1. /\ up /\ up' /\ users' = users
        /\ \A u \in Thread \ {t} : Same(u)
    BY <1>1, <1>5 DEF GetUser, Answers, Goto, At, TypeOK, Same, store
  <2>2. \A u \in Thread \ {t} : AnswerOK(u)'
    BY <1>1, <2>1, OthersKeep DEF AnswersInv
  <2>3. AnswerOK(t)'
    <3> DEFINE q == call[t]
               i == users[q.user]
    <3>1. RightAnswers(users, q) \subseteq right[t] /\ q.op \in {"check", "authenticate"}
      BY <1>1, <1>5, <2>1 DEF GetUser, At, AnswersInv, AnswerOK, TypeOK, Call, Question
    <3>2. /\ call'[t] = q /\ right'[t] = right[t] /\ copy'[t] = i
          /\ pc[t] = "called"
      BY <1>1, <1>5, <2>1 DEF GetUser, TypeOK, At
    <3>3. CASE i = NoUser
      <4>1. answer'[t] = (IF q.op = "check" THEN "refused" ELSE "NO_SUCH_USER") /\ pc'[t] = "idle"
        BY <1>1, <1>5, <2>1, <3>3 DEF GetUser, Answers, Goto, TypeOK
      <4>2. answer'[t] \in RightAnswers(users, q)
        BY <3>1, <3>3, <4>1 DEF RightAnswers
      <4> QED
        BY <3>1, <3>2, <4>1, <4>2 DEF AnswerOK
    <3>4. CASE i # NoUser /\ q.op = "check"
      <4>1. pc'[t] = "locating"
        BY <1>1, <1>5, <2>1, <3>4 DEF GetUser, Goto, TypeOK
      <4>2. /\ {"refused", "throws"} \subseteq right[t]
            /\ Permits(i.permission, q.required)
                   /\ (\E h \in {i.home, SharedRoot} : <<q.path, h>> \in Covers)
               => "granted" \in right[t]
        BY <3>1, <3>4 DEF RightAnswers
      <4> QED
        BY <3>2, <3>4, <4>1, <4>2 DEF AnswerOK
    <3>5. CASE i # NoUser /\ q.op = "authenticate" /\ ~i.enabled
      <4>1. pc'[t] = "idle" /\ answer'[t] = "ACCOUNT_DISABLED"
        BY <1>1, <1>5, <2>1, <3>5 DEF GetUser, Answers, Goto, TypeOK
      <4>2. "ACCOUNT_DISABLED" \in right[t]
        BY <3>1, <3>5 DEF RightAnswers
      <4> QED
        BY <3>2, <4>1, <4>2 DEF AnswerOK
    <3>6. CASE i # NoUser /\ q.op = "authenticate" /\ i.enabled
      <4>1. pc'[t] = "comparing"
        BY <1>1, <1>5, <2>1, <3>6 DEF GetUser, Goto, TypeOK
      <4>2. (IF i.password = q.password THEN "SUCCESS" ELSE "WRONG_PASSWORD") \in right[t]
        BY <3>1, <3>6 DEF RightAnswers
      <4> QED
        BY <3>2, <3>6, <4>1, <4>2 DEF AnswerOK
    <3> QED
      BY <3>1, <3>3, <3>4, <3>5, <3>6
  <2> QED
    BY <2>2, <2>3 DEF AnswersInv
<1>6. ASSUME NEW t \in Thread, ValidatePassword(t)
      PROVE  AnswersInv'
  <2>1. /\ up /\ up' /\ users' = users
        /\ \A u \in Thread \ {t} : Same(u)
    BY <1>1, <1>6 DEF ValidatePassword, Answers, Goto, At, Compared, TypeOK, Same, store
  <2>2. \A u \in Thread \ {t} : AnswerOK(u)'
    BY <1>1, <2>1, OthersKeep DEF AnswersInv
  <2>3. AnswerOK(t)'
    BY <1>1, <1>6, <2>1 DEF ValidatePassword, Answers, Goto, At, Compared, TypeOK, AnswersInv, AnswerOK, store
  <2> QED
    BY <2>2, <2>3 DEF AnswersInv
<1>7. ASSUME NEW t \in Thread, FindRoot(t)
      PROVE  AnswersInv'
  <2>1. /\ up /\ up' /\ users' = users
        /\ \A u \in Thread \ {t} : Same(u)
    BY <1>1, <1>7 DEF FindRoot, Answers, Goto, At, TypeOK, Same, store
  <2>2. \A u \in Thread \ {t} : AnswerOK(u)'
    BY <1>1, <2>1, OthersKeep DEF AnswersInv
  <2>3. AnswerOK(t)'
    <3>1. /\ {"refused", "throws"} \subseteq right[t]
          /\ Permits(copy[t].permission, call[t].required)
                 /\ (\E h \in {copy[t].home, SharedRoot} : <<call[t].path, h>> \in Covers)
             => "granted" \in right[t]
      BY <1>1, <1>7 DEF FindRoot, At, AnswersInv, AnswerOK
    <3>2. call'[t] = call[t] /\ copy'[t] = copy[t] /\ right'[t] = right[t]
      BY <1>7 DEF FindRoot
    <3>3. CASE pc'[t] = "idle" /\ answer'[t] = "refused"
      BY <3>1, <3>2, <3>3 DEF AnswerOK
    <3>4. CASE pc'[t] = "judging" /\ root'[t] \in {copy[t].home, SharedRoot}
      BY <3>1, <3>2, <3>4 DEF AnswerOK
    <3> QED
      BY <1>1, <1>7, <3>3, <3>4 DEF FindRoot, Answers, Goto, TypeOK
  <2> QED
    BY <2>2, <2>3 DEF AnswersInv
<1>8. ASSUME NEW t \in Thread, Judge(t)
      PROVE  AnswersInv'
  <2>1. /\ up /\ up' /\ users' = users
        /\ \A u \in Thread \ {t} : Same(u)
    BY <1>1, <1>8 DEF Judge, Answers, Goto, At, TypeOK, Same, store
  <2>2. \A u \in Thread \ {t} : AnswerOK(u)'
    BY <1>1, <2>1, OthersKeep DEF AnswersInv
  <2>3. AnswerOK(t)'
    <3> DEFINE granted == /\ <<call[t].path, root[t]>> \in Covers
                          /\ Permits(copy[t].permission, call[t].required)
    <3>1. PICK a \in {"throws", IF granted THEN "granted" ELSE "refused"} : Answers(t, a)
      BY <1>8 DEF Judge
    <3>2. pc'[t] = "idle" /\ answer'[t] = a /\ right'[t] = right[t]
      BY <1>1, <1>8, <3>1 DEF Judge, Answers, Goto, TypeOK
    <3>3. /\ {"refused", "throws"} \subseteq right[t] /\ root[t] \in {copy[t].home, SharedRoot}
          /\ Permits(copy[t].permission, call[t].required)
                 /\ (\E h \in {copy[t].home, SharedRoot} : <<call[t].path, h>> \in Covers)
             => "granted" \in right[t]
      BY <1>1, <1>8, <2>1 DEF Judge, At, AnswersInv, AnswerOK
    <3>4. granted => "granted" \in right[t]
      BY <3>3
    <3>5. a \in right[t]
      BY <3>1, <3>3, <3>4
    <3> QED
      BY <3>2, <3>5 DEF AnswerOK
  <2> QED
    BY <2>2, <2>3 DEF AnswersInv
<1>9. ASSUME NEW t \in Thread, AddUser(t)
      PROVE  AnswersInv'
  <2>1. /\ up /\ up' = up /\ UNCHANGED <<call, copy, root, answer>>
        /\ right' = [u \in Thread |-> right[u] \cup RightAnswers(users', call[u])]
        /\ pc' = [pc EXCEPT ![t] = "saving"] /\ call[t].op = "add"
    BY <1>9 DEF AddUser, Goto, At
  <2>2. \A u \in Thread : right[u] \subseteq right'[u] /\ RightAnswers(users', call[u]) \subseteq right'[u]
    BY <2>1
  <2>3. ASSUME NEW u \in Thread, u # t
        PROVE  AnswerOK(u)'
    <3>1. pc'[u] = pc[u] /\ AnswerOK(u)
      BY <1>1, <2>1, <2>3 DEF TypeOK, AnswersInv
    <3> QED
      BY <2>1, <2>2, <3>1 DEF AnswerOK
  <2>4. AnswerOK(t)'
    <3>1. pc'[t] = "saving"
      BY <1>1, <2>1 DEF TypeOK
    <3>2. "added" \in right'[t]
      BY <2>1, <2>2 DEF RightAnswers
    <3> QED
      BY <3>1, <3>2 DEF AnswerOK
  <2> QED
    BY <2>3, <2>4 DEF AnswersInv
<1>10. ASSUME NEW t \in Thread, OpenFile(t)
      PROVE  AnswersInv'
  <2>1. /\ up /\ up' /\ users' = users
        /\ \A u \in Thread \ {t} : Same(u)
    BY <1>1, <1>10 DEF OpenFile, Goto, At, MayOpen, TypeOK, Same, store
  <2>2. \A u \in Thread \ {t} : AnswerOK(u)'
    BY <1>1, <2>1, OthersKeep DEF AnswersInv
  <2>3. AnswerOK(t)'
    BY <1>1, <1>10, <2>1 DEF OpenFile, Goto, At, MayOpen, TypeOK, AnswersInv, AnswerOK
  <2> QED
    BY <2>2, <2>3 DEF AnswersInv
<1>11. ASSUME NEW t \in Thread, WriteLine(t)
      PROVE  AnswersInv'
  <2>1. /\ up /\ up' /\ users' = users
        /\ \A u \in Thread \ {t} : Same(u)
    BY <1>1, <1>11 DEF WriteLine, At, TypeOK, Same, store
  <2>2. \A u \in Thread \ {t} : AnswerOK(u)'
    BY <1>1, <2>1, OthersKeep DEF AnswersInv
  <2>3. AnswerOK(t)'
    BY <1>1, <1>11, <2>1 DEF WriteLine, At, TypeOK, AnswersInv, AnswerOK
  <2> QED
    BY <2>2, <2>3 DEF AnswersInv
<1>12. ASSUME NEW t \in Thread, CloseFile(t)
      PROVE  AnswersInv'
  <2>1. /\ up /\ up' /\ users' = users
        /\ \A u \in Thread \ {t} : Same(u)
    BY <1>1, <1>12 DEF CloseFile, Answers, Goto, At, TypeOK, Same, store
  <2>2. \A u \in Thread \ {t} : AnswerOK(u)'
    BY <1>1, <2>1, OthersKeep DEF AnswersInv
  <2>3. AnswerOK(t)'
    BY <1>1, <1>12, <2>1 DEF CloseFile, Answers, Goto, At, TypeOK, AnswersInv, AnswerOK, disk
  <2> QED
    BY <2>2, <2>3 DEF AnswersInv
<1>13. ASSUME Crash
      PROVE  AnswersInv'
  <2>1. ~up'
    BY <1>13 DEF Crash
  <2> QED
    BY <2>1 DEF AnswersInv, AnswerOK
<1>14. ASSUME Restart
      PROVE  AnswersInv'
  BY <1>14 DEF Restart, AnswersInv, AnswerOK
<1> QED
  BY <1>2, <1>3, <1>4, <1>5, <1>6, <1>7, <1>8, <1>9, <1>10, <1>11, <1>12,
         <1>13, <1>14 DEF Next, Works

(* Every answer was right for the store as it was at one moment of the     *)
(* call, for every number of threads, users and additions in between       *)
(* (access_control.cpp:130-206).                                           *)
THEOREM AnswersAreRight == Spec => []AnswersRight
<1>1. Init => AnswersInv
  BY DEF Init, AnswersInv, AnswerOK
<1>2. TypeOK /\ AnswersInv /\ [Next]_vars => AnswersInv'
  BY AnswersKept
<1>3. AnswersInv => AnswersRight
  BY DEF AnswersInv, AnswerOK, AnswersRight
<1> QED
  BY <1>1, <1>2, <1>3, Types, PTL DEF Spec
=============================================================================
