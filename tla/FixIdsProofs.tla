----------------------------- MODULE FixIdsProofs -----------------------------
(***************************************************************************)
(* Proofs about fixids, for every image, every set of ids, names and files *)
(* and any number of crashes, starts and failing calls.                    *)
(***************************************************************************)
EXTENDS FixIds, TLAPS

USE NamesAssumption, ImageAssumption, BoundsAssumption DEF Account

------------------------------------------------------------------------------
(* Where the two account files go for runtime ids r.                         *)

FreeUid(r) == \A u \in Users : Passwd[u].uid # r.uid
FreeGid(r) == \A g \in Groups : Etc[g].gid # r.gid

MovedPasswd(r) ==
    [u \in Users |->
        [uid |-> IF FreeUid(r) /\ u = User THEN r.uid ELSE Passwd[u].uid,
         gid |-> IF FreeGid(r) /\ Passwd[u].gid = Etc[Group].gid THEN r.gid ELSE Passwd[u].gid]]
MovedGroup(r) ==
    [g \in Groups |->
        [gid |-> IF FreeGid(r) /\ g = Group THEN r.gid ELSE Etc[g].gid,
         members |-> Etc[g].members]]

\* As far as the writes have come: the second file is written after the first.
Underway(p, g, r) ==
    /\ p \in {Passwd, MovedPasswd(r)}
    /\ g = Etc \/ (g = MovedGroup(r) /\ p = MovedPasswd(r))

LEMMA MovedTypes ==
    ASSUME NEW r \in Account
    PROVE  /\ MovedPasswd(r) \in [Users -> Account]
           /\ MovedGroup(r) \in [Groups -> [gid : Ids, members : SUBSET Users]]
BY DEF MovedPasswd, MovedGroup

\* One name per id, in the image and after the move.
LEMMA MovedUnique ==
    ASSUME NEW r \in Account
    PROVE  /\ \A u, v \in Users : MovedPasswd(r)[u].uid = MovedPasswd(r)[v].uid => u = v
           /\ \A g, h \in Groups : MovedGroup(r)[g].gid = MovedGroup(r)[h].gid => g = h
BY DEF MovedPasswd, MovedGroup, FreeUid, FreeGid

LEMMA MovedPrimaryGroups ==
    ASSUME NEW r \in Account, NEW u \in Users, NEW g \in Groups, Passwd[u].gid = Etc[g].gid
    PROVE  MovedPasswd(r)[u].gid = MovedGroup(r)[g].gid
BY DEF MovedPasswd, MovedGroup

\* After the move both runtime ids have a name.
LEMMA MovedNames ==
    ASSUME NEW r \in Account
    PROVE  /\ \E u \in Users : MovedPasswd(r)[u].uid = r.uid
           /\ \E g \in Groups : MovedGroup(r)[g].gid = r.gid
           /\ \A u \in Users : MovedPasswd(r)[u].uid = r.uid <=>
                IF FreeUid(r) THEN u = User ELSE Passwd[u].uid = r.uid
<1>1. \E u \in Users : MovedPasswd(r)[u].uid = r.uid
  <2>1. CASE FreeUid(r)
    BY <2>1 DEF MovedPasswd
  <2>2. CASE ~FreeUid(r)
    BY <2>2 DEF MovedPasswd, FreeUid
  <2>3. QED
    BY <2>1, <2>2
<1>2. \E g \in Groups : MovedGroup(r)[g].gid = r.gid
  <2>1. CASE FreeGid(r)
    BY <2>1 DEF MovedGroup
  <2>2. CASE ~FreeGid(r)
    BY <2>2 DEF MovedGroup, FreeGid
  <2>3. QED
    BY <2>1, <2>2
<1>3. \A u \in Users : MovedPasswd(r)[u].uid = r.uid <=>
                IF FreeUid(r) THEN u = User ELSE Passwd[u].uid = r.uid
  BY DEF MovedPasswd, FreeUid
<1>4. QED
  BY <1>1, <1>2, <1>3

\* If nothing is free nothing moves.
LEMMA NothingMoves ==
    ASSUME NEW r \in Account
    PROVE  /\ ~FreeUid(r) /\ ~FreeGid(r) => MovedPasswd(r) = Passwd
           /\ ~FreeGid(r) => MovedGroup(r) = Etc
BY DEF MovedPasswd, MovedGroup

\* What Decide reads and WritePasswd makes of it, at any stage of the move.
NoUser(p, r) == \A u \in Users : p[u].uid # r.uid
NoGroup(g, r) == \A h \in Groups : g[h].gid # r.gid

NextPasswd(p, g, r) ==
    [u \in Users |->
        [uid |-> IF NoUser(p, r) /\ u = User THEN r.uid ELSE p[u].uid,
         gid |-> IF NoGroup(g, r) /\ p[u].gid = g[Group].gid THEN r.gid ELSE p[u].gid]]

LEMMA NextMove ==
    ASSUME NEW r \in Account, NEW p, NEW g, Underway(p, g, r)
    PROVE  /\ NoUser(p, r) \/ NoGroup(g, r) \/ (p = MovedPasswd(r) /\ g = MovedGroup(r))
           /\ IF NoGroup(g, r) THEN g = Etc /\ FreeGid(r) ELSE g = MovedGroup(r)
           /\ NextPasswd(p, g, r) = MovedPasswd(r)
<1>1. CASE p = Passwd /\ g = Etc
  <2>1. NoUser(p, r) = FreeUid(r) /\ NoGroup(g, r) = FreeGid(r)
    BY <1>1 DEF FreeUid, FreeGid, NoUser, NoGroup
  <2>2. QED
    BY <1>1, <2>1, NothingMoves DEF MovedPasswd, NextPasswd
<1>2. CASE p = MovedPasswd(r) /\ g = Etc
  <2>1. ~NoUser(p, r) /\ NoGroup(g, r) = FreeGid(r)
    BY <1>2, MovedNames DEF FreeGid, NoUser, NoGroup
  <2>2. CASE FreeGid(r)
    BY <1>2, <2>1, <2>2 DEF MovedPasswd, NextPasswd
  <2>3. CASE ~FreeGid(r)
    BY <1>2, <2>1, <2>3, NothingMoves DEF MovedPasswd, NextPasswd
  <2>4. QED
    BY <2>2, <2>3
<1>3. CASE p = MovedPasswd(r) /\ g = MovedGroup(r)
  <2>1. ~NoUser(p, r) /\ ~NoGroup(g, r)
    BY <1>3, MovedNames DEF NoUser, NoGroup
  <2>2. QED
    BY <1>3, <2>1 DEF MovedPasswd, NextPasswd
<1>4. QED
  BY <1>1, <1>2, <1>3 DEF Underway

------------------------------------------------------------------------------
(* The inductive invariant.                                                  *)

InWrites == {"passwd", "passwd2", "group", "group2", "chown", "mark"}
AfterMark == {"home", "setgroups", "setegid", "seteuid", "exec", "exit"}

\* The two files are under way to the runtime ids of the first start, and
\* there once the system is marked.
Accounts ==
    /\ IF ran THEN passwd = MovedPasswd(fixed) /\ group = MovedGroup(fixed) /\ torn = {}
              ELSE Underway(passwd, group, run)
    /\ pc \in InWrites => ~ran
    /\ pc \in AfterMark => ran \/ (faults > 0 /\ pc # "home")
    /\ pc \in {"passwd", "group", "chown", "mark"} => torn = {}
    /\ pc = "passwd2" => torn = {"passwd"}
    /\ pc = "group2" => torn = {"group"}

\* What Decide has decided is still so when it is done.
Writing ==
    /\ pc \in {"passwd", "passwd2"} =>
         /\ from = [uid |-> passwd[User].uid, gid |-> group[Group].gid]
         /\ moveUser <=> NoUser(passwd, run)
         /\ moveGroup <=> NoGroup(group, run)
    /\ pc \in {"group", "group2"} =>
         passwd = MovedPasswd(run) /\ group = Etc /\ FreeGid(run) /\ from.gid = Etc[Group].gid
    /\ pc \in {"chown", "mark"} => passwd = MovedPasswd(run) /\ group = MovedGroup(run)

Image == [uid |-> Passwd[User].uid, gid |-> Etc[Group].gid]

\* Whose files are looked for: those of the image's ids, unless an earlier
\* start has moved them.
Whose ==
    /\ pc \in InWrites \ {"mark"} =>
         /\ from.uid \in {Passwd[User].uid, MovedPasswd(run)[User].uid}
         /\ from.gid \in {Etc[Group].gid, MovedGroup(run)[Group].gid}
         /\ crashes = 0 /\ faults = 0 => from = Image
    /\ pc \in {"down", "begin", "fatal"} /\ ~ran /\ crashes = 0 /\ faults = 0 =>
         passwd = Passwd /\ group = Etc

Clean == faults = 0 /\ (crashes = 0 \/ (passwd = Passwd /\ group = Etc))

\* How far the walk has come.
Walking ==
    /\ ~ran => \A f \in Walked : Mine(f) => owner[f] \in {Owner[f], run}
    /\ pc \in {"passwd", "passwd2", "group", "group2"} => pending = Walked
    /\ pc = "chown" /\ Clean => \A f \in Walked \ pending : Mine(f) => owner[f] = run
    /\ pc = "mark" /\ Clean => \A f \in Walked : Mine(f) => owner[f] = run
    /\ FilesFollow
    /\ OthersFilesKept

\* The credentials on the way to what is executed.
Creds ==
    /\ pc \notin {"down", "exec", "exit", "fatal"} => euid = IF setuid THEN 0 ELSE run.uid
    /\ pc \notin {"down", "exit", "fatal", "setegid", "seteuid", "exec"} => groups = given
    /\ pc \in {"setegid", "seteuid", "exec"} =>
         groups \subseteq given \cup UNION {Gids(u) : u \in UserOf(run.uid)}
    /\ pc \in {"seteuid", "exec"} => egid = run.gid
    /\ pc = "exec" => euid = run.uid
    /\ pc \in {"begin", "setgroups", "setegid", "seteuid", "exec", "exit"} /\ UserOf(run.uid) # {} =>
         home
    /\ FatalIsEarned

IInv ==
    /\ TypeOK
    /\ Accounts
    /\ Writing
    /\ Whose
    /\ Walking
    /\ Creds

LEMMA InitIInv == Init => IInv
<1> SUFFICES ASSUME Init
             PROVE  IInv
  OBVIOUS
<1>1. TypeOK
  <2>1. {ran, setuid, command, moveUser, moveGroup, dropGid, home} \subseteq BOOLEAN
    BY DEF Init
  <2>2. QED
    BY <2>1 DEF Init, TypeOK, Labels
<1>2. Accounts /\ Writing /\ Whose
  BY DEF Init, Accounts, Writing, Whose, Underway, InWrites, AfterMark
<1>3. Walking
  BY DEF Init, Walking, FilesFollow, OthersFilesKept
<1>4. Creds
  BY DEF Init, Creds, FatalIsEarned
<1>5. QED
  BY <1>1, <1>2, <1>3, <1>4 DEF IInv

LEMMA StepTypeOK ==
    ASSUME IInv, Next
    PROVE  TypeOK'
<1> USE DEF IInv, TypeOK, Labels, Fatal, files, creds, plan, counters, AfterAccounts
<1>1. CASE Start
  <2>1. run' \in Account /\ given' \subseteq Ids /\ command' \in BOOLEAN
    BY <1>1 DEF Start
  <2>2. euid' \in Ids /\ egid' \in Ids /\ groups' \subseteq Ids
    BY <1>1, <2>1 DEF Start
  <2>3. {ran, setuid, command, moveUser, moveGroup, dropGid, home}' \subseteq BOOLEAN
    BY <1>1, <2>1 DEF Start
  <2>4. QED
    BY <1>1, <2>1, <2>2, <2>3 DEF Start
<1>2. CASE AlreadyRan
  BY <1>2 DEF AlreadyRan, Marked
<1>3. CASE Refuse
  BY <1>3 DEF Refuse
<1>4. CASE Decide
  BY <1>4 DEF Decide
<1>5. CASE TruncatePasswd
  BY <1>5 DEF TruncatePasswd
<1>6. CASE WritePasswd
  <2>1. \A u \in Users : NewUid(u) \in Ids /\ NewGid(u) \in Ids
    BY DEF NewUid, NewGid
  <2>2. passwd' \in [Users -> Account]
    BY <1>6, <2>1 DEF WritePasswd
  <2>3. QED
    BY <1>6, <2>2 DEF WritePasswd
<1>7. CASE TruncateGroup
  BY <1>7 DEF TruncateGroup
<1>8. CASE WriteGroup
  <2>1. DEFINE gid == IF group[Group].gid = from.gid THEN run.gid ELSE group[Group].gid
  <2>2. group' = [group EXCEPT ![Group].gid = gid]
    BY <1>8 DEF WriteGroup
  <2>3. gid \in Ids \/ Group \notin Groups
    BY DEF Account
  <2> HIDE DEF gid
  <2>4. group' \in [Groups -> [gid : Ids, members : SUBSET Users]]
    BY ONLY group \in [Groups -> [gid : Ids, members : SUBSET Users]], <2>2, <2>3
  <2>5. QED
    BY <1>8, <2>4 DEF WriteGroup
<1>9. CASE FileFault
  BY <1>9 DEF FileFault
<1>10. CASE Visit
  <2>1. PICK f \in pending :
           /\ pending' = pending \ {f}
           /\ \/ /\ owner' = IF owner[f] = from THEN [owner EXCEPT ![f] = run] ELSE owner
                 /\ UNCHANGED faults
              \/ /\ owner[f] = from
                 /\ faults < MaxFaults
                 /\ faults' = faults + 1
                 /\ UNCHANGED owner
    BY <1>10, Zenon DEF Visit
  <2>2. owner' \in [Files -> Account]
    BY <2>1
  <2>3. pending' \subseteq Walked /\ faults' \in 0..MaxFaults
    BY <2>1
  <2>4. QED
    BY <1>10, <2>1, <2>2, <2>3 DEF Visit
<1>11. CASE Walk
  BY <1>11 DEF Walk
<1>12. CASE MarkRan
  BY <1>12 DEF MarkRan
<1>13. CASE SetHome
  BY <1>13 DEF SetHome
<1>14. CASE SetGroups
  <2>1. \A u \in Users : Gids(u) \subseteq Ids
    BY DEF Gids
  <2>2. groups' \subseteq Ids
    BY <1>14, <2>1 DEF SetGroups, UserOf
  <2>3. QED
    BY <1>14, <2>2 DEF SetGroups
<1>15. CASE SetEgid
  BY <1>15 DEF SetEgid
<1>16. CASE SetEuid
  BY <1>16 DEF SetEuid
<1>17. CASE Crash
  BY <1>17 DEF Crash
<1>18. QED
  BY <1>1, <1>2, <1>3, <1>4, <1>5, <1>6, <1>7, <1>8, <1>9,
     <1>10, <1>11, <1>12, <1>13, <1>14, <1>15, <1>16, <1>17 DEF Next

LEMMA DecideFinds ==
    ASSUME IInv, Decide
    PROVE  /\ moveUser' <=> NoUser(passwd, run)
           /\ moveGroup' <=> NoGroup(group, run)
           /\ from' = [uid |-> passwd[User].uid, gid |-> group[Group].gid]
           /\ Underway(passwd, group, run)
           /\ pc' \in {"chown", "mark"} =>
                passwd = MovedPasswd(run) /\ group = MovedGroup(run)
<1>1. /\ moveUser' <=> NoUser(passwd, run)
      /\ moveGroup' <=> NoGroup(group, run)
  BY DEF IInv, TypeOK, Decide, UserOf, GroupOf, NoUser, NoGroup
<1>2. from' = [uid |-> passwd[User].uid, gid |-> group[Group].gid]
  BY DEF Decide
<1>3. Underway(passwd, group, run) /\ run \in Account
  BY DEF IInv, TypeOK, Accounts, Decide
<1>4. moveUser' \/ moveGroup' \/ (passwd = MovedPasswd(run) /\ group = MovedGroup(run))
  BY <1>1, <1>3, NextMove
<1>5. moveUser' \/ moveGroup' => pc' = "passwd"
  BY DEF Decide
<1>6. QED
  BY <1>1, <1>2, <1>3, <1>4, <1>5

LEMMA WritePasswdMoves ==
    ASSUME IInv, WritePasswd
    PROVE  /\ passwd' = MovedPasswd(run)
           /\ IF moveGroup THEN group = Etc /\ FreeGid(run) ELSE group = MovedGroup(run)
<1>1. /\ moveUser <=> NoUser(passwd, run)
      /\ moveGroup <=> NoGroup(group, run)
      /\ from = [uid |-> passwd[User].uid, gid |-> group[Group].gid]
  BY DEF IInv, Writing, WritePasswd
<1>2. Underway(passwd, group, run) /\ run \in Account
  BY DEF IInv, TypeOK, Accounts, InWrites, WritePasswd
<1>3. passwd' = NextPasswd(passwd, group, run)
  BY <1>1 DEF WritePasswd, NewUid, NewGid, NextPasswd
<1>4. QED
  BY <1>1, <1>2, <1>3, NextMove

LEMMA WriteGroupMoves ==
    ASSUME IInv, WriteGroup
    PROVE  group' = MovedGroup(run)
<1>1. group = Etc /\ FreeGid(run) /\ from.gid = Etc[Group].gid
  BY DEF IInv, Writing, WriteGroup
<1>2. group' = [Etc EXCEPT ![Group].gid = run.gid]
  BY <1>1 DEF WriteGroup
<1>3. \A g \in Groups : group'[g] = MovedGroup(run)[g]
  <2>1. SUFFICES ASSUME NEW g \in Groups
                 PROVE  group'[g] = MovedGroup(run)[g]
    OBVIOUS
  <2>2. Etc[g] = [gid |-> Etc[g].gid, members |-> Etc[g].members]
    OBVIOUS
  <2>3. CASE g = Group
    BY <1>1, <1>2, <2>2, <2>3 DEF MovedGroup
  <2>4. CASE g # Group
    BY <1>2, <2>2, <2>4 DEF MovedGroup
  <2>5. QED
    BY <2>3, <2>4
<1>4. QED
  BY <1>2, <1>3 DEF MovedGroup

LEMMA StepAccounts ==
    ASSUME IInv, Next
    PROVE  Accounts'
<1> USE DEF IInv, TypeOK, Fatal, files, creds, plan, counters, Accounts, Writing, InWrites, AfterMark, AfterAccounts, Underway
<1>1. CASE Start
  BY <1>1 DEF Start
<1>2. CASE AlreadyRan
  BY <1>2 DEF AlreadyRan, Marked
<1>3. CASE Refuse
  BY <1>3 DEF Refuse
<1>4. CASE Decide
  BY <1>4 DEF Decide
<1>5. CASE TruncatePasswd
  BY <1>5 DEF TruncatePasswd
<1>6. CASE WritePasswd
  BY <1>6, WritePasswdMoves DEF WritePasswd
<1>7. CASE TruncateGroup
  BY <1>7 DEF TruncateGroup
<1>8. CASE WriteGroup
  BY <1>8, WriteGroupMoves DEF WriteGroup
<1>9. CASE FileFault
  BY <1>9 DEF FileFault
<1>10. CASE Visit
  BY <1>10 DEF Visit
<1>11. CASE Walk
  BY <1>11 DEF Walk
<1>12. CASE MarkRan
  BY <1>12 DEF MarkRan
<1>13. CASE SetHome
  BY <1>13 DEF SetHome
<1>14. CASE SetGroups
  BY <1>14 DEF SetGroups
<1>15. CASE SetEgid
  BY <1>15 DEF SetEgid
<1>16. CASE SetEuid
  BY <1>16 DEF SetEuid
<1>17. CASE Crash
  BY <1>17 DEF Crash
<1>18. QED
  BY <1>1, <1>2, <1>3, <1>4, <1>5, <1>6, <1>7, <1>8, <1>9,
     <1>10, <1>11, <1>12, <1>13, <1>14, <1>15, <1>16, <1>17 DEF Next

LEMMA StepWriting ==
    ASSUME IInv, Next
    PROVE  Writing'
<1> USE DEF IInv, TypeOK, Fatal, files, creds, plan, counters, Accounts, Writing, InWrites, AfterMark, AfterAccounts
<1>1. CASE Start
  BY <1>1 DEF Start
<1>2. CASE AlreadyRan
  BY <1>2 DEF AlreadyRan, Marked
<1>3. CASE Refuse
  BY <1>3 DEF Refuse
<1>4. CASE Decide
  BY <1>4, DecideFinds DEF Decide
<1>5. CASE TruncatePasswd
  BY <1>5 DEF TruncatePasswd
<1>6. CASE WritePasswd
  BY <1>6, WritePasswdMoves DEF WritePasswd
<1>7. CASE TruncateGroup
  BY <1>7 DEF TruncateGroup
<1>8. CASE WriteGroup
  BY <1>8, WriteGroupMoves DEF WriteGroup
<1>9. CASE FileFault
  BY <1>9 DEF FileFault
<1>10. CASE Visit
  BY <1>10 DEF Visit
<1>11. CASE Walk
  BY <1>11 DEF Walk
<1>12. CASE MarkRan
  BY <1>12 DEF MarkRan
<1>13. CASE SetHome
  BY <1>13 DEF SetHome
<1>14. CASE SetGroups
  BY <1>14 DEF SetGroups
<1>15. CASE SetEgid
  BY <1>15 DEF SetEgid
<1>16. CASE SetEuid
  BY <1>16 DEF SetEuid
<1>17. CASE Crash
  BY <1>17 DEF Crash
<1>18. QED
  BY <1>1, <1>2, <1>3, <1>4, <1>5, <1>6, <1>7, <1>8, <1>9,
     <1>10, <1>11, <1>12, <1>13, <1>14, <1>15, <1>16, <1>17 DEF Next

LEMMA StepWhose ==
    ASSUME IInv, Next
    PROVE  Whose'
<1> USE DEF IInv, TypeOK, Fatal, files, creds, plan, counters, Accounts, Writing, Whose, InWrites, AfterMark, AfterAccounts, Image
<1>1. CASE Start
  BY <1>1 DEF Start
<1>2. CASE AlreadyRan
  BY <1>2 DEF AlreadyRan, Marked
<1>3. CASE Refuse
  BY <1>3 DEF Refuse
<1>4. CASE Decide
  <2>1. from' = [uid |-> passwd[User].uid, gid |-> group[Group].gid] /\ ~ran /\ pc = "begin"
    BY <1>4 DEF Decide
  <2>2. Underway(passwd, group, run)
    BY <1>4, DecideFinds
  <2>3. /\ from'.uid \in {Passwd[User].uid, MovedPasswd(run)[User].uid}
        /\ from'.gid \in {Etc[Group].gid, MovedGroup(run)[Group].gid}
    BY <2>1, <2>2 DEF Underway
  <2>4. crashes = 0 /\ faults = 0 => from' = Image
    BY <2>1
  <2>5. QED
    BY <1>4, <2>3, <2>4 DEF Decide
<1>5. CASE TruncatePasswd
  BY <1>5 DEF TruncatePasswd
<1>6. CASE WritePasswd
  BY <1>6 DEF WritePasswd
<1>7. CASE TruncateGroup
  BY <1>7 DEF TruncateGroup
<1>8. CASE WriteGroup
  BY <1>8 DEF WriteGroup
<1>9. CASE FileFault
  BY <1>9 DEF FileFault
<1>10. CASE Visit
  BY <1>10 DEF Visit
<1>11. CASE Walk
  BY <1>11 DEF Walk
<1>12. CASE MarkRan
  BY <1>12 DEF MarkRan
<1>13. CASE SetHome
  BY <1>13 DEF SetHome
<1>14. CASE SetGroups
  BY <1>14 DEF SetGroups
<1>15. CASE SetEgid
  BY <1>15 DEF SetEgid
<1>16. CASE SetEuid
  BY <1>16 DEF SetEuid
<1>17. CASE Crash
  BY <1>17 DEF Crash
<1>18. QED
  BY <1>1, <1>2, <1>3, <1>4, <1>5, <1>6, <1>7, <1>8, <1>9,
     <1>10, <1>11, <1>12, <1>13, <1>14, <1>15, <1>16, <1>17 DEF Next

LEMMA StepWalking ==
    ASSUME IInv, Next
    PROVE  Walking'
<1> USE DEF IInv, TypeOK, Fatal, files, creds, plan, counters, Accounts, Walking, FilesFollow, OthersFilesKept, HandedOver, Clean, InWrites,
            AfterMark, AfterAccounts
<1>1. CASE Start
  BY <1>1 DEF Start
<1>2. CASE AlreadyRan
  BY <1>2 DEF AlreadyRan, Marked
<1>3. CASE Refuse
  BY <1>3 DEF Refuse
<1>4. CASE Decide
  <2>1. /\ pc = "begin" /\ ~ran /\ torn = {} /\ ~ran'
        /\ UNCHANGED <<owner, run, faults, crashes, passwd, group, fixed>>
    BY <1>4 DEF Decide
  <2>2. pc' \in {"passwd", "chown"} => pending' = Walked
    BY <1>4, <2>1 DEF Decide, Misnamed
  <2>3. CASE pc' = "mark" /\ Clean
    <3>1. UserOf(run.uid) = {User} /\ GroupOf(run.gid) = {Group}
      BY <1>4, <2>3 DEF Decide, Misnamed
    <3>2. run.uid = passwd[User].uid /\ run.gid = group[Group].gid
      BY <3>1 DEF UserOf, GroupOf
    <3>3. passwd = Passwd /\ group = Etc
      BY <2>1, <2>3 DEF Whose
    <3>4. \A f \in Walked : Mine(f) => owner[f] = run
      BY <2>1, <3>2, <3>3 DEF Mine
    <3>5. QED
      BY <2>1, <2>3, <3>4
  <2>4. pc' \in {"passwd", "chown", "mark"}
    BY <1>4 DEF Decide
  <2>5. QED
    BY <2>1, <2>2, <2>3, <2>4
<1>5. CASE TruncatePasswd
  BY <1>5 DEF TruncatePasswd
<1>6. CASE WritePasswd
  BY <1>6 DEF WritePasswd
<1>7. CASE TruncateGroup
  BY <1>7 DEF TruncateGroup
<1>8. CASE WriteGroup
  BY <1>8 DEF WriteGroup
<1>9. CASE FileFault
  BY <1>9 DEF FileFault
<1>10. CASE Visit
  <2>1. PICK f \in pending :
           /\ pending' = pending \ {f}
           /\ \/ /\ owner' = IF owner[f] = from THEN [owner EXCEPT ![f] = run] ELSE owner
                 /\ UNCHANGED faults
              \/ /\ owner[f] = from
                 /\ faults < MaxFaults
                 /\ faults' = faults + 1
                 /\ UNCHANGED owner
    BY <1>10, Zenon DEF Visit
  <2>2. /\ pc = "chown" /\ pc' = "chown" /\ ~ran /\ ~ran'
        /\ UNCHANGED <<passwd, group, run, from, crashes, fixed>>
    BY <1>10 DEF Visit
  <2>3. \A h \in Files : owner'[h] = IF h = f /\ owner[f] = from /\ faults' = faults
                                    THEN run ELSE owner[h]
    BY <2>1
  <2>4. OthersFilesKept'
    <3>1. from.uid \in {Passwd[User].uid, run.uid}
      BY <2>2 DEF Whose, MovedPasswd
    <3>2. QED
      BY <2>3, <3>1
  <2>5. \A h \in Walked : Mine(h) => owner'[h] \in {Owner[h], run}
    BY <2>2, <2>3
  <2>6. ASSUME Clean'
        PROVE  \A h \in Walked \ pending' : Mine(h) => owner'[h] = run
    <3>1. Clean /\ faults' = faults
      BY <2>1, <2>2, <2>6
    <3>2. from = Image
      BY <2>2, <3>1 DEF Whose, Writing, Image
    <3>3. QED
      BY <2>1, <2>2, <2>3, <3>1, <3>2 DEF Mine, Image
  <2>7. QED
    BY <2>2, <2>4, <2>5, <2>6
<1>11. CASE Walk
  BY <1>11 DEF Walk
<1>12. CASE MarkRan
  BY <1>12 DEF MarkRan
<1>13. CASE SetHome
  BY <1>13 DEF SetHome
<1>14. CASE SetGroups
  BY <1>14 DEF SetGroups
<1>15. CASE SetEgid
  BY <1>15 DEF SetEgid
<1>16. CASE SetEuid
  BY <1>16 DEF SetEuid
<1>17. CASE Crash
  BY <1>17 DEF Crash
<1>18. QED
  BY <1>1, <1>2, <1>3, <1>4, <1>5, <1>6, <1>7, <1>8, <1>9,
     <1>10, <1>11, <1>12, <1>13, <1>14, <1>15, <1>16, <1>17 DEF Next

LEMMA SameGids ==
    ASSUME UNCHANGED <<passwd, group, torn, run>>
    PROVE  (UNION {Gids(u) : u \in UserOf(run.uid)})' = UNION {Gids(u) : u \in UserOf(run.uid)}
<1>1. UserOf(run.uid)' = UserOf(run.uid)
  BY ONLY UNCHANGED <<passwd, group, torn, run>> DEF UserOf
<1>2. \A u : Gids(u)' = Gids(u)
  BY ONLY UNCHANGED <<passwd, group, torn, run>> DEF Gids
<1>3. QED
  BY ONLY <1>1, <1>2

LEMMA StepCreds ==
    ASSUME IInv, Next
    PROVE  Creds'
<1> USE DEF IInv, TypeOK, Fatal, files, creds, plan, counters, Accounts, Creds, FatalIsEarned, InWrites, AfterMark, AfterAccounts, UserOf, Gids
<1>1. CASE Start
  BY <1>1 DEF Start
<1>2. CASE AlreadyRan
  BY <1>2 DEF AlreadyRan, Marked
<1>3. CASE Refuse
  BY <1>3 DEF Refuse
<1>4. CASE Decide
  BY <1>4 DEF Decide
<1>5. CASE TruncatePasswd
  BY <1>5 DEF TruncatePasswd
<1>6. CASE WritePasswd
  BY <1>6 DEF WritePasswd
<1>7. CASE TruncateGroup
  BY <1>7 DEF TruncateGroup
<1>8. CASE WriteGroup
  BY <1>8 DEF WriteGroup
<1>9. CASE FileFault
  BY <1>9 DEF FileFault
<1>10. CASE Visit
  BY <1>10 DEF Visit
<1>11. CASE Walk
  BY <1>11 DEF Walk
<1>12. CASE MarkRan
  BY <1>12 DEF MarkRan
<1>13. CASE SetHome
  BY <1>13 DEF SetHome
<1>14. CASE SetGroups
  <2>1. CASE pc' = "fatal"
    BY <1>14, <2>1 DEF SetGroups
  <2>2. CASE pc' = "setegid"
    <3>1. \/ groups' = groups
          \/ groups' = (groups \cup UNION {Gids(u) : u \in UserOf(run.uid)})
                       \ (IF dropGid THEN {from.gid} ELSE {})
      BY ONLY <1>14, <2>2, Zenon DEF SetGroups, Fatal
    <3>2. groups = given
      BY <1>14 DEF SetGroups
    <3>3. groups' \subseteq given \cup UNION {Gids(u) : u \in UserOf(run.uid)}
      BY ONLY <3>1, <3>2
    <3>4. (UNION {Gids(u) : u \in UserOf(run.uid)})'
            = UNION {Gids(u) : u \in UserOf(run.uid)}
      <4>1. UNCHANGED <<passwd, group, torn, run>>
        BY <1>14, <2>2 DEF SetGroups
      <4>2. QED
        BY ONLY <4>1, SameGids
    <3>5. QED
      BY <1>14, <2>2, <3>3, <3>4 DEF SetGroups
  <2>3. QED
    BY <1>14, <2>1, <2>2 DEF SetGroups
<1>15. CASE SetEgid
  BY <1>15 DEF SetEgid
<1>16. CASE SetEuid
  BY <1>16 DEF SetEuid
<1>17. CASE Crash
  BY <1>17 DEF Crash
<1>18. QED
  BY <1>1, <1>2, <1>3, <1>4, <1>5, <1>6, <1>7, <1>8, <1>9,
     <1>10, <1>11, <1>12, <1>13, <1>14, <1>15, <1>16, <1>17 DEF Next

LEMMA StepIInv == IInv /\ [Next]_vars => IInv'
<1>1. IInv /\ Next => IInv'
  BY StepTypeOK, StepAccounts, StepWriting, StepWhose, StepWalking, StepCreds DEF IInv
<1>2. IInv /\ UNCHANGED vars => IInv'
  <2> SUFFICES ASSUME IInv, UNCHANGED vars
               PROVE  IInv'
    OBVIOUS
  <2> USE DEF vars, files, creds, plan, counters, IInv
  <2>1. TypeOK' /\ Accounts' /\ Writing' /\ Whose'
    BY DEF TypeOK, Accounts, Underway, Writing, Whose
  <2>2. Walking'
    BY DEF Walking, Clean, FilesFollow, HandedOver, OthersFilesKept
  <2>3. Creds'
    BY DEF Creds, FatalIsEarned, UserOf, Gids
  <2>4. QED
    BY <2>1, <2>2, <2>3
<1>3. QED
  BY <1>1, <1>2

LEMMA Invariance == Spec => []IInv
<1>1. QED
  BY InitIInv, StepIInv, PTL DEF Spec

------------------------------------------------------------------------------
\* Type correctness of fixids and of the files it writes.
THEOREM TypeCorrect == Spec => []TypeOK
<1>1. IInv => TypeOK
  BY DEF IInv
<1>2. QED
  BY <1>1, Invariance, PTL

\* Ids stay unique, primary groups stay what they are, and the ids a system was
\* marked with have names, after any number of crashes and starts.
THEOREM SoundAccounts == Spec => []AccountsAreSound
<1>1. IInv => AccountsAreSound
  <2> SUFFICES ASSUME IInv
               PROVE  AccountsAreSound
    OBVIOUS
  <2>1. run \in Account /\ fixed \in Account
    BY DEF IInv, TypeOK
  <2>2. UniqueIds
    BY <2>1, MovedUnique DEF IInv, Accounts, Underway, UniqueIds
  <2>3. PrimaryGroupsKept
    BY <2>1, MovedPrimaryGroups DEF IInv, Accounts, PrimaryGroupsKept
  <2>4. IdsHaveNames
    <3> SUFFICES ASSUME ran
                 PROVE  /\ UserOf(fixed.uid) = {u \in Users : IF \E v \in Users : Passwd[v].uid = fixed.uid
                                                              THEN Passwd[u].uid = fixed.uid
                                                              ELSE u = User}
                        /\ GroupOf(fixed.gid) # {}
      BY DEF IdsHaveNames
    <3>1. /\ \A u \in Users : passwd[u].uid = fixed.uid <=>
                IF FreeUid(fixed) THEN u = User ELSE Passwd[u].uid = fixed.uid
          /\ \E g \in Groups : group[g].gid = fixed.gid
          /\ torn = {}
      <4>1. passwd = MovedPasswd(fixed) /\ group = MovedGroup(fixed) /\ torn = {}
        BY DEF IInv, Accounts
      <4>2. QED
        BY ONLY <2>1, <4>1, MovedNames
    <3>2. FreeUid(fixed) <=> ~\E v \in Users : Passwd[v].uid = fixed.uid
      BY DEF FreeUid
    <3>3. QED
      BY <3>1, <3>2 DEF UserOf, GroupOf
  <2>5. QED
    BY <2>2, <2>3, <2>4 DEF AccountsAreSound
<1>2. QED
  BY <1>1, Invariance, PTL

\* The files of the container's user follow it, and nobody else's do.
THEOREM RightOwners == Spec => []OwnersAreRight
<1>1. IInv => OwnersAreRight
  BY DEF IInv, Walking, OwnersAreRight
<1>2. QED
  BY <1>1, Invariance, PTL

\* What is executed has no privilege its caller has not, and its caller's home.
THEOREM CallersPrivileges == Spec => []RunsAsCaller
<1>1. IInv => RunsAsCaller
  BY DEF IInv, Creds, RunsAsCaller, PrivilegesDropped, HomeKnown
<1>2. QED
  BY <1>1, Invariance, PTL

\* No start ends fatally without a reason.
THEOREM EarnedFatal == Spec => []FatalIsEarned
<1>1. IInv => FatalIsEarned
  BY DEF IInv, Creds
<1>2. QED
  BY <1>1, Invariance, PTL

------------------------------------------------------------------------------
(* The marker.                                                               *)

\* The accounts of a marked system are those that one start without a crash
\* would have made of the image's, for the ids it was marked with: however often
\* the container died between two writes, no start has moved anything twice.
THEOREM CrashesLeaveNoTrace ==
    Spec => [](ran => passwd = MovedPasswd(fixed) /\ group = MovedGroup(fixed) /\ torn = {})
<1>1. IInv => (ran => passwd = MovedPasswd(fixed) /\ group = MovedGroup(fixed) /\ torn = {})
  BY DEF IInv, Accounts
<1>2. QED
  BY <1>1, Invariance, PTL

MarkIsKept == ran => UNCHANGED <<ran, fixed, passwd, group, torn, owner>>

\* Once the system is marked nobody who runs this setuid-root program can make
\* it write again: neither the accounts nor any file's owner change any more,
\* whatever ids it is run with, and the mark stays.
THEOREM MarkIsFinal == Spec => [][MarkIsKept]_vars
<1>1. ASSUME IInv, Next, ran
      PROVE  UNCHANGED <<ran, fixed, passwd, group, torn, owner>>
  <2>1. pc \notin {"passwd", "passwd2", "group", "group2", "chown", "mark"}
    BY <1>1 DEF IInv, Accounts, InWrites
  <2>2. QED
    BY <1>1, <2>1 DEF Next, Start, AlreadyRan, Marked, Refuse, Decide, TruncatePasswd, WritePasswd, TruncateGroup,
                     WriteGroup, FileFault, Visit, Walk, MarkRan, SetHome, SetGroups, SetEgid,
                     SetEuid, Crash, Fatal, files
<1>2. IInv /\ [Next]_vars => [MarkIsKept]_vars
  BY <1>1 DEF MarkIsKept
<1>3. QED
  BY <1>2, Invariance, PTL DEF Spec

===============================================================================
