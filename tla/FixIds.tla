-------------------------------- MODULE FixIds --------------------------------
(***************************************************************************)
(* fixids, the setuid-root helper of the container's entry point: it gives *)
(* the container's user and group the ids the container was started with   *)
(* (docker run -u), hands their files over, marks the system as done and   *)
(* drops its privileges.  A container that dies meanwhile is started       *)
(* again with the same ids; once the marker is there anybody in the        *)
(* container may run fixids.                                               *)
(*                                                                         *)
(* /etc/passwd and /etc/group have one line per name and per id, as        *)
(* adduser and addgroup write them, so "the first line that matches" is    *)
(* the only one.  os.WriteFile empties a file before it writes it.         *)
(***************************************************************************)
EXTENDS Integers

CONSTANTS
    Ids,            \* uids and gids
    Users, Groups,  \* names in /etc/passwd and /etc/group
    User, Group,    \* the first two arguments of fixids
    Passwd, Etc,    \* /etc/passwd and /etc/group of the image
    Files,          \* files in the container
    Walked,         \* those under $HOME or the cwd, on the same mount
    Owner,          \* who owns them in the image
    MaxCrashes, MaxFaults, MaxStarts

Account == [uid : Ids, gid : Ids]

ASSUME NamesAssumption == User \in Users /\ Group \in Groups /\ 0 \in Ids
ASSUME ImageAssumption ==
    /\ Passwd \in [Users -> Account]
    /\ \A u, v \in Users : Passwd[u].uid = Passwd[v].uid => u = v
    /\ Etc \in [Groups -> [gid : Ids, members : SUBSET Users]]
    /\ \A g, h \in Groups : Etc[g].gid = Etc[h].gid => g = h
    /\ Walked \subseteq Files
    /\ Owner \in [Files -> Account]
ASSUME BoundsAssumption == MaxCrashes \in Nat /\ MaxFaults \in Nat /\ MaxStarts \in Nat

VARIABLES
    passwd, group,        \* the two files
    torn,                 \* which of them are empty
    owner,                \* owners of the files
    ran,                  \* /var/run/fixids.ran exists
    pc,
    setuid,               \* fixids is installed setuid root
    run,                  \* runtimeUID and runtimeGID
    euid, egid, groups,   \* credentials of the process
    given,                \* supplementary groups it was started with
    command,              \* a command follows the user and the group
    from,                 \* containerUID and containerGID
    moveUser, moveGroup,  \* newUID and newGID are the runtime ids, not ""
    pending,              \* files the walk has still to visit
    dropGid,              \* oldGIDInt >= 0
    home,                 \* $HOME is not "/"
    prog,                 \* what is executed
    crashes, faults, starts,
    fixed                 \* history: the runtime ids when the system was marked

files == <<passwd, group, torn, owner, ran>>
creds == <<run, euid, egid, groups, given, command, setuid>>
plan == <<from, moveUser, moveGroup, pending, dropGid, prog>>
counters == <<crashes, faults, starts>>
vars == <<files, pc, creds, plan, home, counters, fixed>>

Labels == {"down", "begin", "passwd", "passwd2", "group", "group2", "chown", "mark",
           "home", "setgroups", "setegid", "seteuid", "exec", "exit", "fatal"}

TypeOK ==
    /\ passwd \in [Users -> Account]
    /\ group \in [Groups -> [gid : Ids, members : SUBSET Users]]
    /\ torn \subseteq {"passwd", "group"}
    /\ owner \in [Files -> Account]
    /\ pc \in Labels
    /\ {ran, setuid, command, moveUser, moveGroup, dropGid, home} \subseteq BOOLEAN
    /\ run \in Account
    /\ euid \in Ids
    /\ egid \in Ids
    /\ groups \subseteq Ids
    /\ given \subseteq Ids
    /\ from \in Account
    /\ pending \subseteq Walked
    /\ prog \in {"none", "command", "user"}
    /\ crashes \in 0..MaxCrashes
    /\ faults \in 0..MaxFaults
    /\ starts \in 0..MaxStarts
    /\ fixed \in Account

Init ==
    /\ passwd = Passwd
    /\ group = Etc
    /\ torn = {}
    /\ owner = Owner
    /\ ran = FALSE
    /\ pc = "down"
    /\ setuid \in BOOLEAN
    /\ run \in Account
    /\ euid = 0
    /\ egid = 0
    /\ given \in {{}, {Etc[Group].gid}}
    /\ groups = {}
    /\ command \in BOOLEAN
    /\ from = [uid |-> 0, gid |-> 0]
    /\ moveUser = FALSE
    /\ moveGroup = FALSE
    /\ pending = {}
    /\ dropGid = FALSE
    /\ home = FALSE
    /\ prog = "none"
    /\ crashes = 0
    /\ faults = 0
    /\ starts = 0
    /\ fixed = [uid |-> 0, gid |-> 0]

------------------------------------------------------------------------------
(* findUser and findGroup: the name that has an id, if any.                  *)

UserOf(id) == {u \in Users : "passwd" \notin torn /\ passwd[u].uid = id}
GroupOf(id) == {g \in Groups : "group" \notin torn /\ group[g].gid = id}

\* The gids user u has by /etc/passwd and /etc/group.
Gids(u) == {passwd[u].gid} \cup
           {group[g].gid : g \in {g \in Groups : "group" \notin torn /\ u \in group[g].members}}

Fatal == pc' = "fatal" /\ UNCHANGED <<files, creds, plan, home, fixed>>

\* The container is started, or fixids is run in it once it is marked; $HOME
\* is "/" when the runtime uid has no name (external).
Start ==
    /\ pc \in {"down", "exec", "exit", "fatal"}
    /\ starts < MaxStarts
    /\ starts' = starts + 1
    /\ IF ran THEN run' \in Account /\ given' = {} /\ command' \in BOOLEAN
              ELSE UNCHANGED <<run, given, command>>
    /\ euid' = IF setuid THEN 0 ELSE run'.uid
    /\ egid' = run'.gid
    /\ groups' = given'
    /\ home' = (UserOf(run'.uid) # {})
    /\ pc' = "begin"
    /\ pending' = {}
    /\ moveUser' = FALSE
    /\ moveGroup' = FALSE
    /\ dropGid' = FALSE
    /\ prog' = "none"
    /\ UNCHANGED <<files, setuid, from, crashes, faults, fixed>>

\* os.Stat finds the marker, or fails otherwise than with NotExist.
Marked == (ran /\ UNCHANGED faults) \/ (~ran /\ faults < MaxFaults /\ faults' = faults + 1)

\* Mutant of AlreadyRan: privileges are dropped by the other way out only.
AlreadyRanAsRoot ==
    /\ pc = "begin"
    /\ Marked
    /\ prog' = "user"
    /\ pc' = "exec"
    /\ UNCHANGED <<files, creds, from, moveUser, moveGroup, pending, dropGid, home, crashes, starts,
                   fixed>>

\* "already ran on this system": all arguments are passed on, the user and the
\* group included, so a program named like the user is executed.
AlreadyRan ==
    /\ pc = "begin"
    /\ Marked
    /\ prog' = "user"
    /\ pc' = "setgroups"
    /\ UNCHANGED <<files, creds, from, moveUser, moveGroup, pending, dropGid, home, crashes, starts,
                   fixed>>

\* Not root, or no line for the user or the group.
Refuse ==
    /\ pc = "begin"
    /\ ~ran
    /\ euid # 0 \/ torn # {}
    /\ Fatal
    /\ UNCHANGED counters

\* The next label after the files of accounts are up to date.
AfterAccounts(needChown) == IF needChown THEN "chown" ELSE "mark"

Misnamed == UserOf(run.uid) # {User} \/ GroupOf(run.gid) # {Group}

\* Everything main decides before its first write.
Decide ==
    /\ pc = "begin"
    /\ ~ran /\ euid = 0 /\ torn = {}
    /\ from' = [uid |-> passwd[User].uid, gid |-> group[Group].gid]
    /\ moveUser' = (UserOf(run.uid) = {})
    /\ moveGroup' = (GroupOf(run.gid) = {})
    /\ pending' = IF Misnamed THEN Walked ELSE {}
    /\ prog' = IF command THEN "command" ELSE "none"
    /\ pc' = IF moveUser' \/ moveGroup' THEN "passwd" ELSE AfterAccounts(Misnamed)
    /\ UNCHANGED <<files, creds, dropGid, home, counters, fixed>>

------------------------------------------------------------------------------
(* updateEtcPasswd and updateEtcGroup.                                       *)

TruncatePasswd ==
    /\ pc = "passwd"
    /\ torn' = torn \cup {"passwd"}
    /\ pc' = "passwd2"
    /\ UNCHANGED <<passwd, group, owner, ran, creds, plan, home, counters, fixed>>

NewUid(u) == IF moveUser /\ u = User /\ passwd[u].uid = from.uid THEN run.uid ELSE passwd[u].uid

\* Mutant of NewGid: only the container's user gets the new gid.
NewGidOfUser(u) == IF moveGroup /\ u = User THEN run.gid ELSE passwd[u].gid

\* Every user of the old gid gets the new one.
NewGid(u) == IF moveGroup /\ passwd[u].gid = from.gid THEN run.gid ELSE passwd[u].gid

WritePasswd ==
    /\ pc = "passwd2"
    /\ passwd' = [u \in Users |-> [uid |-> NewUid(u), gid |-> NewGid(u)]]
    /\ torn' = torn \ {"passwd"}
    /\ pc' = IF moveGroup THEN "group" ELSE "chown"
    /\ UNCHANGED <<group, owner, ran, creds, plan, home, counters, fixed>>

TruncateGroup ==
    /\ pc = "group"
    /\ torn' = torn \cup {"group"}
    /\ pc' = "group2"
    /\ UNCHANGED <<passwd, group, owner, ran, creds, plan, home, counters, fixed>>

WriteGroup ==
    /\ pc = "group2"
    /\ group' = [group EXCEPT ![Group].gid = IF @ = from.gid THEN run.gid ELSE @]
    /\ torn' = torn \ {"group"}
    /\ pc' = "chown"
    /\ UNCHANGED <<passwd, owner, ran, creds, plan, home, counters, fixed>>

\* A failed read or write of one of the files ends fixids.
FileFault ==
    /\ pc \in {"begin", "passwd", "passwd2", "group", "group2", "chown", "mark",
              "setgroups"}
    /\ pc = "begin" => ~ran
    /\ pc = "chown" => pending = Walked
    /\ faults < MaxFaults
    /\ faults' = faults + 1
    /\ Fatal
    /\ UNCHANGED <<crashes, starts>>

------------------------------------------------------------------------------
(* The walk over $HOME and the cwd.                                          *)

\* Mutant of Visit: the uid or the gid is enough.
VisitEither ==
    /\ pc = "chown"
    /\ \E f \in pending :
         /\ pending' = pending \ {f}
         /\ owner' = IF owner[f].uid = from.uid \/ owner[f].gid = from.gid
                     THEN [owner EXCEPT ![f] = run] ELSE owner
    /\ UNCHANGED <<passwd, group, torn, ran, pc, creds, from, moveUser, moveGroup, dropGid, prog,
                   home, counters, fixed>>

\* A failed lchown is logged only.
Visit ==
    /\ pc = "chown"
    /\ \E f \in pending :
         /\ pending' = pending \ {f}
         /\ \/ /\ owner' = IF owner[f] = from THEN [owner EXCEPT ![f] = run] ELSE owner
               /\ UNCHANGED faults
            \/ /\ owner[f] = from
               /\ faults < MaxFaults
               /\ faults' = faults + 1
               /\ UNCHANGED owner
    /\ UNCHANGED <<passwd, group, torn, ran, pc, creds, from, moveUser, moveGroup, dropGid, prog,
                   home, crashes, starts, fixed>>

Walk ==
    /\ pc = "chown"
    /\ pending = {}
    /\ pc' = "mark"
    /\ UNCHANGED <<files, creds, plan, home, counters, fixed>>

MarkRan ==
    /\ pc = "mark"
    /\ ran' = TRUE
    /\ fixed' = run
    /\ pc' = "home"
    /\ UNCHANGED <<passwd, group, torn, owner, creds, plan, home, counters>>

\* Mutant of SetHome: root is given up before the groups are set.
SetHomeAsUser ==
    /\ pc = "home"
    /\ home' = (home \/ UserOf(run.uid) # {})
    /\ dropGid' = FALSE
    /\ euid' = run.uid
    /\ pc' = IF prog = "none" THEN "exit" ELSE "setgroups"
    /\ UNCHANGED <<files, run, egid, groups, given, command, setuid, from, moveUser, moveGroup,
                   pending, prog, counters, fixed>>

\* $HOME is exported; oldGIDInt is set only when Atoi fails, that is never.
SetHome ==
    /\ pc = "home"
    /\ home' = (home \/ UserOf(run.uid) # {})
    /\ dropGid' = FALSE
    /\ pc' = IF prog = "none" THEN "exit" ELSE "setgroups"
    /\ UNCHANGED <<files, creds, from, moveUser, moveGroup, pending, prog, counters, fixed>>

------------------------------------------------------------------------------
(* exitOrExec with a command.                                                *)

\* Mutant of SetGroups: called for a uid without a name too, whose primary gid
\* is -1.
SetGroupsNameless ==
    /\ pc = "setgroups"
    /\ IF euid # 0
       THEN Fatal
       ELSE /\ groups' = groups \cup IF UserOf(run.uid) = {} THEN {-1}
                                    ELSE UNION {Gids(u) : u \in UserOf(run.uid)}
            /\ pc' = "setegid"
            /\ UNCHANGED <<files, run, euid, egid, given, command, setuid, plan, home, fixed>>
    /\ UNCHANGED counters

\* Setgroups is for root alone; without a name for the uid it is not called.
SetGroups ==
    /\ pc = "setgroups"
    /\ IF UserOf(run.uid) # {} /\ euid # 0
       THEN Fatal
       ELSE /\ groups' = IF UserOf(run.uid) = {} THEN groups
                         ELSE (groups \cup UNION {Gids(u) : u \in UserOf(run.uid)})
                              \ (IF dropGid THEN {from.gid} ELSE {})
            /\ pc' = "setegid"
            /\ UNCHANGED <<files, run, euid, egid, given, command, setuid, plan, home, fixed>>
    /\ UNCHANGED counters

SetEgid ==
    /\ pc = "setegid"
    /\ egid' = run.gid
    /\ pc' = "seteuid"
    /\ UNCHANGED <<files, run, euid, groups, given, command, setuid, plan, home, counters, fixed>>

SetEuid ==
    /\ pc = "seteuid"
    /\ euid' = run.uid
    /\ pc' = "exec"
    /\ UNCHANGED <<files, run, egid, groups, given, command, setuid, plan, home, counters, fixed>>

------------------------------------------------------------------------------
\* The container dies; what is on its disk stays.
Crash ==
    /\ pc \notin {"down", "exec", "exit", "fatal"}
    /\ crashes < MaxCrashes
    /\ crashes' = crashes + 1
    /\ pc' = "down"
    /\ UNCHANGED <<files, creds, plan, home, faults, starts, fixed>>

Next ==
    \/ Start \/ AlreadyRan \/ Refuse \/ Decide
    \/ TruncatePasswd \/ WritePasswd \/ TruncateGroup \/ WriteGroup \/ FileFault
    \/ Visit \/ Walk \/ MarkRan \/ SetHome
    \/ SetGroups \/ SetEgid \/ SetEuid
    \/ Crash

Spec == Init /\ [][Next]_vars

------------------------------------------------------------------------------
(* Properties.                                                               *)

\* Ids stay unique: the helper never gives one name the id of another, nor
\* does any sequence of crashes and starts.
UniqueIds ==
    /\ \A u, v \in Users : passwd[u].uid = passwd[v].uid => u = v
    /\ \A g, h \in Groups : group[g].gid = group[h].gid => g = h

\* Once the system is marked every user has the primary group it had in the
\* image, under its new gid if that has changed: the two files are written one
\* after the other, and a start after a crash between them mends the second.
PrimaryGroupsKept ==
    ran => \A u \in Users, g \in Groups :
              Passwd[u].gid = Etc[g].gid => passwd[u].gid = group[g].gid

\* Once it is marked the ids it was marked with have names, the container's own
\* unless the image gives them to somebody else, whatever died on the way.
IdsHaveNames ==
    ran => /\ UserOf(fixed.uid) = {u \in Users : IF \E v \in Users : Passwd[v].uid = fixed.uid
                                                 THEN Passwd[u].uid = fixed.uid ELSE u = User}
           /\ GroupOf(fixed.gid) # {}

\* The accounts as a whole.
AccountsAreSound == UniqueIds /\ PrimaryGroupsKept /\ IdsHaveNames

Mine(f) == Owner[f] = [uid |-> Passwd[User].uid, gid |-> Etc[Group].gid]

HandedOver == \A f \in Walked : Mine(f) => owner[f] = fixed

\* And the container user's files are the runtime user's, unless an lchown
\* failed or a crash came after the accounts were changed.
FilesFollow ==
    ran /\ faults = 0 /\ (crashes = 0 \/ (passwd = Passwd /\ group = Etc)) => HandedOver

\* This setuid-root program takes no file away from anybody but the container's
\* user, whatever ids it is run with and wherever it was interrupted.
OthersFilesKept ==
    \A f \in Files : Owner[f].uid # Passwd[User].uid => owner[f].uid = Owner[f].uid

\* The owners as a whole.
OwnersAreRight == FilesFollow /\ OthersFilesKept

\* What is executed has the ids of the one who runs fixids and no group but
\* those it was started with or that its user is in.
PrivilegesDropped ==
    pc = "exec" =>
        /\ euid = run.uid
        /\ egid = run.gid
        /\ groups \subseteq given \cup UNION {Gids(u) : u \in UserOf(run.uid)}

\* fixids gives up only when it is not root, a call has failed, or a crash has
\* left one of the two files empty.
FatalIsEarned ==
    pc = "fatal" => faults > 0 \/ torn # {} \/ (~setuid /\ run.uid # 0)

\* Where the uid has a name the command, or the script that evaluates the
\* output, has the home of that user, also after a crash before it was printed.
HomeKnown == pc \in {"exec", "exit"} /\ UserOf(run.uid) # {} => home

\* What is executed runs as the one who runs fixids, privileges and home.
RunsAsCaller == PrivilegesDropped /\ HomeKnown

------------------------------------------------------------------------------
(* What the comments and documents say and the code does not do.             *)

\* "remove the old GID if it was changed"
OldGidRemoved == pc = "exec" /\ moveGroup => from.gid \notin groups
==============================================================================
