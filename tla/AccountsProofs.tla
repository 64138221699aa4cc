--------------------------- MODULE AccountsProofs ----------------------------
(***************************************************************************)
(* Type correctness of the accounts, and their three safety properties,    *)
(* for any number of instances, names and rows of the log, and whatever a  *)
(* behaviour contains.                                                     *)
(*                                                                         *)
(* The row a session will close is its own: a row is given by an append,   *)
(* so that no other session can have it, and a logout only touches the row *)
(* of its session.  A session older than a restore may hold any number:    *)
(* its closing is what "strayed" remembers, and nothing is claimed of it.  *)
(*                                                                         *)
(* No sign-up makes an administrator because the seed is there before any  *)
(* login screen is, in the file and in every backup of it.                 *)
(***************************************************************************)
EXTENDS Accounts, SequenceTheorems, TLAPS

LogRow == [user : 1..MaxUsers, open : BOOLEAN]

(* An UPDATE of one row of the log.                                        *)
LEMMA RowClosedProps ==
  ASSUME NEW l \in Logs, NEW r
  PROVE  /\ RowClosed(l, r) \in Logs
         /\ Len(RowClosed(l, r)) = Len(l)
         /\ \A i \in 1..Len(l) :
              /\ RowClosed(l, r)[i].user = l[i].user
              /\ i # r => RowClosed(l, r)[i].open = l[i].open
<1>1. l \in Seq(LogRow) /\ Len(l) <= MaxLog
  BY DEF Logs, LogRow
<1>2. CASE r \in 1..Len(l)
  <2> DEFINE e == [l[r] EXCEPT !.open = FALSE]
  <2>1. RowClosed(l, r) = [l EXCEPT ![r] = e]
    BY <1>2 DEF RowClosed
  <2>2. l[r] \in LogRow
    BY <1>1, <1>2, ElementOfSeq
  <2>3. e \in LogRow /\ e.user = l[r].user
    BY <2>2 DEF LogRow
  <2> HIDE DEF e
  <2>4. /\ [l EXCEPT ![r] = e] \in Seq(LogRow)
        /\ Len([l EXCEPT ![r] = e]) = Len(l)
        /\ \A j \in 1..Len(l) : [l EXCEPT ![r] = e][j] = IF j = r THEN e ELSE l[j]
    BY <1>1, <1>2, <2>3, ExceptSeq
  <2>5. RowClosed(l, r) \in Logs /\ Len(RowClosed(l, r)) = Len(l)
    BY <1>1, <2>1, <2>4 DEF Logs, LogRow
  <2> QED
    BY <2>1, <2>3, <2>4, <2>5
<1>3. CASE r \notin 1..Len(l)
  BY <1>3 DEF RowClosed
<1> QED
  BY <1>2, <1>3

(* The INSERT of a row.                                                    *)
LEMMA NextRowProps ==
  ASSUME NEW l \in Logs, NEW u \in 1..MaxUsers, Len(l) < MaxLog
  PROVE  LET new == Append(l, [user |-> u, open |-> TRUE]) IN
         /\ new \in Logs
         /\ Len(new) = Len(l) + 1
         /\ \A i \in 1..Len(l) : new[i] = l[i]
         /\ new[Len(l) + 1] = [user |-> u, open |-> TRUE]
<1> DEFINE e == [user |-> u, open |-> TRUE]
<1>1. l \in Seq(LogRow) /\ Len(l) \in Nat /\ e \in LogRow
  BY LenProperties DEF Logs, LogRow
<1> HIDE DEF e
<1>2. /\ Append(l, e) \in Seq(LogRow)
      /\ Len(Append(l, e)) = Len(l) + 1
      /\ \A i \in 1..Len(l) : Append(l, e)[i] = l[i]
      /\ Append(l, e)[Len(l) + 1] = e
  BY <1>1, AppendProperties
<1>3. Append(l, e) \in Logs
  BY <1>1, <1>2, BoundsAssumption DEF Logs, LogRow
<1> QED
  BY <1>2, <1>3 DEF e

-----------------------------------------------------------------------------
(* Type correctness.                                                       *)

LEMMA NoneTyped == NoSession \in Sessions /\ NoEntry \in Entries /\ << >> \in Logs
<1>1. NoSession \in Sessions /\ NoEntry \in Entries
  BY NamesAssumption, BoundsAssumption DEF NoSession, NoEntry, Sessions, Entries, Roles
<1>2. << >> \in Seq(LogRow) /\ Len(<< >>) = 0
  BY EmptySeq
<1> QED
  BY <1>1, <1>2, BoundsAssumption DEF Logs, LogRow

LEMMA InitType == Init => TypeOK
<1> SUFFICES ASSUME Init PROVE TypeOK
  OBVIOUS
<1>1. account \in [Names -> Users]
  BY BoundsAssumption DEF Init, Users, Roles
<1>2. log \in Logs /\ backup.account \in [Names -> Users] /\ backup.log \in Logs
  BY <1>1, NoneTyped DEF Init
<1>3. backup.made \in BOOLEAN /\ misread \in BOOLEAN
  BY DEF Init
<1>4. session \in [Procs -> Sessions] /\ entry \in [Procs -> Entries]
  BY NoneTyped DEF Init
<1> QED
  BY <1>1, <1>2, <1>3, <1>4 DEF Init, TypeOK, Screens

(* An INSERT of a user.                                                    *)
LEMMA InsertProps ==
  ASSUME TypeOK, NEW n \in Names, NEW role \in Roles, Insert(n, role)
  PROVE  /\ account' \in [Names -> Users]
         /\ account'[n].id # 0 /\ account'[n].role = role
         /\ \A m \in Names : m # n => account'[m] = account[m]
BY BoundsAssumption DEF TypeOK, Insert, Users

(* What a start, a login or a sign-up changes keeps its type.              *)
LEMMA LoginType ==
  ASSUME TypeOK, UNCHANGED scenario, NEW p \in Procs,
         \/ Start(p) \/ \E n \in Names : Verify(p, n) \/ CountUsers(p, n)
         \/ CreateUser(p) \/ NotCreated(p) \/ VerifyNew(p) \/ EnterAnyway(p)
  PROVE TypeOK'
<1> USE DEF Goto, history, tables
<1>1. CASE Start(p)
  <2>1. account' \in [Names -> Users]
    BY <1>1, InsertProps, NamesAssumption DEF Start, TypeOK, Roles
  <2>2. misread' \in BOOLEAN
    BY <1>1 DEF Start, TypeOK
  <2> QED
    BY <1>1, <2>1, <2>2 DEF Start, TypeOK, Screens
<1>2. CASE \E n \in Names : Verify(p, n)
  <2>1. entry' \in [Procs -> Entries]
    BY <1>2 DEF Verify, TypeOK, Entries, Users, Exists
  <2> QED
    BY <1>2, <2>1 DEF Verify, TypeOK
<1>3. CASE \E n \in Names : CountUsers(p, n)
  <2>1. entry' \in [Procs -> Entries] /\ misread' \in BOOLEAN
    BY <1>3, BoundsAssumption DEF CountUsers, RoleOfNew, TypeOK, Entries, Roles
  <2> QED
    BY <1>3, <2>1 DEF CountUsers, TypeOK
<1>4. CASE CreateUser(p)
  <2> DEFINE e == entry[p]
  <2>1. e \in [next : {"create", "verify"}, name : Names, id : {0}, role : Roles]
    BY <1>4 DEF CreateUser, TypeOK, Entries, NoEntry
  <2>2. Insert(e.name, e.role) /\ e.name \in Names /\ e.role \in Roles
    BY <1>4, <2>1 DEF CreateUser
  <2>3. account' \in [Names -> Users]
    BY <2>2, InsertProps
  <2>4. [e EXCEPT !.next = "verify"] \in Entries
    BY <2>1 DEF Entries
  <2>5. entry' = [entry EXCEPT ![p] = [e EXCEPT !.next = "verify"]]
    BY <1>4 DEF CreateUser
  <2> HIDE DEF e
  <2>6. entry' \in [Procs -> Entries]
    BY <2>4, <2>5 DEF TypeOK
  <2> QED
    BY <1>4, <2>3, <2>6 DEF CreateUser, TypeOK
<1>5. CASE NotCreated(p)
  BY <1>5, NoneTyped DEF NotCreated, TypeOK
<1>6. CASE VerifyNew(p)
  <2>1. entry[p].name \in Names
    BY <1>6 DEF VerifyNew, TypeOK, Entries, NoEntry
  <2>2. entry' \in [Procs -> Entries]
    BY <1>6, <2>1 DEF VerifyNew, TypeOK, Entries, Users, Exists
  <2> QED
    BY <1>6, <2>2 DEF VerifyNew, TypeOK
<1>7. CASE EnterAnyway(p)
  BY <1>7, NoneTyped DEF EnterAnyway, TypeOK, Screens
<1> QED
  BY <1>1, <1>2, <1>3, <1>4, <1>5, <1>6, <1>7

LEMMA OpenSessionType ==
  ASSUME TypeOK, UNCHANGED scenario, NEW p \in Procs, OpenSession(p)
  PROVE TypeOK'
<1> DEFINE e == entry[p]
<1>1. e \in [next : {"open"}, name : Names, id : 1..MaxUsers, role : Roles]
  BY DEF OpenSession, TypeOK, Entries, NoEntry
<1>2. Len(log) \in Nat /\ Len(log) <= MaxLog /\ log \in Logs
  BY LenProperties DEF TypeOK, Logs
<1>3. log' \in Logs
  <2>1. CASE Len(log) < MaxLog /\ log' = Append(log, [user |-> e.id, open |-> TRUE])
    BY <1>1, <1>2, <2>1, NextRowProps
  <2>2. CASE log' = log
    BY <1>2, <2>2
  <2> QED
    BY <2>1, <2>2 DEF OpenSession
<1>4. PICK r \in 0..MaxLog :
        session' = [session EXCEPT ![p] =
          [name |-> e.name, id |-> e.id, role |-> e.role, row |-> r]]
  <2>1. 0 \in 0..MaxLog /\ (Len(log) < MaxLog => Len(log) + 1 \in 0..MaxLog)
    BY <1>2, BoundsAssumption
  <2> QED
    BY <2>1 DEF OpenSession
<1>5. [name |-> e.name, id |-> e.id, role |-> e.role, row |-> r] \in Sessions
  BY <1>1, <1>4 DEF Sessions
<1>6. session' \in [Procs -> Sessions]
  BY <1>4, <1>5 DEF TypeOK
<1>7. /\ account' \in [Names -> Users] /\ backup' = backup
      /\ entry' \in [Procs -> Entries] /\ at' \in [Procs -> Screens]
  BY NoneTyped DEF OpenSession, TypeOK, Goto, Screens
<1>8. /\ entered' \in [Procs -> Names \cup {NoOne}] /\ fresh' \in [Procs -> BOOLEAN]
      /\ bypassed' \in SUBSET Procs
  BY <1>1 DEF OpenSession, TypeOK
<1> QED
  BY <1>3, <1>6, <1>7, <1>8 DEF OpenSession, TypeOK

(* What is done inside, short of leaving, and a stop.                      *)
LEMMA InsideType ==
  ASSUME TypeOK, UNCHANGED scenario, NEW p \in Procs,
         \/ Stop(p) \/ Lock(p) \/ GoBack(p) \/ OpenBackups(p)
         \/ OpenUsersPanel(p) \/ CloseUsersPanel(p) \/ MakeBackup(p)
         \/ \E n \in Names, r \in Roles : UpdateRole(p, n, r)
         \/ RestoreNotLoaded(p)
  PROVE TypeOK'
<1> USE DEF Goto, history, tables
<1>1. CASE Stop(p)
  BY <1>1, NoneTyped DEF Stop, Forget, TypeOK, Screens
<1>2. CASE Lock(p) \/ GoBack(p) \/ OpenBackups(p)
  BY <1>2 DEF Lock, GoBack, OpenBackups, TypeOK, Screens
<1>3. CASE OpenUsersPanel(p) \/ CloseUsersPanel(p)
  BY <1>3 DEF OpenUsersPanel, CloseUsersPanel, TypeOK
<1>4. CASE MakeBackup(p)
  BY <1>4 DEF MakeBackup, TypeOK
<1>5. CASE \E n \in Names, r \in Roles : UpdateRole(p, n, r)
  <2>1. PICK n \in Names, r \in Roles : UpdateRole(p, n, r)
    BY <1>5
  <2>2. account' = [account EXCEPT ![n] = [account[n] EXCEPT !.role = r]]
    BY <2>1 DEF UpdateRole
  <2>3. [account[n] EXCEPT !.role = r] \in Users
    BY DEF TypeOK, Users
  <2>4. account' \in [Names -> Users]
    BY <2>2, <2>3 DEF TypeOK
  <2> QED
    BY <2>1, <2>4 DEF UpdateRole, TypeOK
<1>6. CASE RestoreNotLoaded(p)
  BY <1>6 DEF RestoreNotLoaded, Replaced, TypeOK
<1> QED
  BY <1>1, <1>2, <1>3, <1>4, <1>5, <1>6

(* The log, the session and the screen that a logout leaves.               *)
LEMMA LeaveSessionProps ==
  ASSUME TypeOK, NEW p \in Procs, NEW l \in Logs, NEW current \in BOOLEAN,
         NEW s \in Screens, LeaveSession(p, l, current, s)
  PROVE  /\ log' \in Logs /\ strayed' \in SUBSET (1..MaxLog)
         /\ session' \in [Procs -> Sessions]
         /\ entered' \in [Procs -> Names \cup {NoOne}]
         /\ bypassed' \in SUBSET Procs /\ at' \in [Procs -> Screens]
         /\ session' = [session EXCEPT ![p] = NoSession]
         /\ log' \in {l, RowClosed(l, session[p].row)}
<1>1. log' \in {l, RowClosed(l, session[p].row)}
  BY DEF LeaveSession
<1>2. log' \in Logs
  BY <1>1, RowClosedProps
<1>3. 1..Len(l) \subseteq 1..MaxLog
  BY LenProperties, BoundsAssumption DEF Logs
<1>4. strayed' \in SUBSET (1..MaxLog)
  BY <1>3 DEF LeaveSession
<1>5. session' \in [Procs -> Sessions] /\ session' = [session EXCEPT ![p] = NoSession]
  BY NoneTyped DEF LeaveSession, TypeOK
<1> QED
  BY <1>1, <1>2, <1>4, <1>5 DEF LeaveSession, TypeOK, Goto

LEMMA LeaveType ==
  ASSUME TypeOK, UNCHANGED scenario, NEW p \in Procs,
         Logout(p) \/ Exit(p) \/ Restore(p) \/ RestoreNothing(p)
  PROVE TypeOK'
<1> USE DEF Screens
<1>0. log \in Logs /\ backup.log \in Logs /\ fresh[p] \in BOOLEAN
  BY DEF TypeOK
<1>1. CASE Logout(p)
  <2>1. LeaveSession(p, log, fresh[p], "login")
    BY <1>1 DEF Logout
  <2> QED
    BY <1>0, <1>1, <2>1, LeaveSessionProps DEF Logout, TypeOK
<1>2. CASE Exit(p)
  <2>1. LeaveSession(p, log, fresh[p], "off")
    BY <1>2 DEF Exit
  <2> QED
    BY <1>0, <1>2, <2>1, LeaveSessionProps DEF Exit, TypeOK
<1>3. CASE Restore(p)
  <2>1. LeaveSession(p, backup.log, FALSE, "login")
    BY <1>3 DEF Restore
  <2>2. /\ log' \in Logs /\ strayed' \in SUBSET (1..MaxLog)
        /\ session' \in [Procs -> Sessions]
        /\ entered' \in [Procs -> Names \cup {NoOne}]
        /\ bypassed' \in SUBSET Procs /\ at' \in [Procs -> Screens]
    BY <1>0, <2>1, LeaveSessionProps
  <2>3. /\ account' \in [Names -> Users] /\ fresh' \in [Procs -> BOOLEAN]
        /\ UNCHANGED <<backup, entry, panel, promoted, misread>>
    BY <1>3 DEF Restore, Replaced, TypeOK
  <2> QED
    BY <2>2, <2>3 DEF TypeOK
<1>4. CASE RestoreNothing(p)
  <2>1. LeaveSession(p, log, fresh[p], "login")
    BY <1>4 DEF RestoreNothing
  <2>2. /\ log' \in Logs /\ strayed' \in SUBSET (1..MaxLog)
        /\ session' \in [Procs -> Sessions]
        /\ entered' \in [Procs -> Names \cup {NoOne}]
        /\ bypassed' \in SUBSET Procs /\ at' \in [Procs -> Screens]
    BY <1>0, <2>1, LeaveSessionProps
  <2> QED
    BY <1>4, <2>2 DEF RestoreNothing, TypeOK
<1> QED
  BY <1>1, <1>2, <1>3, <1>4

LEMMA TypeStep == TypeOK /\ [Next]_vars => TypeOK'
<1> SUFFICES ASSUME TypeOK, [Next]_vars PROVE TypeOK'
  OBVIOUS
<1>1. CASE UNCHANGED vars
  BY <1>1 DEF vars, tables, history, TypeOK
<1>2. CASE Next
  <2>1. PICK p \in Procs :
       \/ Start(p) \/ Stop(p) \/ Exit(p)
       \/ \E n \in Names : Verify(p, n) \/ CountUsers(p, n)
       \/ CreateUser(p) \/ NotCreated(p) \/ VerifyNew(p) \/ EnterAnyway(p)
       \/ OpenSession(p)
       \/ Lock(p) \/ GoBack(p) \/ Logout(p)
       \/ OpenBackups(p)
       \/ OpenUsersPanel(p) \/ CloseUsersPanel(p)
       \/ \E n \in Names, r \in Roles : UpdateRole(p, n, r)
       \/ MakeBackup(p) \/ Restore(p) \/ RestoreNothing(p) \/ RestoreNotLoaded(p)
    BY <1>2 DEF Next
  <2>2. UNCHANGED scenario
    BY <1>2 DEF Next
  <2> QED
    BY <2>1, <2>2, LoginType, OpenSessionType, InsideType, LeaveType
<1> QED
  BY <1>1, <1>2

(* Every variable has its type, for any number of instances, names, users  *)
(* and rows (main, draw_login_screen, session.c, draw_backup_screen).      *)
THEOREM AccountsTyped == Spec => []TypeOK
BY InitType, TypeStep, PTL DEF Spec

-----------------------------------------------------------------------------
(* Nobody is inside but who entered.                                       *)

LEMMA EnteredStep ==
  TypeOK /\ InsideAsEntered /\ [Next]_vars => InsideAsEntered'
<1> SUFFICES ASSUME TypeOK, InsideAsEntered, [Next]_vars, NEW q \in Procs,
                    at'[q] \in {"main", "backup"}, q \notin bypassed'
             PROVE  session'[q].name # NoOne /\ session'[q].name = entered'[q]
  BY DEF InsideAsEntered, Active
<1> USE DEF Goto, history, tables, InsideAsEntered, Active
<1>1. CASE UNCHANGED vars
  BY <1>1 DEF vars
<1>2. CASE Next
  <2>0. at \in [Procs -> Screens] /\ session \in [Procs -> Sessions]
        /\ entry \in [Procs -> Entries] /\ entered \in [Procs -> Names \cup {NoOne}]
    BY DEF TypeOK
  <2>1. PICK p \in Procs :
       \/ Start(p) \/ Stop(p) \/ Exit(p)
       \/ \E n \in Names : Verify(p, n) \/ CountUsers(p, n)
       \/ CreateUser(p) \/ NotCreated(p) \/ VerifyNew(p) \/ EnterAnyway(p)
       \/ OpenSession(p)
       \/ Lock(p) \/ GoBack(p) \/ Logout(p)
       \/ OpenBackups(p)
       \/ OpenUsersPanel(p) \/ CloseUsersPanel(p)
       \/ \E n \in Names, r \in Roles : UpdateRole(p, n, r)
       \/ MakeBackup(p) \/ Restore(p) \/ RestoreNothing(p) \/ RestoreNotLoaded(p)
    BY <1>2 DEF Next
  <2>2. CASE Start(p) \/ CreateUser(p) \/ NotCreated(p) \/ VerifyNew(p)
             \/ \E n \in Names : Verify(p, n) \/ CountUsers(p, n)
    BY <2>0, <2>2 DEF Start, CreateUser, NotCreated, VerifyNew, Verify, CountUsers
  <2>3. CASE EnterAnyway(p)
    BY <2>0, <2>3 DEF EnterAnyway
  <2>4. CASE OpenSession(p)
    <3>1. entry[p].name \in Names /\ entry[p].name # NoOne
      BY <2>0, <2>4, NamesAssumption DEF OpenSession, Entries, NoEntry
    <3>2. CASE q = p
      BY <2>0, <2>4, <3>1, <3>2 DEF OpenSession
    <3>3. CASE q # p
      <4>1. session'[q] = session[q] /\ at'[q] = at[q] /\ entered'[q] = entered[q]
        BY <2>0, <2>4, <3>3 DEF OpenSession
      <4>2. q \notin bypassed
        BY <2>4, <3>3 DEF OpenSession
      <4> QED
        BY <4>1, <4>2
    <3> QED
      BY <3>2, <3>3
  <2>5. CASE Lock(p) \/ GoBack(p) \/ OpenBackups(p)
    BY <2>0, <2>5, Zenon DEF Lock, GoBack, OpenBackups, On
  <2>6. CASE \/ OpenUsersPanel(p) \/ CloseUsersPanel(p) \/ MakeBackup(p)
             \/ RestoreNotLoaded(p) \/ \E n \in Names, r \in Roles : UpdateRole(p, n, r)
    BY <2>0, <2>6 DEF OpenUsersPanel, CloseUsersPanel, MakeBackup, RestoreNotLoaded, UpdateRole
  <2>7. CASE Stop(p) \/ Exit(p) \/ Logout(p) \/ Restore(p) \/ RestoreNothing(p)
    <3>1. PICK s \in {"login", "off"} :
            /\ at' = [at EXCEPT ![p] = s] /\ session' = [session EXCEPT ![p] = NoSession]
            /\ entered' = [entered EXCEPT ![p] = NoOne] /\ bypassed' = bypassed \ {p}
      BY <2>7 DEF Stop, Forget, Exit, Logout, Restore, RestoreNothing, LeaveSession
    <3>2. q # p
      BY <2>0, <3>1
    <3> QED
      BY <2>0, <3>1, <3>2
  <2> QED
    BY <2>1, <2>2, <2>3, <2>4, <2>5, <2>6, <2>7
<1> QED
  BY <1>1, <1>2

(* Whoever is past the login screen was let in there, whatever the lock,   *)
(* restores and stops do, unless a sign-up whose login failed led there.   *)
THEOREM InsideAlwaysAsEntered == Spec => []InsideAsEntered
<1>1. Init => InsideAsEntered
  BY DEF Init, InsideAsEntered
<1> QED
  BY <1>1, AccountsTyped, EnteredStep, PTL DEF Spec

-----------------------------------------------------------------------------
(* Administrators.                                                         *)

(* A login screen is there only after the seed is, and every backup has    *)
(* the seed: nobody is ever the first account.                             *)
SeedFirst ==
  ~misread =>
    /\ Exists(Seed) \/ \A p \in Procs : at[p] = "off"
    /\ backup.made => backup.account[Seed].id # 0
    /\ \A p \in Procs : entry[p].next = "create" => entry[p].role = "operateur"
    /\ \A p \in Procs : at[p] = "off" => entry[p] = NoEntry
    /\ \A n \in Names \ {Seed} : backup.account[n].role = "admin" => n \in promoted

AdminsInv == TypeOK /\ SeedFirst /\ AdminsWerePromoted

LEMMA InitAdmins == Init => AdminsInv
<1> SUFFICES ASSUME Init PROVE SeedFirst /\ AdminsWerePromoted
  BY InitType DEF AdminsInv
<1> QED
  BY DEF Init, SeedFirst, AdminsWerePromoted, NoEntry

LEMMA AdminsStep == AdminsInv /\ [Next]_vars => AdminsInv'
<1> SUFFICES ASSUME AdminsInv, [Next]_vars, ~misread'
             PROVE  SeedFirst' /\ AdminsWerePromoted'
  BY TypeStep DEF AdminsInv, SeedFirst, AdminsWerePromoted
<1>0. /\ ~misread /\ account \in [Names -> Users] /\ backup.account \in [Names -> Users]
      /\ at \in [Procs -> Screens] /\ entry \in [Procs -> Entries]
      /\ misread \in BOOLEAN
  <2>1. misread' \in {misread, TRUE} \/ \E failed \in BOOLEAN : misread' = (misread \/ failed)
    BY DEF Next, vars, history, Start, Stop, Exit, Verify, CountUsers, CreateUser, NotCreated,
           VerifyNew, EnterAnyway, OpenSession, Lock, GoBack, Logout, OpenBackups,
           OpenUsersPanel, CloseUsersPanel, UpdateRole, MakeBackup, Restore, RestoreNothing,
           RestoreNotLoaded
  <2> QED
    BY <2>1 DEF AdminsInv, TypeOK
<1> USE <1>0 DEF Goto, history, tables, AdminsInv, SeedFirst, AdminsWerePromoted, Exists
<1>1. CASE UNCHANGED vars
  BY <1>1 DEF vars
<1>2. CASE Next
  <2>1. PICK p \in Procs :
       \/ Start(p) \/ Stop(p) \/ Exit(p)
       \/ \E n \in Names : Verify(p, n) \/ CountUsers(p, n)
       \/ CreateUser(p) \/ NotCreated(p) \/ VerifyNew(p) \/ EnterAnyway(p)
       \/ OpenSession(p)
       \/ Lock(p) \/ GoBack(p) \/ Logout(p)
       \/ OpenBackups(p)
       \/ OpenUsersPanel(p) \/ CloseUsersPanel(p)
       \/ \E n \in Names, r \in Roles : UpdateRole(p, n, r)
       \/ MakeBackup(p) \/ Restore(p) \/ RestoreNothing(p) \/ RestoreNotLoaded(p)
    BY <1>2 DEF Next
  <2>2. CASE Start(p)
    <3>1. account'[Seed].id # 0
      BY <2>2, InsertProps, NamesAssumption DEF Start, Roles
    <3>2. \A n \in Names \ {Seed} : account'[n] = account[n]
      BY <2>2, InsertProps, NamesAssumption DEF Start, Roles
    <3> QED
      BY <2>2, <3>1, <3>2 DEF Start
  <2>3. CASE \E n \in Names : CountUsers(p, n)
    <3>1. PICK n \in Names, failed \in BOOLEAN :
            /\ misread' = (misread \/ failed)
            /\ entry' = [entry EXCEPT ![p] =
                 [next |-> "create", name |-> n, id |-> 0,
                  role |-> IF failed THEN "admin" ELSE RoleOfNew]]
            /\ at[p] = "login"
      BY <2>3 DEF CountUsers, On
    <3>2. ~failed /\ RoleOfNew = "operateur"
      BY <3>1, NamesAssumption DEF RoleOfNew
    <3> QED
      BY <2>3, <3>1, <3>2 DEF CountUsers
  <2>4. CASE CreateUser(p)
    <3>1. entry[p].name \in Names /\ entry[p].role = "operateur"
      BY <2>4 DEF CreateUser, Entries, NoEntry
    <3>2. /\ account'[entry[p].name].id # 0 /\ account'[entry[p].name].role = "operateur"
          /\ \A m \in Names : m # entry[p].name => account'[m] = account[m]
      BY <2>4, <3>1, InsertProps DEF CreateUser, Roles
    <3>3. account[Seed].id # 0 => account'[Seed].id # 0
      BY <3>2, NamesAssumption
    <3>4. \A q \in Procs : entry'[q].next = "create" => entry[q].next = "create" /\ entry'[q] = entry[q]
      BY <2>4 DEF CreateUser
    <3>5. at[p] # "off" /\ \A q \in Procs : q # p => entry'[q] = entry[q]
      BY <2>4 DEF CreateUser, NoEntry
    <3> QED
      BY <2>4, <3>2, <3>3, <3>4, <3>5 DEF CreateUser
  <2>5. CASE \/ NotCreated(p) \/ VerifyNew(p) \/ EnterAnyway(p) \/ OpenSession(p)
             \/ \E n \in Names : Verify(p, n)
    <3>1. /\ UNCHANGED <<account, backup, promoted>>
          /\ \A q \in Procs : entry'[q].next = "create" => entry'[q] = entry[q]
      BY <2>5 DEF NotCreated, VerifyNew, EnterAnyway, OpenSession, Verify, NoEntry
    <3>2. at[p] # "off"
      BY <2>5 DEF NotCreated, VerifyNew, EnterAnyway, OpenSession, Verify, On, NoEntry
    <3>3. \A q \in Procs : at'[q] = "off" => at[q] = "off" /\ entry'[q] = entry[q]
      BY <2>5, <3>2 DEF NotCreated, VerifyNew, EnterAnyway, OpenSession, Verify
    <3> QED
      BY <3>1, <3>2, <3>3
  <2>6. CASE \/ Lock(p) \/ GoBack(p) \/ OpenBackups(p) \/ OpenUsersPanel(p)
             \/ CloseUsersPanel(p) \/ Logout(p) \/ RestoreNothing(p)
    BY <2>6 DEF Lock, GoBack, OpenBackups, OpenUsersPanel, CloseUsersPanel, On, Logout,
                RestoreNothing, LeaveSession
  <2>7. CASE Stop(p) \/ Exit(p)
    <3>1. /\ UNCHANGED <<account, backup, promoted>>
          /\ at' = [at EXCEPT ![p] = "off"]
          /\ entry' = [entry EXCEPT ![p] = NoEntry]
      BY <2>7 DEF Stop, Exit, Forget, LeaveSession, On
    <3>2. \A q \in Procs : entry'[q].next = "create" => entry'[q] = entry[q]
      BY <3>1 DEF NoEntry
    <3>3. \A q \in Procs : at'[q] = "off" => q = p \/ at[q] = "off"
      BY <3>1
    <3> QED
      BY <3>1, <3>2, <3>3
  <2>8. CASE \E n \in Names, r \in Roles : UpdateRole(p, n, r)
    BY <2>8 DEF UpdateRole, Users
  <2>9. CASE MakeBackup(p)
    BY <2>9 DEF MakeBackup, On
  <2>10. CASE Restore(p) \/ RestoreNotLoaded(p)
    BY <2>10 DEF Restore, RestoreNotLoaded, Replaced, LeaveSession
  <2> QED
    BY <2>1, <2>2, <2>3, <2>4, <2>5, <2>6, <2>7, <2>8, <2>9, <2>10
<1> QED
  BY <1>1, <1>2

(* No sign-up makes an administrator, for any number of instances and      *)
(* names, however starts, sign-ups and restores cross.                     *)
THEOREM AdminsAlwaysPromoted == Spec => []AdminsWerePromoted
<1>1. AdminsInv => AdminsWerePromoted
  BY DEF AdminsInv
<1> QED
  BY <1>1, InitAdmins, AdminsStep, PTL DEF Spec

-----------------------------------------------------------------------------
(* Rows of the log.                                                        *)

\* An instance where nobody is logged in would close no row.
NobodyHasRow == \A p \in Procs : session[p].name = NoOne => session[p].row = 0

RowsInv == TypeOK /\ NobodyHasRow /\ SessionOwnsRow

LEMMA InitRows == Init => RowsInv
<1> SUFFICES ASSUME Init PROVE NobodyHasRow /\ SessionOwnsRow
  BY InitType DEF RowsInv
<1> QED
  BY DEF Init, NoSession, NobodyHasRow, SessionOwnsRow, Active

(* What leaves the sessions, the log and its restores alone.               *)
LEMMA StillRows ==
  ASSUME RowsInv, UNCHANGED <<log, session, fresh, strayed>>
  PROVE  NobodyHasRow' /\ SessionOwnsRow'
BY DEF RowsInv, NobodyHasRow, SessionOwnsRow, Active

(* A session that begins takes the row it has just appended, or none.      *)
LEMMA OpenSessionRows ==
  ASSUME RowsInv, NEW p \in Procs, OpenSession(p)
  PROVE  NobodyHasRow' /\ SessionOwnsRow'
<1> DEFINE e == entry[p]
<1>1. e.name # NoOne /\ e.id \in 1..MaxUsers
  BY NamesAssumption DEF OpenSession, RowsInv, TypeOK, Entries, NoEntry
<1>2. Len(log) \in Nat /\ log \in Logs /\ session \in [Procs -> Sessions]
      /\ fresh \in [Procs -> BOOLEAN]
  BY LenProperties DEF RowsInv, TypeOK, Logs
<1>3. PICK r \in {0, Len(log) + 1} :
        /\ session' = [session EXCEPT ![p] =
             [name |-> e.name, id |-> e.id, role |-> e.role, row |-> r]]
        /\ r = 0 => log' = log
        /\ r # 0 => Len(log) < MaxLog /\ log' = Append(log, [user |-> e.id, open |-> TRUE])
  BY DEF OpenSession
<1>4. fresh' = [fresh EXCEPT ![p] = TRUE] /\ strayed' = strayed
  BY DEF OpenSession
<1> HIDE DEF e
<1>5. \A q \in Procs : q # p => session'[q] = session[q] /\ fresh'[q] = fresh[q]
  BY <1>2, <1>3, <1>4
<1>6. session'[p].name = e.name /\ session'[p].id = e.id /\ session'[p].row = r
  BY <1>2, <1>3
<1>7. NobodyHasRow'
  BY <1>1, <1>5, <1>6 DEF RowsInv, NobodyHasRow
<1>8. /\ Len(log') >= Len(log)
      /\ \A i \in 1..Len(log) : log'[i] = log[i]
      /\ r # 0 => Len(log') = Len(log) + 1 /\ log'[r] = [user |-> e.id, open |-> TRUE]
  BY <1>1, <1>2, <1>3, NextRowProps
<1>9. \A q \in Procs : session[q].row \in Nat
  BY <1>2, BoundsAssumption DEF Sessions
<1>10. \A q \in Procs :
         q # p /\ session[q].name # NoOne /\ fresh[q] /\ session[q].row # 0 =>
           /\ session[q].row \in 1..Len(log)
           /\ log[session[q].row].user = session[q].id
           /\ log[session[q].row].open \/ session[q].row \in strayed
  BY <1>2, <1>9 DEF RowsInv, SessionOwnsRow, Active
<1>11. SessionOwnsRow'
  <2> SUFFICES ASSUME NEW q \in Procs, Active(q)', fresh'[q], session'[q].row # 0
               PROVE  /\ session'[q].row <= Len(log')
                      /\ log'[session'[q].row].user = session'[q].id
                      /\ log'[session'[q].row].open \/ session'[q].row \in strayed'
                      /\ \A t \in Procs :
                           t # q /\ Active(t)' /\ fresh'[t] => session'[t].row # session'[q].row
    BY DEF SessionOwnsRow
  <2>1. CASE q = p
    <3>1. r = Len(log) + 1 /\ session'[q].row = r
      BY <1>6, <2>1
    <3>2. \A t \in Procs : t # q /\ Active(t)' /\ fresh'[t] => session'[t].row # r
      BY <1>2, <1>5, <1>9, <1>10, <2>1, <3>1 DEF Active
    <3> QED
      BY <1>2, <1>6, <1>8, <2>1, <3>1, <3>2
  <2>2. CASE q # p
    <3>1. /\ session[q].row \in 1..Len(log) /\ session'[q] = session[q]
          /\ log[session[q].row].user = session[q].id
          /\ log[session[q].row].open \/ session[q].row \in strayed
      BY <1>5, <1>10, <2>2 DEF Active
    <3>2. \A t \in Procs : t # q /\ Active(t)' /\ fresh'[t] => session'[t].row # session[q].row
      BY <1>2, <1>3, <1>5, <1>6, <2>2, <3>1 DEF RowsInv, SessionOwnsRow, Active
    <3>3. session[q].row <= Len(log')
      <4>1. Len(log') \in Nat
        BY <1>2, <1>3, <1>8
      <4> QED
        BY <1>2, <1>8, <3>1, <4>1
    <3> QED
      BY <1>4, <1>8, <3>1, <3>2, <3>3
  <2> QED
    BY <2>1, <2>2
<1> QED
  BY <1>7, <1>11

(* A session that ends in the log it knows closes its row; one older than  *)
(* a restore closes any, which is remembered.                              *)
LEMMA LeaveRows ==
  ASSUME RowsInv, NEW p \in Procs, NEW s \in Screens, UNCHANGED fresh,
         LeaveSession(p, log, fresh[p], s)
  PROVE  NobodyHasRow' /\ SessionOwnsRow'
<1>1. Len(log) \in Nat /\ log \in Logs /\ session \in [Procs -> Sessions]
      /\ fresh \in [Procs -> BOOLEAN]
  BY LenProperties DEF RowsInv, TypeOK, Logs
<1>2. session' = [session EXCEPT ![p] = NoSession]
  BY DEF LeaveSession
<1>3. \A q \in Procs : q # p => session'[q] = session[q]
  BY <1>1, <1>2
<1>4. session'[p].name = NoOne /\ session'[p].row = 0
  BY <1>1, <1>2 DEF NoSession
<1>5. NobodyHasRow'
  BY <1>3, <1>4 DEF RowsInv, NobodyHasRow
<1>6. \/ log' = log /\ strayed' = strayed \cap 1..Len(log)
      \/ /\ log' = RowClosed(log, session[p].row)
         /\ strayed' = (strayed \cup IF fresh[p] THEN {} ELSE {session[p].row}) \cap 1..Len(log)
  BY DEF LeaveSession
<1>7. /\ Len(log') = Len(log)
      /\ \A i \in 1..Len(log) :
           /\ log'[i].user = log[i].user
           /\ log'[i].open # log[i].open => i = session[p].row
           /\ i \in strayed => i \in strayed'
           /\ i = session[p].row /\ ~fresh[p] /\ log' # log => i \in strayed'
  BY <1>1, <1>6, RowClosedProps
<1>8. SessionOwnsRow'
  <2> SUFFICES ASSUME NEW q \in Procs, Active(q)', fresh'[q], session'[q].row # 0
               PROVE  /\ session'[q].row <= Len(log')
                      /\ log'[session'[q].row].user = session'[q].id
                      /\ log'[session'[q].row].open \/ session'[q].row \in strayed'
                      /\ \A t \in Procs :
                           t # q /\ Active(t)' /\ fresh'[t] => session'[t].row # session'[q].row
    BY DEF SessionOwnsRow
  <2>1. q # p /\ session'[q] = session[q] /\ fresh[q]
    BY <1>3, <1>4
  <2>2. /\ session[q].row \in 1..Len(log)
        /\ log[session[q].row].user = session[q].id
        /\ log[session[q].row].open \/ session[q].row \in strayed
    <3>1. session[q].row \in Nat
      BY <1>1, BoundsAssumption DEF Sessions
    <3> QED
      BY <1>1, <2>1, <3>1 DEF RowsInv, SessionOwnsRow, Active
  <2>3. \A t \in Procs : t # q /\ Active(t)' /\ fresh'[t] => session'[t].row # session'[q].row
    BY <1>3, <1>4, <2>1 DEF RowsInv, SessionOwnsRow, Active
  <2>4. fresh[p] => session[q].row # session[p].row
    <3>1. CASE session[p].name = NoOne
      BY <2>1, <3>1 DEF RowsInv, NobodyHasRow
    <3>2. CASE session[p].name # NoOne
      BY <2>1, <3>2 DEF RowsInv, SessionOwnsRow, Active
    <3> QED
      BY <3>1, <3>2
  <2>5. log'[session[q].row].open \/ session[q].row \in strayed'
    BY <1>1, <1>7, <2>2, <2>4
  <2> QED
    BY <1>1, <1>7, <2>1, <2>2, <2>3, <2>5
<1> QED
  BY <1>5, <1>8

LEMMA RowsStep == RowsInv /\ [Next]_vars => RowsInv'
<1> SUFFICES ASSUME RowsInv, [Next]_vars PROVE NobodyHasRow' /\ SessionOwnsRow'
  BY TypeStep DEF RowsInv
<1>0. session \in [Procs -> Sessions]
  BY DEF RowsInv, TypeOK
<1>1. CASE UNCHANGED vars
  BY <1>1, StillRows DEF vars, tables, history
<1>2. CASE Next
  <2>1. PICK p \in Procs :
       \/ Start(p) \/ Stop(p) \/ Exit(p)
       \/ \E n \in Names : Verify(p, n) \/ CountUsers(p, n)
       \/ CreateUser(p) \/ NotCreated(p) \/ VerifyNew(p) \/ EnterAnyway(p)
       \/ OpenSession(p)
       \/ Lock(p) \/ GoBack(p) \/ Logout(p)
       \/ OpenBackups(p)
       \/ OpenUsersPanel(p) \/ CloseUsersPanel(p)
       \/ \E n \in Names, r \in Roles : UpdateRole(p, n, r)
       \/ MakeBackup(p) \/ Restore(p) \/ RestoreNothing(p) \/ RestoreNotLoaded(p)
    BY <1>2 DEF Next
  <2>2. CASE \/ Start(p) \/ CreateUser(p) \/ NotCreated(p) \/ VerifyNew(p) \/ EnterAnyway(p)
             \/ \E n \in Names : Verify(p, n) \/ CountUsers(p, n)
             \/ Lock(p) \/ GoBack(p) \/ OpenBackups(p)
             \/ OpenUsersPanel(p) \/ CloseUsersPanel(p) \/ MakeBackup(p)
             \/ \E n \in Names, r \in Roles : UpdateRole(p, n, r)
    <3>1. UNCHANGED <<log, session, fresh, strayed>>
      BY <2>2 DEF Start, CreateUser, NotCreated, VerifyNew, EnterAnyway, Verify, CountUsers,
                  Lock, GoBack, OpenBackups, OpenUsersPanel, CloseUsersPanel, MakeBackup,
                  UpdateRole, tables, history
    <3> QED
      BY <3>1, StillRows
  <2>3. CASE OpenSession(p)
    BY <2>3, OpenSessionRows
  <2>4. CASE Logout(p) \/ Exit(p) \/ RestoreNothing(p)
    BY <2>4, LeaveRows DEF Logout, Exit, RestoreNothing, Screens
  <2>5. CASE Stop(p)
    <3>1. session' = [session EXCEPT ![p] = NoSession] /\ UNCHANGED <<log, fresh, strayed>>
      BY <2>5 DEF Stop, Forget, tables
    <3>2. \A q \in Procs : q # p => session'[q] = session[q]
      BY <1>0, <3>1
    <3>3. session'[p].name = NoOne /\ session'[p].row = 0
      BY <1>0, <3>1 DEF NoSession
    <3> QED
      BY <3>1, <3>2, <3>3 DEF RowsInv, NobodyHasRow, SessionOwnsRow, Active
  <2>6. CASE Restore(p) \/ RestoreNotLoaded(p)
    <3>1. \A q \in Procs : ~fresh'[q]
      BY <2>6 DEF Restore, RestoreNotLoaded, Replaced
    <3>2. session' \in {session, [session EXCEPT ![p] = NoSession]}
      BY <2>6 DEF Restore, RestoreNotLoaded, LeaveSession
    <3>3. NobodyHasRow'
      BY <1>0, <3>2 DEF RowsInv, NobodyHasRow, NoSession
    <3> QED
      BY <3>1, <3>3 DEF SessionOwnsRow
  <2> QED
    BY <2>1, <2>2, <2>3, <2>4, <2>5, <2>6
<1> QED
  BY <1>1, <1>2

(* The row a session closes is its own, for any number of instances and    *)
(* rows, whatever second logins, locks, stops and restores do.             *)
THEOREM SessionAlwaysOwnsRow == Spec => []SessionOwnsRow
<1>1. RowsInv => SessionOwnsRow
  BY DEF RowsInv
<1> QED
  BY <1>1, InitRows, RowsStep, PTL DEF Spec
=============================================================================
